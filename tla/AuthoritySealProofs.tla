------------------------ MODULE AuthoritySealProofs -------------------------
(***************************************************************************)
(* Theorems about the way from the official videos to a sealed Authority,  *)
(* for any archives, videos, rankings, sizes, edits and number of faults:  *)
(* what is reported as prepared is official but for what decayed since,    *)
(* and each gate stands on what the gate before it stood on.               *)
(***************************************************************************)
EXTENDS AuthoritySeal, FiniteSetTheorems, SequenceTheorems, TLAPS

-----------------------------------------------------------------------------
\* The pilot.

\* Any set of numbers has a least one.
LEMMA LeastOfNumbers ==
  ASSUME NEW S \in SUBSET Nat, S # {}
  PROVE  \E m \in S : \A n \in S : m <= n
<1>1. IsWellFoundedOn(OpToRel(<, Nat), Nat)
  BY NatLessThanWellFounded
<1>2. PICK m \in S : \A n \in S : ~(<<n, m>> \in OpToRel(<, Nat))
  BY <1>1, WFMin
<1>3. \A n \in S : ~(n < m)
  BY <1>2 DEF OpToRel
<1> QED BY <1>3

\* A count that goes up by at most one at a time comes to every number below its last, and
\* those who raise it no further are those up to a place.
LEMMA CountingUp ==
  ASSUME NEW N \in Nat, NEW c \in [0..N -> Nat], c[0] = 0,
         \A i \in 1..N : c[i] = c[i - 1] \/ c[i] = c[i - 1] + 1,
         \A i, k \in 0..N : i <= k => c[i] <= c[k],
         NEW n \in 1..c[N]
  PROVE  \E m \in 1..N : /\ c[m] = n
                         /\ \A i \in 1..N : c[i] = c[i - 1] + 1 => (c[i] <= n <=> i <= m)
<1> DEFINE M == {i \in 0..N : c[i] >= n}
<1>1. M \in SUBSET Nat /\ N \in M
  OBVIOUS
<1>2. PICK m \in M : \A k \in M : m <= k
  <2> HIDE DEF M
  <2> QED BY <1>1, LeastOfNumbers
<1>3. m \in 1..N /\ m - 1 \in 0..N /\ c[m] \in Nat /\ c[m - 1] \in Nat /\ c[m] >= n
  BY <1>2
<1>4. c[m - 1] < n
  <2>1. m - 1 \notin M
    BY <1>2, <1>3
  <2> QED BY <1>3, <2>1
<1>5. c[m] = n
  <2>1. c[m] = c[m - 1] \/ c[m] = c[m - 1] + 1
    BY <1>3
  <2> QED BY <1>3, <1>4, <2>1
<1>6. ASSUME NEW i \in 1..N, c[i] = c[i - 1] + 1
      PROVE  c[i] <= n <=> i <= m
  <2>1. i \in 0..N /\ i - 1 \in 0..N /\ m \in 0..N /\ c[i] \in Nat /\ c[i - 1] \in Nat
    BY <1>3
  <2>2. i <= m => c[i] <= c[m]
    BY <2>1
  <2>3. m <= i - 1 => c[m] <= c[i - 1]
    BY <2>1
  <2>4. i <= m \/ m <= i - 1
    BY <2>1
  <2> QED BY <1>5, <1>6, <2>1, <2>2, <2>3, <2>4
<1> QED BY <1>3, <1>5, <1>6

\* A ranking names every video once.
LEMMA RankingIsOneToOne ==
  ASSUME NEW r \in Rankings
  PROVE  /\ Cardinality(Videos) \in Nat /\ DOMAIN r = 1..Cardinality(Videos)
         /\ \A i \in DOMAIN r : r[i] \in Videos
         /\ \A v \in Videos : \E i \in DOMAIN r : r[i] = v
         /\ \A i, j \in DOMAIN r : r[i] = r[j] => i = j
<1> DEFINE n == Cardinality(Videos)
<1>1. n \in Nat /\ IsFiniteSet(Videos)
  BY PreparationAssumption, FS_CardinalityType
<1>2. r \in Seq(Videos) /\ Len(r) = n /\ {r[i] : i \in DOMAIN r} = Videos
  BY PreparationAssumption DEF ToSet
<1>3. DOMAIN r = 1..n /\ r \in [1..n -> Videos]
  BY <1>2, LenProperties
<1>4. r \in Surjection(1..n, Videos)
  BY <1>2, <1>3 DEF Surjection
<1>5. IsFiniteSet(1..n) /\ Cardinality(1..n) = n
  BY <1>1, FS_Interval
<1>6. r \in Injection(1..n, Videos)
  BY <1>4, <1>5, FS_Surjection
<1>7. \A i, j \in DOMAIN r : r[i] = r[j] => i = j
  BY <1>6, <1>3 DEF Injection, IsInjective
<1> QED BY <1>1, <1>2, <1>3, <1>7

\* So places and the videos at them are equally many.
LEMMA PlacesAndVideos ==
  ASSUME NEW r \in Rankings, NEW J \in SUBSET (DOMAIN r)
  PROVE  /\ IsFiniteSet(J) /\ Cardinality(J) \in Nat
         /\ Cardinality({r[j] : j \in J}) = Cardinality(J)
<1> DEFINE V == {r[j] : j \in J}
           f == [j \in J |-> r[j]]
<1>1. IsFiniteSet(DOMAIN r)
  BY RankingIsOneToOne, FS_Interval
<1>2. IsFiniteSet(J) /\ Cardinality(J) \in Nat
  BY <1>1, FS_Subset, FS_CardinalityType
<1>3. f \in Surjection(J, V)
  BY DEF Surjection
<1>4. f \in Injection(J, V)
  <2>1. \A i, j \in J : f[i] = f[j] => i = j
    BY RankingIsOneToOne
  <2> QED BY <2>1 DEF Injection, IsInjective
<1>5. ExistsBijection(J, V)
  BY <1>3, <1>4 DEF ExistsBijection, Bijection
<1> QED BY <1>2, <1>5, FS_Bijection

\* The first n videos of a set are n videos, when the set has so many.
LEMMA FirstAreSoMany ==
  ASSUME NEW r \in Rankings, NEW S \in SUBSET Videos, NEW n \in 1..Cardinality(S)
  PROVE  Cardinality(First(n, S, r)) = n
<1> DEFINE N == Cardinality(Videos)
           J(i) == {j \in 1..i : r[j] \in S}
           c == [i \in 0..N |-> Cardinality(J(i))]
<1>1. N \in Nat /\ DOMAIN r = 1..N
  BY RankingIsOneToOne
<1>2. \A i \in 0..N : /\ J(i) \in SUBSET (DOMAIN r) /\ IsFiniteSet(J(i))
                      /\ c[i] = Cardinality(J(i)) /\ c[i] \in Nat
  <2> SUFFICES ASSUME NEW i \in 0..N
               PROVE  J(i) \in SUBSET (DOMAIN r) /\ IsFiniteSet(J(i)) /\ Cardinality(J(i)) \in Nat
    OBVIOUS
  <2>1. J(i) \in SUBSET (DOMAIN r)
    BY <1>1
  <2> QED BY <2>1, PlacesAndVideos
<1>3. c[0] = 0
  <2>1. J(0) = {} /\ 0 \in 0..N
    BY <1>1
  <2> HIDE DEF J
  <2> QED BY <2>1, FS_EmptySet
<1>4. \A i, k \in 0..N : i <= k => c[i] <= c[k]
  <2> SUFFICES ASSUME NEW i \in 0..N, NEW k \in 0..N, i <= k PROVE c[i] <= c[k]
    OBVIOUS
  <2>1. J(i) \in SUBSET J(k)
    OBVIOUS
  <2> HIDE DEF J, c
  <2> QED BY <1>2, <2>1, FS_Subset
<1>5. \A i \in 1..N : IF r[i] \in S THEN c[i] = c[i - 1] + 1 ELSE c[i] = c[i - 1]
  <2> SUFFICES ASSUME NEW i \in 1..N
               PROVE  IF r[i] \in S THEN c[i] = c[i - 1] + 1 ELSE c[i] = c[i - 1]
    OBVIOUS
  <2>1. i - 1 \in 0..N /\ i \in 0..N /\ i \notin J(i - 1)
    BY <1>1
  <2>2. J(i) = IF r[i] \in S THEN J(i - 1) \cup {i} ELSE J(i - 1)
    BY <1>1
  <2> HIDE DEF J, c
  <2>3. /\ IsFiniteSet(J(i - 1)) /\ c[i] = Cardinality(J(i))
        /\ c[i - 1] = Cardinality(J(i - 1))
    BY <1>2, <2>1
  <2>4. Cardinality(J(i - 1) \cup {i}) = Cardinality(J(i - 1)) + 1
    BY <2>1, <2>3, FS_AddElement
  <2> QED BY <2>2, <2>3, <2>4
<1>6. c[N] = Cardinality(S)
  <2>1. S = {r[j] : j \in J(N)}
    BY <1>1, RankingIsOneToOne
  <2>2. N \in 0..N
    BY <1>1
  <2> HIDE DEF J, c
  <2> QED BY <1>2, <2>1, <2>2, PlacesAndVideos
<1>7. c \in [0..N -> Nat]
  <2> HIDE DEF J
  <2>1. \A i \in 0..N : Cardinality(J(i)) \in Nat
    BY <1>2
  <2> QED BY <2>1
<1> HIDE DEF J, c
<1>8. PICK m \in 1..N : /\ c[m] = n
                        /\ \A i \in 1..N : c[i] = c[i - 1] + 1 => (c[i] <= n <=> i <= m)
  <2>1. \A i \in 1..N : c[i] = c[i - 1] \/ c[i] = c[i - 1] + 1
    BY <1>5
  <2> QED BY <1>1, <1>3, <1>4, <1>6, <1>7, <2>1, CountingUp
<1>9. First(n, S, r) = {r[j] : j \in J(m)}
  <2>1. \A i \in 1..N : r[i] \in S => (c[i] <= n <=> i <= m)
    BY <1>5, <1>8
  <2>2. \A i \in 1..N : c[i] = Cardinality({j \in 1..i : r[j] \in S})
    BY <1>1, <1>2 DEF J
  <2>3. First(n, S, r) = {v \in S : \E i \in 1..N : r[i] = v /\ c[i] <= n}
    BY <1>1, <2>2 DEF First
  <2>4. J(m) = {i \in 1..N : r[i] \in S /\ i <= m}
    BY <1>1, <1>8 DEF J
  <2> QED BY <2>1, <2>3, <2>4
<1>10. J(m) \in SUBSET (DOMAIN r) /\ Cardinality(J(m)) = n
  <2>1. m \in 0..N
    BY <1>1
  <2> QED BY <1>2, <1>8, <2>1
<1> QED BY <1>9, <1>10, PlacesAndVideos

\* The videos whose turn comes while too few are covered are among the first, and the
\* archives they take along have enough.
LEMMA ArchivesCoverThePilot ==
  ASSUME NEW r \in Rankings
  PROVE  /\ CoveredBy(r) \subseteq Videos /\ Cardinality(CoveredBy(r)) >= Count
         /\ Cardinality(CoveredBy(r)) \in Nat
         /\ \A v \in CoveredBy(r) : \E w \in First(Count, CoveredBy(r), r) :
              ArchiveOf[w] = ArchiveOf[v]
<1> DEFINE N == Cardinality(Videos)
           Along(I) == UNION {Members(ArchiveOf[r[i]]) : i \in I}
           Turns == {i \in DOMAIN r : Cardinality(Along(1..(i - 1))) < Count}
           V == CoveredBy(r)
<1>1. /\ N \in Nat /\ DOMAIN r = 1..N /\ Count \in 1..N
      /\ \A i \in 1..N : r[i] \in Videos
      /\ \A v \in Videos : \E i \in 1..N : r[i] = v
  BY PreparationAssumption, RankingIsOneToOne
<1>2. V = Along(Turns)
  BY DEF CoveredBy
<1>3. \A I \in SUBSET (1..N) : /\ Along(I) \subseteq Videos /\ \A i \in I : r[i] \in Along(I)
                               /\ IsFiniteSet(Along(I)) /\ Cardinality(Along(I)) \in Nat
  <2> SUFFICES ASSUME NEW I \in SUBSET (1..N)
               PROVE  /\ Along(I) \subseteq Videos /\ \A i \in I : r[i] \in Along(I)
                      /\ IsFiniteSet(Along(I)) /\ Cardinality(Along(I)) \in Nat
    OBVIOUS
  <2>1. Along(I) \in SUBSET Videos /\ \A i \in I : r[i] \in Along(I)
    BY <1>1 DEF Members
  <2> HIDE DEF Along
  <2> QED BY PreparationAssumption, <2>1, FS_Subset, FS_CardinalityType
<1>4. \A I, K \in SUBSET (1..N) : I \subseteq K => Cardinality(Along(I)) <= Cardinality(Along(K))
  <2> SUFFICES ASSUME NEW I \in SUBSET (1..N), NEW K \in SUBSET (1..N), I \subseteq K
               PROVE  Cardinality(Along(I)) <= Cardinality(Along(K))
    OBVIOUS
  <2>1. Along(I) \in SUBSET Along(K)
    OBVIOUS
  <2> HIDE DEF Along
  <2> QED BY <1>3, <2>1, FS_Subset
<1>5. Turns \in SUBSET (1..N) /\ \A i \in 1..N : 1..(i - 1) \in SUBSET (1..N)
  BY <1>1
<1> HIDE DEF Along
<1>6. V \subseteq Videos /\ IsFiniteSet(V) /\ Cardinality(V) \in Nat
  BY <1>2, <1>3, <1>5
<1>7. Cardinality(V) >= Count
  <2>1. CASE Turns = 1..N
    <3>1. \A i \in 1..N : r[i] \in V
      <4> HIDE DEF Turns
      <4> QED BY <1>2, <1>3, <2>1
    <3>2. V = Videos
      <4> HIDE DEF V, Turns
      <4> QED BY <1>1, <1>6, <3>1
    <3> QED BY <1>1, <3>2
  <2>2. CASE Turns # 1..N
    <3> DEFINE Rest == (1..N) \ Turns
    <3>1. Rest \in SUBSET Nat /\ Rest # {}
      BY <1>1, <1>5, <2>2
    <3>2. PICK i \in Rest : \A k \in Rest : i <= k
      <4> HIDE DEF Rest
      <4> QED BY <3>1, LeastOfNumbers
    <3>3. 1..(i - 1) \subseteq Turns
      <4> SUFFICES ASSUME NEW k \in 1..(i - 1) PROVE k \in Turns
        OBVIOUS
      <4>1. k \in 1..N /\ ~(i <= k)
        BY <1>1, <3>2
      <4> QED BY <3>2, <4>1
    <3>4. Cardinality(Along(1..(i - 1))) >= Count /\ 1..(i - 1) \in SUBSET (1..N)
      <4> DEFINE K == 1..(i - 1)
      <4>1. i \in 1..N /\ ~(Cardinality(Along(K)) < Count)
        BY <1>1, <3>2
      <4>2. K \in SUBSET (1..N) /\ Count \in Nat
        BY <1>1, <4>1
      <4> HIDE DEF K
      <4>3. Cardinality(Along(K)) \in Nat
        BY <1>3, <4>2
      <4>4. Cardinality(Along(K)) >= Count
        BY <4>1, <4>2, <4>3
      <4> QED BY <4>2, <4>4 DEF K
    <3> HIDE DEF Turns
    <3>5. Cardinality(Along(1..(i - 1))) <= Cardinality(V)
      BY <1>2, <1>4, <1>5, <3>3, <3>4
    <3> QED BY <1>1, <1>3, <1>6, <3>4, <3>5
  <2> QED BY <2>1, <2>2
<1>8. \A i \in Turns : i <= Count /\ r[i] \in First(Count, V, r)
  <2> SUFFICES ASSUME NEW i \in Turns PROVE i <= Count /\ r[i] \in First(Count, V, r)
    OBVIOUS
  <2> DEFINE K == 1..(i - 1)
  <2>1. i \in 1..N /\ K \in SUBSET (DOMAIN r) /\ K \in SUBSET (1..N) /\ Cardinality(Along(K)) < Count
    BY <1>1, <1>5
  <2>2. Cardinality({r[j] : j \in K}) = i - 1
    <3>1. Cardinality(K) = i - 1
      <4>1. 1 \in Int /\ i - 1 \in Int /\ i - 1 >= 0
        BY <1>1, <2>1
      <4>2. Cardinality(K) = IF 1 > i - 1 THEN 0 ELSE (i - 1) - 1 + 1
        BY <4>1, FS_Interval
      <4> QED BY <4>1, <4>2
    <3> QED BY <2>1, <3>1, PlacesAndVideos
  <2>3. Cardinality({r[j] : j \in K}) <= Cardinality(Along(K))
    <3>1. {r[j] : j \in K} \in SUBSET Along(K)
      BY <1>3, <2>1
    <3> HIDE DEF K
    <3> QED BY <1>3, <2>1, <3>1, FS_Subset
  <2>4. i <= Count
    <3> HIDE DEF K
    <3> QED BY <1>1, <1>3, <2>1, <2>2, <2>3
  <2>5. Cardinality({j \in 1..i : r[j] \in V}) <= Count
    <3>1. IsFiniteSet(1..i) /\ Cardinality(1..i) = i
      BY <2>1, FS_Interval
    <3>2. {j \in 1..i : r[j] \in V} \in SUBSET (1..i)
      OBVIOUS
    <3>3. /\ Cardinality({j \in 1..i : r[j] \in V}) <= i
          /\ Cardinality({j \in 1..i : r[j] \in V}) \in Nat
      BY <3>1, <3>2, FS_Subset, FS_CardinalityType
    <3> QED BY <1>1, <2>1, <2>4, <3>3
  <2>6. r[i] \in V
    BY <1>2, <1>3, <1>5
  <2> HIDE DEF V, Turns
  <2> QED BY <1>1, <2>1, <2>4, <2>5, <2>6 DEF First
<1>9. \A v \in V : \E i \in Turns : ArchiveOf[r[i]] = ArchiveOf[v]
  BY <1>2 DEF Along, Members
<1> HIDE DEF Turns, V
<1>10. \A v \in V : \E w \in First(Count, V, r) : ArchiveOf[w] = ArchiveOf[v]
  BY <1>8, <1>9
<1> QED BY <1>6, <1>7, <1>10 DEF V

-----------------------------------------------------------------------------
\* The commands.

USE PreparationAssumption, SealAssumption

Phases == {"idle", "download", "extract", "record"}

\* What the command at work does not have to repair any more.
ArchiveSettled(a) == archive[a] = "official" \/ Archive(a) \in decayed
MediumSettled(m) == \/ file[m] = "official" \/ m \in decayed
                    \/ m[1] = "subtitle" /\ Metadata \in decayed

RunType ==
    /\ rank \in Rankings
    /\ DOMAIN run = {"pc", "todo", "checked", "media"}
    /\ run.pc \in Phases
    /\ run.todo \subseteq Plan.archives /\ run.media \subseteq Selected
    /\ run.pc = "idle" => run = Idle

\* What a command has behind it is settled, and it has reported nothing yet.
RunIsSound ==
    run.pc # "idle" =>
        /\ report = "none"
        /\ metadata = "edited" => Metadata \in decayed
        /\ \A a \in Plan.archives \ run.todo : ArchiveSettled(a)
        /\ run.pc # "download" => run.todo = {}
        /\ \A m \in Selected \ run.media : MediumSettled(m)
        /\ run.pc = "record" => run.media # {} /\ MediumSettled(NextMedium)

\* What was verified is official when it is read again, or has decayed.
VideoSettled(v) == file[<<"video", v>>] = "official" \/ <<"video", v>> \in decayed

Hashes == [there : BOOLEAN, videos : SUBSET PilotVideos, slipped : SUBSET PilotVideos]
Jobs == [pc : {"idle", "rehash", "manifests", "e01", "e02"}, next : 1..5,
         todo : SUBSET PilotVideos, found : SUBSET PilotVideos, slipped : SUBSET PilotVideos]

\* A command vouches for what it has read again, and its files follow one another.
RehashIsSound ==
    /\ job.pc = "rehash" => /\ job.next = 1 /\ \A v \in job.todo : VideoSettled(v)
                            /\ PilotVideos \ (job.todo \cup job.slipped) \subseteq job.found
    /\ job.pc = "manifests" => /\ PilotVideos \ job.slipped \subseteq job.found
                               /\ job.next <= 4

E01IsOnRecord ==
    job.pc = "e01" => /\ audit /\ Complete(prep) /\ Bound(prep)
                      /\ checked = prep["reports"].videos
                      /\ \A i \in 1..(job.next - 1) :
                           results[PrepFiles[i]] = prep[PrepFiles[i]]

JobIsSound ==
    /\ job \in Jobs /\ (job # NoJob => run = Idle)
    /\ RehashIsSound /\ E01IsOnRecord

\* Every file of hashes that is there vouches for the pilot.
FilesAreSound ==
    /\ prep \in [Kinds -> Hashes] /\ results \in [Kinds -> Hashes]
    /\ \A k \in {"reports", "manifests"} : /\ prep[k].there => Vouches(prep[k])
                                           /\ results[k].there => Vouches(results[k])
    /\ draft.written => Vouches(draft.manifests)

PrepInv == PrepTypeOK /\ RunType /\ RunIsSound /\ PreparedIsOfficial
SealInv == /\ checked \subseteq PilotVideos /\ gate \in {"none", "PENDING", "PASS"}
           /\ JobIsSound /\ FilesAreSound /\ SourceGateIsAudited /\ SealedIsAudited
IInv == PrepInv /\ SealInv

-----------------------------------------------------------------------------
\* The pilot is made of the official archives and of their videos.
LEMMA PlanIsOfficial ==
  ASSUME rank \in Rankings
  PROVE  Plan.archives \subseteq Archives /\ Plan.videos \subseteq Videos
<1>1. CoveredBy(rank) \subseteq Videos
  BY DEF CoveredBy, Members
<1>2. Plan = SelectPilot(rank)
  BY DEF Plan, PilotOf
<1>3. Plan.videos \subseteq CoveredBy(rank)
  BY <1>2 DEF SelectPilot, First
<1>4. \A v \in Videos : ArchiveOf[v] \in Archives
  OBVIOUS
<1> QED BY <1>1, <1>2, <1>3, <1>4 DEF SelectPilot

LEMMA SelectedAreMedia ==
  ASSUME rank \in Rankings
  PROVE  Selected \subseteq Media
  BY PlanIsOfficial DEF Selected, Media

\* Nothing is both an archive, a medium and the metadata.
LEMMA NamesDiffer ==
  ASSUME NEW a, NEW m \in Media
  PROVE  Archive(a) # Metadata /\ m # Metadata /\ Archive(a) # m
  BY DEF Archive, Metadata, Media

LEMMA NextMediumIsSelected ==
  ASSUME RunType, run.media # {}
  PROVE  NextMedium \in run.media /\ NextMedium \in Selected /\ NextMedium \in Media
<1>1. \A m \in run.media : m[1] \in {"video", "subtitle"}
  BY DEF RunType, Selected
<1>2. \E m \in run.media : m[1] = "video" \/ \A n \in run.media : n[1] = "subtitle"
  BY <1>1
<1>3. NextMedium \in run.media
  BY <1>2 DEF NextMedium
<1> QED BY <1>3, SelectedAreMedia DEF RunType

\* A command that leaves the order of the ranking alone leaves the plan alone.
LEMMA PlanStays ==
  ASSUME UNCHANGED rank
  PROVE  Plan' = Plan /\ Selected' = Selected /\ PilotVideos' = PilotVideos
  BY DEF Plan, Selected, PilotVideos, PilotOf

LEMMA NextMediumStays ==
  ASSUME run.media' = run.media
  PROVE  NextMedium' = NextMedium
<1> DEFINE Best(M) == CHOOSE m \in M : m[1] = "video" \/ \A n \in M : n[1] = "subtitle"
<1>1. NextMedium = Best(run.media)
  BY DEF NextMedium
<1>2. NextMedium' = Best(run.media')
  BY DEF NextMedium
<1> HIDE DEF Best
<1> QED BY <1>1, <1>2

-----------------------------------------------------------------------------
\* `setup videos`, action by action.

\* A command that ends leaves nothing to be sound about.
LEMMA EndIsSound ==
  ASSUME RunType, UNCHANGED rank, run' = Idle
  PROVE  RunType' /\ RunIsSound'
<1>1. Selected' = Selected /\ Plan' = Plan
  BY PlanStays
<1> QED BY <1>1 DEF RunType, RunIsSound, Idle, Phases

LEMMA BeginIsSound ==
  ASSUME PrepInv, NEW mode, BeginPrepare(mode)
  PROVE  PrepInv'
<1> USE DEF PrepInv
<1>1. UNCHANGED rank /\ Plan' = Plan /\ Selected' = Selected
  BY PlanStays DEF BeginPrepare
<1>2. metadata' = "pinned" /\ report' = "none"
  BY DEF BeginPrepare, PlanLoads
<1>3. PreparedIsOfficial'
  BY <1>2 DEF PreparedIsOfficial
<1>4. CASE run' = Idle
  BY <1>1, <1>3, <1>4, EndIsSound DEF BeginPrepare, PrepTypeOK, Idle
<1>5. CASE run' = [pc |-> "download", todo |-> Plan.archives, checked |-> {}, media |-> Selected]
  <2>1. RunType' /\ RunIsSound'
    BY <1>1, <1>2, <1>5 DEF RunType, RunIsSound, Phases
  <2> QED BY <1>3, <1>5, <2>1 DEF BeginPrepare, PrepTypeOK
<1> QED BY <1>4, <1>5 DEF BeginPrepare

LEMMA VerifyIsSound ==
  ASSUME PrepInv, VerifyOnly
  PROVE  PrepInv'
<1> USE DEF PrepInv
<1>1. UNCHANGED rank /\ Plan' = Plan /\ Selected' = Selected
  BY PlanStays DEF VerifyOnly
<1>2. run' = Idle
  BY DEF VerifyOnly
<1>3. PreparedIsOfficial'
  BY <1>1 DEF VerifyOnly, PreparedIsOfficial, PreparedFilesVerify, RecordMatches
<1> QED BY <1>1, <1>2, <1>3, EndIsSound DEF VerifyOnly, PrepTypeOK

\* A command at work has reported nothing.
LEMMA WorkReportsNothing ==
  ASSUME PrepInv, run.pc # "idle", UNCHANGED report
  PROVE  report = "none" /\ PreparedIsOfficial'
  BY DEF PrepInv, RunIsSound, PreparedIsOfficial

LEMMA ReuseArchiveIsSound ==
  ASSUME PrepInv, ReuseArchive
  PROVE  PrepInv'
<1> USE DEF PrepInv
<1>1. UNCHANGED <<rank, mediaVars, planned, report>> /\ run.pc = "download"
  BY DEF ReuseArchive, Working
<1>2. Plan' = Plan /\ Selected' = Selected
  BY <1>1, PlanStays
<1>3. run' = [run EXCEPT !.todo = run.todo \ {NextArchive}] /\ ArchiveSettled(NextArchive)
  BY DEF ReuseArchive, ArchiveSettled
<1>4. RunType' /\ RunIsSound'
  BY <1>1, <1>2, <1>3 DEF RunType, RunIsSound, Phases, mediaVars, ArchiveSettled, MediumSettled
<1> QED BY <1>1, <1>3, <1>4, WorkReportsNothing DEF PrepTypeOK, mediaVars, RunType

LEMMA TransferIsSound ==
  ASSUME PrepInv, Transfer
  PROVE  PrepInv'
<1> USE DEF PrepInv
<1>1. /\ UNCHANGED <<rank, metadata, archive, file, record, decayed, planned, report>>
      /\ run.pc = "download"
  BY DEF Transfer, Working
<1>2. Plan' = Plan /\ Selected' = Selected
  BY <1>1, PlanStays
<1>3. partial' \in [Archives -> [size : 0..(Size + 1), good : BOOLEAN]]
  <2>1. PICK size \in partial[NextArchive].size..(Size + 1), good \in BOOLEAN :
          partial' = [partial EXCEPT ![NextArchive] = [size |-> size, good |-> good]]
    BY DEF Transfer
  <2>2. CASE NextArchive \in Archives
    <3>1. size \in 0..(Size + 1)
      BY <2>1, <2>2 DEF PrepTypeOK
    <3> QED BY <2>1, <3>1 DEF PrepTypeOK
  <2>3. CASE NextArchive \notin Archives
    BY <2>1, <2>3 DEF PrepTypeOK
  <2> QED BY <2>2, <2>3
<1>4. CASE run' = Idle
  BY <1>1, <1>3, <1>4, EndIsSound, WorkReportsNothing DEF PrepTypeOK, Idle
<1>5. CASE UNCHANGED run
  <2>1. RunType' /\ RunIsSound'
    BY <1>1, <1>2, <1>5 DEF RunType, RunIsSound, Phases, ArchiveSettled, MediumSettled
  <2> QED BY <1>1, <1>3, <1>5, <2>1, WorkReportsNothing DEF PrepTypeOK
<1> QED BY <1>4, <1>5 DEF Transfer, Raise

LEMMA PublishArchiveIsSound ==
  ASSUME PrepInv, PublishArchive
  PROVE  PrepInv'
<1> USE DEF PrepInv
<1> DEFINE a == NextArchive
<1>1. /\ UNCHANGED <<rank, metadata, file, record, planned, report>>
      /\ run.pc = "download" /\ run.todo # {}
  BY DEF PublishArchive, Working
<1>2. Plan' = Plan /\ Selected' = Selected
  BY <1>1, PlanStays
<1>3. a \in run.todo /\ a \in Archives
  BY <1>1, PlanIsOfficial DEF NextArchive, RunType
<1>4. /\ archive' = [archive EXCEPT ![a] = "official"]
      /\ partial' = [partial EXCEPT ![a] = NoPartial]
      /\ decayed' = decayed \ {Archive(a)}
      /\ run' = [run EXCEPT !.todo = run.todo \ {a}]
  BY DEF PublishArchive
<1> HIDE DEF a
<1>5. PrepTypeOK'
  BY <1>1, <1>3, <1>4 DEF PrepTypeOK, RunType, NoPartial
<1>6. \A b \in Archives : ArchiveSettled(b) \/ b = a => ArchiveSettled(b)'
  <2> SUFFICES ASSUME NEW b \in Archives, ArchiveSettled(b) \/ b = a PROVE ArchiveSettled(b)'
    OBVIOUS
  <2>1. CASE b = a
    BY <1>3, <1>4, <2>1 DEF ArchiveSettled, PrepTypeOK
  <2>2. CASE b # a
    <3>1. Archive(b) # Archive(a)
      BY <2>2 DEF Archive
    <3> QED BY <1>3, <1>4, <2>2, <3>1 DEF ArchiveSettled, PrepTypeOK
  <2> QED BY <2>1, <2>2
<1>7. \A m \in Media : MediumSettled(m) => MediumSettled(m)'
  BY <1>1, <1>4, NamesDiffer DEF MediumSettled
<1>8. metadata' = "edited" => Metadata \in decayed'
  BY <1>1, <1>4 DEF RunIsSound, Metadata, Archive
<1>9. RunType'
  BY <1>1, <1>2, <1>3, <1>4 DEF RunType, Phases
<1>10. RunIsSound'
  BY <1>1, <1>2, <1>4, <1>6, <1>7, <1>8, PlanIsOfficial, SelectedAreMedia DEF RunIsSound, RunType
<1> QED BY <1>1, <1>5, <1>9, <1>10, WorkReportsNothing

\* Steps that leave the files alone and go on with, or end, the command.
LEMMA ReadersAreSound ==
  ASSUME PrepInv, StartExtraction \/ CheckArchive \/ ReuseMedium \/ DiePreparing
  PROVE  PrepInv'
<1> USE DEF PrepInv
<1>1. UNCHANGED <<rank, mediaVars, planned, report>> /\ run.pc # "idle"
  BY DEF StartExtraction, CheckArchive, ReuseMedium, DiePreparing, Working, Extracting, RunType
<1>2. Plan' = Plan /\ Selected' = Selected
  BY <1>1, PlanStays
<1>3. PreparedIsOfficial'
  BY <1>1, WorkReportsNothing
<1>4. CASE run' = Idle
  BY <1>1, <1>3, <1>4, EndIsSound DEF PrepTypeOK, Idle, mediaVars
<1>5. CASE StartExtraction
  BY <1>1, <1>2, <1>3, <1>5 DEF StartExtraction, Working, RunType, RunIsSound, Phases, mediaVars,
                                ArchiveSettled, MediumSettled, PrepTypeOK
<1>6. CASE CheckArchive /\ run' # Idle
  <2>1. PICK c : run' = [run EXCEPT !.checked = c]
    BY <1>6 DEF CheckArchive, Raise
  <2>2. /\ run.pc = "extract" /\ run'.pc = "extract" /\ DOMAIN run' = DOMAIN run
        /\ run'.todo = run.todo /\ run'.media = run.media
    BY <1>6, <2>1 DEF CheckArchive, Extracting, Working, RunType
  <2> QED BY <1>1, <1>2, <1>3, <2>2 DEF RunType, RunIsSound, Phases, mediaVars,
                                        ArchiveSettled, MediumSettled, PrepTypeOK
<1>7. CASE ReuseMedium
  <2>1. MediumSettled(NextMedium) /\ run.pc = "extract"
    BY <1>7 DEF ReuseMedium, RecordMatches, MediumSettled, Extracting, Working
  <2>2. run' = [run EXCEPT !.media = run.media \ {NextMedium}]
    BY <1>7 DEF ReuseMedium
  <2> QED BY <1>1, <1>2, <1>3, <2>1, <2>2 DEF RunType, RunIsSound, Phases, mediaVars,
                                              ArchiveSettled, MediumSettled, PrepTypeOK
<1> QED BY <1>4, <1>5, <1>6, <1>7 DEF DiePreparing

LEMMA ExtractIsSound ==
  ASSUME PrepInv, Extract
  PROVE  PrepInv'
<1> USE DEF PrepInv
<1>0. PICK m : m = NextMedium
  OBVIOUS
<1>1. /\ UNCHANGED <<rank, metadata, archive, partial, record, planned, report>>
      /\ run.pc = "extract" /\ run.media # {}
  BY DEF Extract, Working, Extracting
<1>2. Plan' = Plan /\ Selected' = Selected
  BY <1>1, PlanStays
<1>3. m \in run.media /\ m \in Selected /\ m \in Media
  BY <1>0, <1>1, NextMediumIsSelected
<1>4. CASE run' = Idle /\ UNCHANGED <<file, decayed>>
  BY <1>1, <1>4, EndIsSound, WorkReportsNothing DEF PrepTypeOK, Idle
<1>5. CASE /\ decayed' = decayed \ {m}
           /\ file' = [file EXCEPT ![m] = IF m[1] = "video" \/ metadata = "pinned"
                                          THEN "official" ELSE "damaged"]
           /\ run' = [run EXCEPT !.pc = "record"]
  <2>1. NextMedium' = m
    BY <1>0, <1>5, NextMediumStays DEF RunType
  <2>2. Metadata \in decayed => Metadata \in decayed'
    BY <1>3, <1>5, NamesDiffer
  <2>3. MediumSettled(m)'
    <3>1. m[1] \in {"video", "subtitle"}
      BY <1>3 DEF Media
    <3>2. metadata \in {"pinned", "edited"}
      BY DEF PrepTypeOK
    <3>3. metadata = "edited" => Metadata \in decayed
      BY <1>1 DEF RunIsSound
    <3>4. CASE m[1] = "video" \/ metadata = "pinned"
      BY <1>3, <1>5, <3>4 DEF MediumSettled, PrepTypeOK
    <3>5. CASE m[1] = "subtitle" /\ metadata = "edited"
      BY <2>2, <3>3, <3>5 DEF MediumSettled
    <3> QED BY <3>1, <3>2, <3>4, <3>5
  <2>4. \A n \in Media : MediumSettled(n) => MediumSettled(n)'
    BY <1>5, <2>2, <2>3 DEF MediumSettled, PrepTypeOK
  <2>5. \A a : ArchiveSettled(a) => ArchiveSettled(a)'
    BY <1>1, <1>3, <1>5, NamesDiffer DEF ArchiveSettled
  <2>6. PrepTypeOK'
    BY <1>1, <1>5 DEF PrepTypeOK, RunType
  <2>7. RunType'
    BY <1>1, <1>2, <1>5 DEF RunType, Phases
  <2>8. /\ run.todo = {} /\ \A a \in Plan.archives : ArchiveSettled(a)
        /\ \A n \in Selected \ run.media : MediumSettled(n)
    BY <1>1 DEF RunIsSound
  <2>9. run'.pc = "record" /\ run'.todo = {} /\ run'.media = run.media
    BY <1>5, <2>8 DEF RunType
  <2>10. RunIsSound'
    <3>1. \A a \in Plan'.archives : ArchiveSettled(a)'
      BY <1>2, <2>5, <2>8
    <3>2. \A n \in Selected' \ run'.media : MediumSettled(n)'
      BY <1>2, <2>4, <2>8, <2>9, SelectedAreMedia DEF RunType
    <3>3. report' = "none" /\ (metadata' = "edited" => Metadata \in decayed')
      BY <1>1, <2>2 DEF RunIsSound
    <3>4. run'.media # {} /\ MediumSettled(NextMedium)'
      BY <1>1, <2>1, <2>3, <2>9 DEF MediumSettled
    <3> QED BY <2>9, <3>1, <3>2, <3>3, <3>4 DEF RunIsSound
  <2> QED BY <1>1, <2>6, <2>7, <2>10, WorkReportsNothing
<1> QED BY <1>0, <1>4, <1>5 DEF Extract, Raise

LEMMA WriteRecordIsSound ==
  ASSUME PrepInv, WriteRecord
  PROVE  PrepInv'
<1> USE DEF PrepInv
<1>1. /\ UNCHANGED <<rank, metadata, archive, partial, file, decayed, planned, report>>
      /\ run.pc = "record"
  BY DEF WriteRecord, Working
<1>2. Plan' = Plan /\ Selected' = Selected
  BY <1>1, PlanStays
<1>3. /\ MediumSettled(NextMedium)
      /\ run' = [run EXCEPT !.pc = "extract", !.media = run.media \ {NextMedium}]
  BY <1>1 DEF WriteRecord, RunIsSound
<1>4. record' \in [Media -> {"none", "official", "other"}]
  <2> DEFINE what == IF file[NextMedium] = "official" \/ NextMedium \in decayed
                     THEN "official" ELSE "other"
  <2>1. record' = [record EXCEPT ![NextMedium] = what] /\ what \in {"official", "other"}
    BY DEF WriteRecord
  <2> HIDE DEF what
  <2> QED BY <2>1 DEF PrepTypeOK
<1>5. RunType' /\ RunIsSound'
  BY <1>1, <1>2, <1>3 DEF RunType, RunIsSound, Phases, ArchiveSettled, MediumSettled
<1> QED BY <1>1, <1>3, <1>4, <1>5, WorkReportsNothing DEF PrepTypeOK, RunType

\* All that was selected is behind the command when it reports.
LEMMA FinishIsSound ==
  ASSUME PrepInv, FinishPrepare
  PROVE  PrepInv'
<1> USE DEF PrepInv
<1>1. /\ UNCHANGED <<rank, mediaVars>> /\ run' = Idle
      /\ run.pc = "extract" /\ run.media = {}
  BY DEF FinishPrepare, Working
<1>2. Plan' = Plan /\ Selected' = Selected
  BY <1>1, PlanStays
<1>3. PreparedIsOfficial'
  BY <1>1, <1>2 DEF RunIsSound, PreparedIsOfficial, ArchiveSettled, MediumSettled, mediaVars
<1> QED BY <1>1, <1>3, EndIsSound DEF FinishPrepare, PrepTypeOK, Idle, mediaVars

\* What decays is no longer vouched for, and what is fetched again is the pinned one.
LEMMA WorldIsSound ==
  ASSUME PrepInv, Decay \/ RestoreMetadata
  PROVE  PrepInv'
<1> USE DEF PrepInv
<1>1. UNCHANGED <<rank, partial, record, planned, run, report>> /\ decayed \subseteq decayed'
  BY DEF Decay, RestoreMetadata
<1>2. Plan' = Plan /\ Selected' = Selected
  BY <1>1, PlanStays
<1>3. PrepTypeOK'
  BY <1>1 DEF Decay, RestoreMetadata, PrepTypeOK
<1>4. \A a \in Archives : ArchiveSettled(a) => ArchiveSettled(a)'
  BY <1>1 DEF Decay, RestoreMetadata, ArchiveSettled, PrepTypeOK
<1>5. \A m \in Media : MediumSettled(m) => MediumSettled(m)'
  BY <1>1 DEF Decay, RestoreMetadata, MediumSettled, PrepTypeOK
<1>6. (metadata = "edited" => Metadata \in decayed) => (metadata' = "edited" => Metadata \in decayed')
  BY <1>1 DEF Decay, RestoreMetadata
<1>7. NextMedium' = NextMedium
  BY <1>1, NextMediumStays
<1>8. RunType'
  BY <1>1, <1>2 DEF RunType
<1>9. RunIsSound'
  <2>1. run.pc = "record" => NextMedium \in Media
    BY NextMediumIsSelected DEF RunIsSound
  <2> QED BY <1>1, <1>2, <1>4, <1>5, <1>6, <1>7, <2>1, PlanIsOfficial, SelectedAreMedia
          DEF RunIsSound, RunType
<1>10. PreparedIsOfficial'
  BY <1>1, <1>2, <1>4, <1>5, PlanIsOfficial, SelectedAreMedia
     DEF PreparedIsOfficial, ArchiveSettled, MediumSettled, RunType
<1> QED BY <1>3, <1>8, <1>9, <1>10

LEMMA StaysSound ==
  ASSUME PrepInv, UNCHANGED <<rank, mediaVars, planned, run, report>>
  PROVE  PrepInv'
<1>1. Plan' = Plan /\ Selected' = Selected
  BY PlanStays
<1>2. NextMedium' = NextMedium
  BY NextMediumStays
<1> QED BY <1>1, <1>2 DEF PrepInv, PrepTypeOK, RunType, RunIsSound, PreparedIsOfficial, mediaVars,
                          ArchiveSettled, MediumSettled

LEMMA PreparationIsKept ==
  ASSUME PrepInv, Prepare
  PROVE  PrepInv' /\ UNCHANGED rank
<1>1. PrepInv'
  BY BeginIsSound, VerifyIsSound, ReuseArchiveIsSound, TransferIsSound, PublishArchiveIsSound,
     ReadersAreSound, ExtractIsSound, WriteRecordIsSound, FinishIsSound, WorldIsSound
     DEF Prepare, PrepareStep
<1>2. UNCHANGED rank
  BY DEF Prepare, PrepareStep, BeginPrepare, VerifyOnly, ReuseArchive, Transfer, PublishArchive,
         StartExtraction, CheckArchive, ReuseMedium, Extract, WriteRecord, FinishPrepare,
         DiePreparing, Decay, RestoreMetadata
<1> QED BY <1>1, <1>2

-----------------------------------------------------------------------------
\* From the media to the seal.

LEMMA FourKinds ==
  /\ Len(PrepFiles) = 4
  /\ Kinds = {"reports", "manifests", "dataset", "source_gate"}
  /\ PrepFiles[1] = "reports" /\ PrepFiles[2] = "manifests"
  /\ PrepFiles[3] = "dataset" /\ PrepFiles[4] = "source_gate"
  /\ \A i \in 1..4 : PrepFiles[i] \in Kinds
  BY DEF PrepFiles, Kinds

LEMMA NoJobIsAJob == NoJob \in Jobs /\ NoJob.pc = "idle"
  BY DEF NoJob, Jobs

\* While the order of the ranking stays, so does what a file vouches for.
LEMMA VouchingStays ==
  ASSUME UNCHANGED rank
  PROVE  /\ PilotVideos' = PilotVideos /\ Jobs' = Jobs /\ Hashes' = Hashes
         /\ \A c : Vouches(c) => Vouches(c)'
  BY PlanStays DEF Jobs, Hashes, Vouches

\* Who leaves the files, the gates and the seal alone disturbs nothing of them.
LEMMA SourceGateStays ==
  ASSUME SealInv, UNCHANGED <<rank, results, gate, checked>>,
         audit => audit', torn => torn',
         (job.pc = "e01" /\ job'.pc # "e01" /\ gate = "PASS") => torn'
  PROVE  SourceGateIsAudited'
  BY VouchingStays DEF SealInv, SourceGateIsAudited, Complete, Bound

LEMMA GatesStay ==
  ASSUME SealInv, UNCHANGED <<rank, results, gate, checked, sealed, draft>>,
         audit => audit', torn => torn',
         (job.pc = "e01" /\ job'.pc # "e01" /\ gate = "PASS") => torn'
  PROVE  SourceGateIsAudited' /\ SealedIsAudited'
  BY SourceGateStays, VouchingStays DEF SealInv, SealedIsAudited

LEMMA OthersAreSound ==
  ASSUME SealInv, PrepInv, UNCHANGED sealVars, Prepare \/ UNCHANGED prepVars, UNCHANGED rank
  PROVE  SealInv'
<1> USE DEF SealInv
<1>1. UNCHANGED <<job, prep, audit, results, gate, checked, torn, repo, draft, sealed, sealGate>>
  BY DEF sealVars
<1>2. SourceGateIsAudited' /\ SealedIsAudited'
  BY <1>1, GatesStay
<1>3. FilesAreSound' /\ E01IsOnRecord' /\ job' \in Jobs' /\ checked' \subseteq PilotVideos'
  BY <1>1, VouchingStays DEF FilesAreSound, JobIsSound, E01IsOnRecord, Complete, Bound
<1>4. CASE job = NoJob
  BY <1>1, <1>2, <1>3, <1>4, NoJobIsAJob DEF JobIsSound, RehashIsSound
<1>5. CASE job # NoJob
  <2>1. run = Idle /\ run.pc = "idle"
    BY <1>5 DEF JobIsSound, Idle
  <2>2. Decay \/ UNCHANGED prepVars
    BY <1>5, <2>1 DEF Prepare, PrepareStep, ReuseArchive, Transfer, PublishArchive,
       StartExtraction, CheckArchive, ReuseMedium, Extract, WriteRecord, FinishPrepare,
       DiePreparing, Working, Extracting
  <2>3. run' = run /\ \A v \in PilotVideos : VideoSettled(v) => VideoSettled(v)'
    <3>1. \A v \in PilotVideos : <<"video", v>> \in Media
      BY SelectedAreMedia DEF PilotVideos, Selected, PrepInv, RunType
    <3>2. CASE UNCHANGED prepVars
      BY <3>2 DEF prepVars, mediaVars, VideoSettled
    <3>3. CASE Decay
      BY <3>1, <3>3 DEF Decay, VideoSettled, PrepInv, PrepTypeOK
    <3> QED BY <2>2, <3>2, <3>3
  <2>4. job.todo \subseteq PilotVideos
    BY DEF JobIsSound, Jobs
  <2>5. RehashIsSound'
    BY <1>1, <2>3, <2>4, VouchingStays DEF RehashIsSound, JobIsSound
  <2> QED BY <1>1, <1>2, <1>3, <2>1, <2>3, <2>5 DEF JobIsSound
<1> QED BY <1>4, <1>5

\* What is read again has just been verified.
LEMMA BeginManifestsIsSound ==
  ASSUME SealInv, PrepInv, BeginManifests
  PROVE  SealInv'
<1> USE DEF SealInv
<1>1. /\ UNCHANGED <<rank, file, prep, audit, results, gate, checked, torn, draft, sealed>>
      /\ job = NoJob /\ run' = Idle
  BY DEF BeginManifests, VerifyOnly, Quiet
<1>2. job' = [NoJob EXCEPT !.pc = "rehash", !.todo = PilotVideos]
  BY DEF BeginManifests
<1>3. \A v \in PilotVideos : file[<<"video", v>>] = "official"
  <2>1. PreparedFilesVerify
    BY DEF BeginManifests, VerifyOnly
  <2> QED BY <2>1 DEF PreparedFilesVerify, RecordMatches, PilotVideos, Selected
<1>4. /\ job'.pc = "rehash" /\ job'.todo = PilotVideos /\ job' \in Jobs /\ job'.next = 1
  <2> DEFINE P == PilotVideos
  <2>1. job' = [pc |-> "rehash", next |-> 1, todo |-> P, found |-> {}, slipped |-> {}]
    BY <1>2 DEF NoJob
  <2>2. {} \in SUBSET P /\ P \in SUBSET P /\ 1 \in 1..5
    OBVIOUS
  <2> HIDE DEF P
  <2>3. job' \in [pc : {"idle", "rehash", "manifests", "e01", "e02"}, next : 1..5,
                  todo : SUBSET P, found : SUBSET P, slipped : SUBSET P]
    BY <2>1, <2>2
  <2> QED BY <2>1, <2>3 DEF Jobs, P
<1>5. SourceGateIsAudited' /\ SealedIsAudited'
  BY <1>1, NoJobIsAJob, GatesStay
<1>6. FilesAreSound' /\ checked' \subseteq PilotVideos'
  BY <1>1, VouchingStays DEF FilesAreSound
<1>7. RehashIsSound' /\ E01IsOnRecord'
  BY <1>1, <1>3, <1>4, VouchingStays DEF RehashIsSound, E01IsOnRecord, VideoSettled
<1> QED BY <1>1, <1>4, <1>5, <1>6, <1>7, VouchingStays DEF JobIsSound

\* A video that is read again is found official, or is among those that slipped.
LEMMA RehashStaysSound ==
  ASSUME SealInv, PrepInv, Rehash
  PROVE  SealInv'
<1> USE DEF SealInv
<1>1. /\ UNCHANGED <<rank, file, decayed, run, prep, audit, results, gate, checked, torn, draft,
                     sealed>>
      /\ job.pc = "rehash" /\ job.todo # {}
  BY DEF Rehash, prepVars, mediaVars
<1>2. PICK v : v = NextVideo
  OBVIOUS
<1>3. v \in job.todo /\ v \in PilotVideos /\ job \in Jobs
  BY <1>1, <1>2 DEF NextVideo, JobIsSound, Jobs
<1>4. FilesAreSound' /\ checked' \subseteq PilotVideos'
  BY <1>1, VouchingStays DEF FilesAreSound
<1>5. CASE job' = NoJob
  <2>1. SourceGateIsAudited' /\ SealedIsAudited'
    BY <1>1, NoJobIsAJob, GatesStay
  <2> QED BY <1>4, <1>5, <2>1, NoJobIsAJob, VouchingStays, <1>1
          DEF JobIsSound, RehashIsSound, E01IsOnRecord
<1>6. CASE job' # NoJob
  <2> DEFINE pc == IF job.todo = {v} THEN "manifests" ELSE "rehash"
             todo == job.todo \ {v}
             found == job.found \cup {w \in {v} : file[<<"video", v>>] = "official"}
             slipped == job.slipped \cup {w \in {v} : <<"video", w>> \in decayed}
  <2>1. job' = [job EXCEPT !.pc = pc, !.todo = todo, !.found = found, !.slipped = slipped]
    BY <1>1, <1>2, <1>6 DEF Rehash
  <2>2. pc \in {"manifests", "rehash"} /\ {todo, found, slipped} \subseteq SUBSET PilotVideos
    BY <1>3 DEF Jobs
  <2>3. todo \subseteq job.todo /\ (pc = "manifests" => todo = {})
    OBVIOUS
  <2>4. PilotVideos \ (todo \cup slipped) \subseteq found
    <3>1. VideoSettled(v) /\ PilotVideos \ (job.todo \cup job.slipped) \subseteq job.found
      BY <1>1, <1>3 DEF JobIsSound, RehashIsSound
    <3> QED BY <3>1 DEF VideoSettled
  <2> HIDE DEF pc, todo, found, slipped
  <2>5. /\ job' \in Jobs /\ job'.pc = pc /\ job'.todo = todo /\ job'.found = found
        /\ job'.slipped = slipped /\ job'.next = job.next
    BY <1>3, <2>1, <2>2 DEF Jobs
  <2>6. job.next = 1
    BY <1>1 DEF JobIsSound, RehashIsSound
  <2>7. RehashIsSound' /\ E01IsOnRecord'
    <3>1. \A w \in todo : VideoSettled(w)'
      BY <1>1, <2>3 DEF VideoSettled, JobIsSound, RehashIsSound
    <3> QED BY <1>1, <2>2, <2>3, <2>4, <2>5, <2>6, <3>1, VouchingStays DEF RehashIsSound, E01IsOnRecord
  <2>8. SourceGateIsAudited' /\ SealedIsAudited'
    BY <1>1, GatesStay
  <2>9. run' = Idle
    BY <1>1, NoJobIsAJob DEF JobIsSound
  <2> QED BY <1>1, <1>4, <2>5, <2>7, <2>8, <2>9, VouchingStays DEF JobIsSound
<1> QED BY <1>5, <1>6

\* A file of hashes that is written vouches for what the command has read.
LEMMA WriteArtifactIsSound ==
  ASSUME SealInv, PrepInv, WriteArtifact
  PROVE  SealInv'
<1> USE FourKinds DEF SealInv
<1>1. /\ UNCHANGED <<rank, file, decayed, run, audit, results, gate, checked, torn, draft, sealed>>
      /\ job.pc = "manifests" /\ job \in Jobs /\ job.next \in 1..4
      /\ PilotVideos \ job.slipped \subseteq job.found
  BY DEF WriteArtifact, prepVars, mediaVars, JobIsSound, RehashIsSound, Jobs
<1>2. PICK k \in Kinds : k = PrepFiles[job.next]
  BY <1>1
<1>3. prep' = [prep EXCEPT ![k] = Content(k)]
  BY <1>2 DEF WriteArtifact
<1>4. Content(k) \in Hashes /\ (k \in {"reports", "manifests"} => Vouches(Content(k)))
  BY <1>1 DEF Content, Hashes, NoFile, Vouches, Jobs
<1>5. FilesAreSound'
  <2> DEFINE c == Content(k)
  <2> HIDE DEF c
  <2>1. prep' = [prep EXCEPT ![k] = c] /\ prep \in [Kinds -> Hashes] /\ c \in Hashes
    BY <1>3, <1>4 DEF FilesAreSound, c
  <2>2. prep' \in [Kinds -> Hashes]
    BY <2>1
  <2>3. \A n \in {"reports", "manifests"} : prep'[n].there => Vouches(prep'[n])
    BY <1>4, <2>1 DEF FilesAreSound, c
  <2> QED BY <1>1, <2>2, <2>3, VouchingStays DEF FilesAreSound
<1>6. SourceGateIsAudited' /\ SealedIsAudited'
  BY <1>1, GatesStay
<1>7. /\ job' \in Jobs /\ job'.pc \in {"idle", "manifests"} /\ (job' # NoJob => run = Idle)
      /\ job'.pc = "manifests" => /\ PilotVideos \ job'.slipped \subseteq job'.found
                                  /\ job'.next <= 4
  <2>1. CASE job' = NoJob
    BY <2>1, NoJobIsAJob
  <2>2. CASE job' = [job EXCEPT !.next = job.next + 1] /\ job.next # 4
    BY <1>1, <2>2, NoJobIsAJob DEF Jobs, JobIsSound
  <2> QED BY <2>1, <2>2 DEF WriteArtifact
<1> QED BY <1>1, <1>5, <1>6, <1>7, VouchingStays DEF JobIsSound, RehashIsSound, E01IsOnRecord

LEMMA AuditIsSound ==
  ASSUME SealInv, PrepInv, CompleteAudit
  PROVE  SealInv'
<1> USE DEF SealInv
<1>1. /\ UNCHANGED <<rank, file, decayed, run, job, prep, results, gate, checked, torn, draft, sealed>>
      /\ audit' = TRUE
  BY DEF CompleteAudit, prepVars, mediaVars
<1>2. SourceGateIsAudited' /\ SealedIsAudited'
  BY <1>1, GatesStay
<1>3. JobIsSound'
  BY <1>1, VouchingStays DEF JobIsSound, RehashIsSound, E01IsOnRecord, VideoSettled, Complete, Bound
<1> QED BY <1>1, <1>2, <1>3, VouchingStays DEF FilesAreSound

\* E01 begins with a completed audit, with manifests that bind one another and with a report
\* of the videos as they are.
LEMMA BeginE01IsSound ==
  ASSUME SealInv, PrepInv, BeginE01
  PROVE  SealInv'
<1> USE FourKinds DEF SealInv
<1>1. /\ UNCHANGED <<rank, run, prep, audit, results, gate, torn, draft, sealed>>
      /\ job = NoJob /\ run = Idle /\ audit /\ Complete(prep) /\ Bound(prep)
      /\ checked' = CurrentVideos /\ job' = [NoJob EXCEPT !.pc = "e01"]
  BY DEF BeginE01, E01Passes, AuditIsValid, Quiet, prepVars
<1>2. checked' = prep["reports"].videos
  <2>1. prep["reports"].videos \subseteq PilotVideos
    BY DEF FilesAreSound, Hashes
  <2>2. \A v \in PilotVideos : v \in prep["reports"].videos <=> v \in CurrentVideos
    BY DEF BeginE01, E01Passes, HashAsRecorded
  <2> QED BY <1>1, <2>1, <2>2 DEF CurrentVideos
<1>3. job'.pc = "e01" /\ job'.next = 1 /\ job' \in Jobs
  BY <1>1 DEF NoJob, Jobs
<1>4. E01IsOnRecord' /\ RehashIsSound'
  BY <1>1, <1>2, <1>3 DEF E01IsOnRecord, RehashIsSound, Complete, Bound
<1>5. SourceGateIsAudited' /\ SealedIsAudited'
  BY <1>1, <1>3, VouchingStays DEF SourceGateIsAudited, SealedIsAudited, Complete
<1>6. checked' \subseteq PilotVideos'
  BY <1>1, VouchingStays DEF CurrentVideos
<1> QED BY <1>1, <1>3, <1>4, <1>5, <1>6, VouchingStays DEF JobIsSound, FilesAreSound

\* It copies file after file.
LEMMA CopyIsSound ==
  ASSUME SealInv, PrepInv, CopyArtifact
  PROVE  SealInv'
<1> USE FourKinds DEF SealInv
<1>1. /\ UNCHANGED <<rank, run, prep, audit, checked, torn, draft, sealed>>
      /\ job.pc = "e01" /\ job \in Jobs /\ job.next \in 1..4
      /\ job' = [job EXCEPT !.next = job.next + 1]
      /\ gate' \in {gate, "PENDING"}
  BY DEF CopyArtifact, prepVars, JobIsSound, Jobs
<1>2. PICK k \in Kinds : k = PrepFiles[job.next]
  BY <1>1
<1>3. results' = [results EXCEPT ![k] = prep[k]]
  BY <1>2 DEF CopyArtifact
<1>4. Complete(prep) /\ prep \in [Kinds -> Hashes] /\ results \in [Kinds -> Hashes]
  BY <1>1 DEF JobIsSound, E01IsOnRecord, FilesAreSound
<1>5. FilesAreSound'
  BY <1>1, <1>3, <1>4, VouchingStays DEF FilesAreSound
<1>6. Complete(results) => Complete(results)'
  BY <1>3, <1>4 DEF Complete
<1>7. job' \in Jobs /\ job'.pc = "e01" /\ job'.next = job.next + 1 /\ job'.next - 1 = job.next
  BY <1>1 DEF Jobs
<1>8. E01IsOnRecord'
  <2>1. \A i \in 1..job.next : results'[PrepFiles[i]] = prep[PrepFiles[i]]
    <3> SUFFICES ASSUME NEW i \in 1..job.next PROVE results'[PrepFiles[i]] = prep[PrepFiles[i]]
      OBVIOUS
    <3>1. PrepFiles[i] \in Kinds
      BY <1>1
    <3>2. CASE i = job.next
      BY <1>2, <1>3, <1>4, <3>2
    <3>3. CASE i # job.next
      <4>1. i \in 1..(job.next - 1)
        BY <1>1, <3>3
      <4> QED BY <1>1, <1>3, <1>4, <3>1, <4>1 DEF JobIsSound, E01IsOnRecord
    <3> QED BY <3>2, <3>3
  <2> QED BY <1>1, <1>7, <2>1 DEF JobIsSound, E01IsOnRecord, Complete, Bound
<1>9. SourceGateIsAudited' /\ SealedIsAudited'
  <2>1. \A n \in {"reports", "manifests"} : (results[n].there => Vouches(results[n]))'
    BY <1>5 DEF FilesAreSound
  <2>2. gate' = "PASS" => gate = "PASS"
    BY <1>1
  <2>3. SourceGateIsAudited'
    BY <1>1, <1>6, <1>7, <2>1, <2>2 DEF SourceGateIsAudited, Complete
  <2> QED BY <1>1, <2>3, VouchingStays DEF SealedIsAudited
<1>10. RehashIsSound' /\ (job' # NoJob => run' = Idle)
  BY <1>1, <1>7, NoJobIsAJob DEF RehashIsSound, JobIsSound
<1> QED BY <1>1, <1>5, <1>7, <1>8, <1>9, <1>10, VouchingStays DEF JobIsSound

\* What it copied is all there is to the gate.
LEMMA PassIsSound ==
  ASSUME SealInv, PrepInv, PassSourceGate
  PROVE  SealInv'
<1> USE FourKinds DEF SealInv
<1>1. /\ UNCHANGED <<rank, run, prep, audit, results, checked, draft, sealed>>
      /\ job.pc = "e01" /\ job.next = 5 /\ job' = NoJob
  BY DEF PassSourceGate, prepVars, JobIsSound, Jobs
<1>2. /\ audit /\ Complete(prep) /\ Bound(prep) /\ checked = prep["reports"].videos
      /\ \A i \in 1..4 : results[PrepFiles[i]] = prep[PrepFiles[i]]
  BY <1>1 DEF JobIsSound, E01IsOnRecord
<1>3. \A k \in Kinds : results[k] = prep[k]
  <2>1. /\ results[PrepFiles[1]] = prep[PrepFiles[1]] /\ results[PrepFiles[2]] = prep[PrepFiles[2]]
        /\ results[PrepFiles[3]] = prep[PrepFiles[3]] /\ results[PrepFiles[4]] = prep[PrepFiles[4]]
    BY <1>2
  <2> QED BY <2>1
<1>4. /\ Complete(results) /\ Bound(results) /\ checked = results["reports"].videos
      /\ Vouches(results["reports"]) /\ Vouches(results["manifests"])
  BY <1>2, <1>3 DEF Complete, Bound, FilesAreSound
<1>5. SourceGateIsAudited' /\ SealedIsAudited'
  BY <1>1, <1>2, <1>4, VouchingStays DEF SourceGateIsAudited, SealedIsAudited, Complete, Bound
<1> QED BY <1>1, <1>5, NoJobIsAJob, VouchingStays
        DEF PassSourceGate, JobIsSound, RehashIsSound, E01IsOnRecord, FilesAreSound

\* The draft takes a manifest that vouches for the pilot, and the seal takes the draft, which
\* is compared with the results and the tree once more.
LEMMA SealingIsSound ==
  ASSUME SealInv, PrepInv, WriteDraft \/ Seal \/ WriteSealGate \/ Edit \/ DieAtJob
  PROVE  SealInv'
<1> USE FourKinds DEF SealInv
<1>1. UNCHANGED <<rank, run, prep, audit, results, gate, checked>>
  BY DEF WriteDraft, Seal, WriteSealGate, Edit, DieAtJob, prepVars
<1>0. (torn => torn') /\ ((job.pc = "e01" /\ job'.pc # "e01" /\ gate = "PASS") => torn')
  <2>1. CASE DieAtJob
    BY <2>1 DEF DieAtJob
  <2>2. CASE WriteDraft \/ Seal \/ Edit
    BY <2>2, NoJobIsAJob DEF WriteDraft, Seal, Edit, Quiet
  <2>3. CASE WriteSealGate
    BY <2>3 DEF WriteSealGate
  <2> QED BY <2>1, <2>2, <2>3
<1>2. job' \in {job, NoJob} \/ (job' = [NoJob EXCEPT !.pc = "e02"] /\ run = Idle)
  BY DEF WriteDraft, Seal, WriteSealGate, Edit, DieAtJob, Quiet
<1>3. UNCHANGED <<file, decayed>>
  BY DEF WriteDraft, Seal, WriteSealGate, Edit, DieAtJob, prepVars, mediaVars
<1>4. JobIsSound'
  <2>1. CASE job' = job
    BY <1>1, <1>3, <2>1, VouchingStays
       DEF JobIsSound, RehashIsSound, E01IsOnRecord, VideoSettled, Complete, Bound
  <2>2. CASE job' # job
    <3>1. job'.pc \in {"idle", "e02"} /\ job' \in Jobs /\ (job' # NoJob => run = Idle)
      BY <1>2, <2>2, NoJobIsAJob DEF NoJob, Jobs
    <3> QED BY <1>1, <3>1, VouchingStays DEF JobIsSound, RehashIsSound, E01IsOnRecord
  <2> QED BY <2>1, <2>2
<1>5. SourceGateIsAudited'
  BY <1>0, <1>1, SourceGateStays
<1>6. draft'.written => Vouches(draft'.manifests)
  <2>1. CASE WriteDraft
    BY <2>1 DEF WriteDraft, FilesAreSound
  <2>2. CASE UNCHANGED draft
    BY <2>2 DEF FilesAreSound
  <2> QED BY <2>1, <2>2 DEF Seal, WriteSealGate, Edit, DieAtJob
<1>7. SealedIsAudited'
  <2>1. CASE Seal
    <3>1. /\ gate = "PASS" /\ draft.resolved /\ draft.repo = repo /\ draft.written
          /\ draft.dataset.videos = draft.manifests.videos
      BY <2>1 DEF Seal, DraftIsValid, SameTree, ManifestsBind, Bound
    <3>2. sealed' = [repo |-> repo, draft |-> draft, written |-> TRUE]
      BY <2>1 DEF Seal
    <3>3. audit /\ Vouches(draft.manifests)
      BY <3>1 DEF SourceGateIsAudited, FilesAreSound
    <3> QED BY <1>1, <3>1, <3>2, <3>3, VouchingStays DEF SealedIsAudited
  <2>2. CASE UNCHANGED sealed
    BY <1>1, <2>2, VouchingStays DEF SealedIsAudited
  <2> QED BY <2>1, <2>2 DEF WriteDraft, WriteSealGate, Edit, DieAtJob
<1> QED BY <1>1, <1>4, <1>5, <1>6, <1>7, VouchingStays DEF FilesAreSound

-----------------------------------------------------------------------------
LEMMA InitIInv == Init => IInv
<1> SUFFICES ASSUME Init PROVE IInv
  OBVIOUS
<1> USE DEF Init, PrepInit, SealInit
<1>1. PrepTypeOK
  <2>1. NoPartial \in [size : 0..(Size + 1), good : BOOLEAN]
    BY DEF NoPartial
  <2>2. partial \in [Archives -> [size : 0..(Size + 1), good : BOOLEAN]]
    BY <2>1
  <2>3. run.pc = "idle"
    BY DEF Idle
  <2> QED BY <2>2, <2>3 DEF PrepTypeOK
<1>2. RunType /\ RunIsSound /\ PreparedIsOfficial
  BY DEF RunType, RunIsSound, PreparedIsOfficial, Idle, Phases
<1>3. SealInv
  <2>1. NoFiles \in [Kinds -> Hashes] /\ \A k \in Kinds : ~NoFiles[k].there
    BY DEF NoFiles, NoFile, Hashes
  <2>2. FilesAreSound
    BY <2>1, FourKinds DEF FilesAreSound, NoDraft
  <2>3. JobIsSound
    BY NoJobIsAJob DEF JobIsSound, RehashIsSound, E01IsOnRecord
  <2> QED BY <2>2, <2>3 DEF SealInv, SourceGateIsAudited, SealedIsAudited, NoSeal
<1> QED BY <1>1, <1>2, <1>3 DEF IInv, PrepInv

LEMMA NextIInv == IInv /\ [Next]_vars => IInv'
<1> SUFFICES ASSUME IInv, [Next]_vars PROVE IInv'
  OBVIOUS
<1> USE DEF IInv
<1>1. CASE Prepare /\ UNCHANGED sealVars
  BY <1>1, PreparationIsKept, OthersAreSound
<1>2. CASE BeginManifests
  <2>1. VerifyOnly
    BY <1>2 DEF BeginManifests
  <2> QED BY <1>2, <2>1, VerifyIsSound, BeginManifestsIsSound
<1>3. CASE JobStep \/ DieAtJob \/ CompleteAudit \/ BeginE01 \/ WriteDraft \/ Seal \/ Edit
  <2>1. UNCHANGED <<rank, mediaVars, planned, run, report>>
    BY <1>3 DEF JobStep, Rehash, WriteArtifact, CopyArtifact, PassSourceGate, WriteSealGate,
                DieAtJob, CompleteAudit, BeginE01, WriteDraft, Seal, Edit, prepVars
  <2>2. PrepInv'
    BY <2>1, StaysSound
  <2>3. SealInv'
    BY <1>3, RehashStaysSound, WriteArtifactIsSound, AuditIsSound, BeginE01IsSound, CopyIsSound,
       PassIsSound, SealingIsSound DEF JobStep
  <2> QED BY <2>2, <2>3
<1>4. CASE UNCHANGED vars
  <2>1. UNCHANGED prepVars /\ UNCHANGED sealVars /\ UNCHANGED rank
    BY <1>4 DEF vars, prepVars
  <2> QED BY <2>1, StaysSound, OthersAreSound DEF prepVars
<1> QED BY <1>1, <1>2, <1>3, <1>4 DEF Next

LEMMA IInvHolds == Spec => []IInv
  BY InitIInv, NextIInv, PTL DEF Spec

\* What a command reports as prepared or verified is official, every archive of the plan and
\* every medium selected, but for what decayed since the command began (prepare_videos).
THEOREM PreparedStaysOfficial == Spec => []PreparedIsOfficial
<1>1. IInv => PreparedIsOfficial
  BY DEF IInv, PrepInv
<1> QED BY <1>1, IInvHolds, PTL

\* The Source Gate stands on an audit and on official videos, the sealed Authority on that
\* gate and on a draft of the tree it is sealed with, whatever dies or is edited in between
\* (prepare_e01, seal_authority).
THEOREM SealStaysSound == Spec => []SealIsSound
<1>1. IInv => SealIsSound
  <2> SUFFICES ASSUME IInv PROVE SealIsSound
    OBVIOUS
  <2>1. PilotVideos \subseteq Videos
    BY PlanIsOfficial DEF IInv, PrepInv, RunType, PilotVideos
  <2>2. job.pc \in {"idle", "rehash", "manifests", "e01", "e02"}
    BY DEF IInv, SealInv, JobIsSound, Jobs
  <2>3. {prep, results} \subseteq [Kinds -> [there : BOOLEAN, videos : SUBSET Videos,
                                            slipped : SUBSET Videos]]
    <3>1. Hashes \subseteq [there : BOOLEAN, videos : SUBSET Videos, slipped : SUBSET Videos]
      BY <2>1 DEF Hashes
    <3> QED BY <3>1 DEF IInv, SealInv, FilesAreSound
  <2> QED BY <2>1, <2>2, <2>3 DEF IInv, PrepInv, SealInv, SealIsSound, TypeOK
<1> QED BY <1>1, IInvHolds, PTL

-----------------------------------------------------------------------------
\* What is reported is official, and of the videos that were asked for: as many as the pilot
\* has, with no archive fetched in vain, which is what E01 recomputes and compares
\* (select_pilot, prepare_videos).
THEOREM PreparationStaysSound == Spec => []PreparationIsSound
<1>1. IInv => PreparationIsSound
  <2> SUFFICES ASSUME IInv PROVE SelectionNeedsItsArchives
    BY DEF IInv, PrepInv, PreparationIsSound
  <2> DEFINE V == CoveredBy(rank)
             P == First(Count, V, rank)
  <2>1. rank \in Rankings
    BY DEF IInv, PrepInv, RunType
  <2>2. PilotOf[rank].archives = {ArchiveOf[v] : v \in V} /\ PilotOf[rank].videos = P
    BY <2>1 DEF PilotOf, SelectPilot
  <2>3. /\ V \in SUBSET Videos /\ Count \in 1..Cardinality(V)
        /\ \A v \in V : \E w \in P : ArchiveOf[w] = ArchiveOf[v]
    <3>1. Count \in Nat /\ Count >= 1
      BY FS_CardinalityType
    <3> QED BY <2>1, <3>1, ArchivesCoverThePilot
  <2>4. Cardinality(P) = Count
    BY <2>1, <2>3, FirstAreSoMany
  <2>5. P \subseteq V
    BY DEF First
  <2> HIDE DEF V, P
  <2>6. {ArchiveOf[v] : v \in V} = {ArchiveOf[v] : v \in P}
    BY <2>3, <2>5
  <2> QED BY <2>2, <2>4, <2>6 DEF SelectionNeedsItsArchives
<1> QED BY <1>1, IInvHolds, PTL
=============================================================================
