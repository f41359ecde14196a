-------------------------- MODULE ProductionProofs --------------------------
(***************************************************************************)
(* Theorems about production generations.  First the store of generations, *)
(* for any publishers, readers and contents: its types, that a reader always *)
(* finds what the pointer named, and that publish is a write of an atomic  *)
(* register.  Then the commands that publish them, for any number of      *)
(* commands at once, and any runs, records, keys, sources and faults.      *)
(***************************************************************************)
EXTENDS GenerationStore, ProductionImport, TLAPS

\* The store starts in the inductive invariant.
LEMMA StoreStarts == PubInit => PubIInv
<1> SUFFICES ASSUME PubInit PROVE PubIInv
  OBVIOUS
<1>1. \A p \in Publishers : call[p].at = "not called" /\ call[p].artifacts = NoContents
  BY DEF PubInit, PubCall
<1>2. PubTypeOK
  BY DEF PubInit, PubTypeOK, PubCalls, PubCall, Outside
<1>3. PointingIsInstalled /\ AtWorkOnArtifacts
  BY <1>1 DEF PointingIsInstalled, AtWorkOnArtifacts, Inside
<1>4. ReadersFindTheGeneration
  BY DEF PubInit, ReadersFindTheGeneration
<1> QED
  BY <1>2, <1>3, <1>4 DEF PubIInv

\* The artifacts of a publisher at work are a generation.
LEMMA ArtifactsAtWork ==
  ASSUME PubIInv, NEW p \in Publishers, call[p].at \in Inside
  PROVE  call[p].artifacts \in Contents
BY DEF PubIInv, PubTypeOK, AtWorkOnArtifacts, PubCalls

\* Every step of a publisher keeps the inductive invariant.
LEMMA PublisherStep ==
  ASSUME PubIInv, NEW p \in Publishers,
         \/ \E g \in Contents : Begin(p, g)
         \/ Stage(p) \/ LookUp(p) \/ Reuse(p) \/ Install(p) \/ Point(p) \/ Return(p)
         \/ GiveUp(p) \/ Crash(p)
  PROVE  PubIInv'
<1> USE DEF PubCalls, PubCall, Inside, Outside
<1>1. CASE \E g \in Contents : Begin(p, g)
  <2>1. PICK g \in Contents : Begin(p, g)
    BY <1>1
  <2>2. g # NoContents
    BY GenerationAssumption
  <2> QED
    BY <2>1, <2>2 DEF Begin, PubIInv, PubTypeOK, PointingIsInstalled, AtWorkOnArtifacts,
                      ReadersFindTheGeneration
<1>2. CASE Stage(p)
  BY <1>2 DEF Stage, Goto, PubIInv, PubTypeOK, PointingIsInstalled, AtWorkOnArtifacts,
              ReadersFindTheGeneration
<1>3. CASE LookUp(p)
  BY <1>3 DEF LookUp, Goto, PubIInv, PubTypeOK, PointingIsInstalled, AtWorkOnArtifacts,
              ReadersFindTheGeneration
<1>4. CASE Reuse(p)
  BY <1>4 DEF Reuse, Goto, PubIInv, PubTypeOK, PointingIsInstalled, AtWorkOnArtifacts,
              ReadersFindTheGeneration
<1>5. CASE Install(p)
  <2>1. call[p].artifacts \in Contents
    BY <1>5, ArtifactsAtWork DEF Install
  <2> QED
    BY <1>5, <2>1 DEF Install, Goto, PubIInv, PubTypeOK, PointingIsInstalled,
                      AtWorkOnArtifacts, ReadersFindTheGeneration
<1>6. CASE Point(p)
  <2>1. call[p].artifacts \in Contents /\ call[p].artifacts \in directories
    BY <1>6, ArtifactsAtWork DEF Point, PubIInv, PointingIsInstalled
  <2> QED
    BY <1>6, <2>1 DEF Point, Goto, PubIInv, PubTypeOK, PointingIsInstalled,
                      AtWorkOnArtifacts, ReadersFindTheGeneration
<1>7. CASE Return(p)
  BY <1>7 DEF Return, Leave, PubIInv, PubTypeOK, PointingIsInstalled, AtWorkOnArtifacts,
              ReadersFindTheGeneration
<1>8. CASE GiveUp(p)
  BY <1>8 DEF GiveUp, Leave, PubIInv, PubTypeOK, PointingIsInstalled, AtWorkOnArtifacts,
              ReadersFindTheGeneration
<1>9. CASE Crash(p)
  BY <1>9 DEF Crash, Leave, PubIInv, PubTypeOK, PointingIsInstalled, AtWorkOnArtifacts,
              ReadersFindTheGeneration
<1> QED
  BY <1>1, <1>2, <1>3, <1>4, <1>5, <1>6, <1>7, <1>8, <1>9

\* Every step of a reader keeps it, too.
LEMMA ReaderStep ==
  ASSUME PubIInv, NEW r \in Readers, ReadPointer(r) \/ ReadGeneration(r)
  PROVE  PubIInv'
BY DEF ReadPointer, ReadGeneration, PubIInv, PubTypeOK, PointingIsInstalled,
       AtWorkOnArtifacts, ReadersFindTheGeneration

\* PubIInv is inductive.
LEMMA StoreGoesOn == PubIInv /\ [PubNext]_pubVars => PubIInv'
<1> SUFFICES ASSUME PubIInv, [PubNext]_pubVars PROVE PubIInv'
  OBVIOUS
<1>1. CASE \E p \in Publishers :
             \/ \E g \in Contents : Begin(p, g)
             \/ Stage(p) \/ LookUp(p) \/ Reuse(p) \/ Install(p) \/ Point(p) \/ Return(p)
             \/ GiveUp(p) \/ Crash(p)
  BY <1>1, PublisherStep
<1>2. CASE \E r \in Readers : ReadPointer(r) \/ ReadGeneration(r)
  BY <1>2, ReaderStep
<1>3. CASE UNCHANGED pubVars
  BY <1>3 DEF pubVars, PubIInv, PubTypeOK, PointingIsInstalled, AtWorkOnArtifacts,
              ReadersFindTheGeneration
<1> QED
  BY <1>1, <1>2, <1>3 DEF PubNext

\* Every reachable state satisfies PubIInv.
THEOREM StoreInvariance == PubSpec => []PubIInv
BY StoreStarts, StoreGoesOn, PTL DEF PubSpec

\* The types of the store (generation.py:24-30), for every instance.
THEOREM StoreTypeCorrect == PubSpec => []PubTypeOK
<1>1. PubIInv => PubTypeOK
  BY DEF PubIInv
<1> QED
  BY <1>1, StoreInvariance, PTL

\* Whoever follows CURRENT.json finds a complete generation, however many
\* publishers race, raise or die (generation.py:55-73, 115-140).
THEOREM ReadersAreServed == PubSpec => []ReadersFindTheGeneration
<1>1. PubIInv => ReadersFindTheGeneration
  BY DEF PubIInv
<1> QED
  BY <1>1, StoreInvariance, PTL

-----------------------------------------------------------------------------
\* The store starts as an empty register.
LEMMA RegisterInit == PubInit => Register!AInit
<1> SUFFICES ASSUME PubInit PROVE Register!AInit
  OBVIOUS
<1>1. \A p \in Publishers : AsWrite(call[p]) = Register!Ended("not called")
  BY DEF PubInit, PubCall, AsWrite, Register!Ended
<1> QED
  BY <1>1 DEF PubInit, Register!AInit, Writes

\* A step of a publisher is a step of the register, or invisible to it.
LEMMA PublisherWrites ==
  ASSUME PubIInv, NEW p \in Publishers,
         \/ \E g \in Contents : Begin(p, g)
         \/ Stage(p) \/ LookUp(p) \/ Reuse(p) \/ Install(p) \/ Point(p) \/ Return(p)
         \/ GiveUp(p) \/ Crash(p)
  PROVE  [Register!ANext]_<<pointer, Writes>>
<1> USE DEF PubCalls, PubCall, Inside, Outside, AsWrite, Writes
<1>0. /\ call \in [Publishers -> PubCalls]
      /\ call[p].at \in Inside <=> call[p].artifacts # NoContents
  BY DEF PubIInv, PubTypeOK, AtWorkOnArtifacts
<1>1. CASE \E g \in Contents : Begin(p, g)
  <2>1. PICK g \in Contents : Begin(p, g)
    BY <1>1
  <2>2. Register!ACall(p, g)
    BY <1>0, <2>1 DEF Begin, Register!ACall, Register!Ends, Register!Writing
  <2> QED
    BY <2>2 DEF Register!ANext
<1>2. CASE Stage(p) \/ LookUp(p) \/ Reuse(p) \/ Install(p)
  <2>1. /\ \A q \in Publishers \ {p} : call'[q] = call[q]
        /\ call'[p].artifacts = call[p].artifacts
        /\ call'[p].at \in {"staged", "found", "installing", "pointing"}
        /\ call[p].at \in {"staging", "staged", "found", "installing"}
    BY <1>0, <1>2 DEF Stage, LookUp, Reuse, Install, Goto
  <2>3. \A q \in Publishers : AsWrite(call'[q]) = AsWrite(call[q])
    BY <2>1
  <2>2. UNCHANGED pointer
    BY <1>2 DEF Stage, LookUp, Reuse, Install
  <2> QED
    BY <2>2, <2>3
<1>3. CASE Point(p)
  <2>1. Register!ATake(p)
    BY <1>0, <1>3 DEF Point, Goto, Register!ATake, Register!Taken
  <2> QED
    BY <2>1 DEF Register!ANext
<1>4. CASE Return(p)
  <2>1. Register!AReturn(p)
    BY <1>0, <1>4 DEF Return, Leave, Register!AReturn, Register!Ended
  <2> QED
    BY <2>1 DEF Register!ANext
<1>5. CASE GiveUp(p) \/ Crash(p)
  <2>1. Register!AGiveUp(p)
    <3>1. /\ \A q \in Publishers \ {p} : AsWrite(call'[q]) = AsWrite(call[q])
          /\ AsWrite(call'[p]) = Register!Ended("given up")
          /\ AsWrite(call[p]).at \in {"called", "taken"}
          /\ UNCHANGED pointer
      <4>0. PICK how \in {"raised", "died"} : Leave(p, how)
        BY <1>5 DEF GiveUp, Crash
      <4>1. /\ call' = [call EXCEPT ![p] = [at |-> how, artifacts |-> NoContents]]
            /\ call[p].at \in Inside
            /\ UNCHANGED pointer
        BY <1>5, <4>0 DEF GiveUp, Crash, Leave
      <4>2. AsWrite(call'[p]) = Register!Ended("given up")
        BY <1>0, <4>1 DEF Register!Ended
      <4>3. AsWrite(call[p]).at \in {"called", "taken"}
        BY <4>1
      <4> QED
        BY <1>0, <4>1, <4>2, <4>3
    <3> QED
      BY <3>1 DEF Register!AGiveUp, Register!Ends
  <2> QED
    BY <2>1 DEF Register!ANext
<1> QED
  BY <1>1, <1>2, <1>3, <1>4, <1>5

\* Every step of the store is a step of the register or leaves it alone.
LEMMA RegisterStep ==
  PubIInv /\ [PubNext]_pubVars => [Register!ANext]_<<pointer, Writes>>
<1> SUFFICES ASSUME PubIInv, [PubNext]_pubVars
             PROVE  [Register!ANext]_<<pointer, Writes>>
  OBVIOUS
<1>1. CASE \E p \in Publishers :
             \/ \E g \in Contents : Begin(p, g)
             \/ Stage(p) \/ LookUp(p) \/ Reuse(p) \/ Install(p) \/ Point(p) \/ Return(p)
             \/ GiveUp(p) \/ Crash(p)
  BY <1>1, PublisherWrites
<1>2. CASE \E r \in Readers : ReadPointer(r) \/ ReadGeneration(r)
  BY <1>2 DEF ReadPointer, ReadGeneration, Writes
<1>3. CASE UNCHANGED pubVars
  BY <1>3 DEF pubVars, Writes
<1> QED
  BY <1>1, <1>2, <1>3 DEF PubNext

\* publish is a write of an atomic register (generation.py:75-145), for any
\* publishers and generations.
THEOREM StoreRefinesRegister == PubSpec => Implements
<1>1. PubSpec => [][Register!ANext]_<<pointer, Writes>>
  BY StoreInvariance, RegisterStep, PTL DEF PubSpec
<1> QED
  BY <1>1, RegisterInit, PTL DEF PubSpec, Implements, Register!ASpec

-----------------------------------------------------------------------------
USE ImportAssumption

\* An entry that was put in the cache is there until another record replaces it.
Entered(R) == \A r \in R : cache[Key[r]] = r \/ r \in displaced

\* What a command holds: all that it is to publish, but what is still to be bound, was
\* put in the cache; and unless another command published, it is what is current.
JobIsSound(j) ==
    j # NoJob =>
      /\ j.at \in {"bind", "put"} =>
           /\ j.records # {} /\ Entered(j.records \ j.todo)
           /\ ~j.overtaken => /\ current[j.run].records \subseteq j.records
                              /\ j.entry # {} => j.entry = {current[j.run].records}
      /\ j.at = "put" => j.put \in Records
      /\ j.at \in {"load", "collect", "store"} /\ ~j.overtaken =>
           j.entry \subseteq {current[j.run].records}
      /\ j.at \in {"collect", "store", "validate", "gather", "submit"} /\ ~j.overtaken =>
           j.log = current[j.run].log
      /\ j.at \in {"store", "submit"} =>
           /\ j.base.there /\ Entered(j.base.records)
           /\ ~j.overtaken => j.base = current[j.run]
      /\ j.at \in {"gather", "submit"} =>
           /\ current[j.run].there
           /\ ~j.overtaken => j.records = current[j.run].records

IInv == GenerationsAreSound /\ \A p \in Processes : JobIsSound(job[p])

\* A step of RecordsAreKept.
Kept ==
  \A run \in Runs :
    \/ current[run].records \subseteq current'[run].records
    \/ \E p \in Processes :
         ~Idle(p) /\ RunOf(p) = run /\ job[p].overtaken /\ job'[p] # job[p]

-----------------------------------------------------------------------------
\* The commands at work.
Work == [at : Points, run : Runs, records : SUBSET Records, todo : SUBSET Records,
         put : Records \cup {NoRecord}, entry : Histories, log : Histories,
         base : Generations, overtaken : BOOLEAN]

LEMMA GenerationFields ==
  ASSUME NEW g \in Generations
  PROVE  /\ g.records \subseteq Records /\ g.log \in Histories /\ g.report \in Reports
         /\ g.there \in BOOLEAN
         /\ g.there => g \in [there : {TRUE}, records : (SUBSET Records) \ {{}},
                             log : Histories, report : Reports]
         /\ ~g.there => g = NoGeneration
<1>1. CASE g = NoGeneration
  BY <1>1 DEF NoGeneration, Histories, Reports
<1>2. CASE g \in [there : {TRUE}, records : (SUBSET Records) \ {{}},
                  log : Histories, report : Reports]
  BY <1>2
<1> QED BY <1>1, <1>2 DEF Generations

LEMMA JobsAreWork == Jobs = {NoJob} \cup Work
  BY DEF Jobs, Work

\* A command that is at work has the fields of one.
LEMMA WorkHasFields ==
  ASSUME IInv, NEW p \in Processes, ~Idle(p)
  PROVE  /\ job[p] \in Jobs /\ job[p] # NoJob /\ job[p].at \in Points
         /\ job[p] \in Work
         /\ RunOf(p) \in Runs /\ current[RunOf(p)] \in Generations
         /\ current[RunOf(p)].records \subseteq Records
         /\ JobIsSound(job[p])
<1>1. job[p] \in Jobs /\ job[p] # NoJob
  BY DEF IInv, GenerationsAreSound, TypeOK, Idle
<1>2. job[p] \in Work
  BY <1>1, JobsAreWork
<1>3. job[p].run \in Runs /\ job[p].at \in Points
  BY <1>2 DEF Work
<1>4. current[RunOf(p)] \in Generations
  BY <1>3 DEF IInv, GenerationsAreSound, TypeOK, RunOf
<1>5. current[RunOf(p)].records \subseteq Records
  BY <1>4, GenerationFields
<1>6. RunOf(p) \in Runs
  BY <1>3 DEF RunOf
<1>7. JobIsSound(job[p])
  BY DEF IInv
<1> QED BY <1>1, <1>2, <1>3, <1>4, <1>5, <1>6, <1>7

\* What stands in the cache, but for what was replaced.
LEMMA EnteredIsCached ==
  ASSUME NEW R PROVE IsCached(R \ displaced) <=> Entered(R)
  BY DEF IsCached, Entered

\* Commands that leave the generations and the cache alone.
LEMMA MoveIsSound ==
  ASSUME IInv, NEW p \in Processes, NEW j \in Jobs, JobIsSound(j),
         job' = [job EXCEPT ![p] = j], UNCHANGED <<current, cache, displaced, mixed>>,
         begun' \subseteq Runs, faults' \in 0..MaxFaults
  PROVE  IInv' /\ Kept
<1>1. \A q \in Processes : job'[q] = IF q = p THEN j ELSE job[q]
  BY DEF IInv, GenerationsAreSound, TypeOK
<1>2. \A i : JobIsSound(i) => (JobIsSound(i))'
  BY DEF JobIsSound, Entered
<1>3. \A q \in Processes : JobIsSound(job[q])'
  <2> SUFFICES ASSUME NEW q \in Processes PROVE JobIsSound(job[q])'
    OBVIOUS
  <2>1. PICK i : i = IF q = p THEN j ELSE job[q]
    OBVIOUS
  <2>2. JobIsSound(i)
    BY <2>1 DEF IInv
  <2>3. (JobIsSound(i))' /\ job'[q] = i
    BY <1>1, <1>2, <2>1, <2>2
  <2> QED BY <2>3
<1>4. TypeOK'
  BY DEF IInv, GenerationsAreSound, TypeOK
<1>5. CurrentIsCached' /\ ValidationIsOfTheseRecords'
  BY DEF IInv, GenerationsAreSound, CurrentIsCached, IsCached, ValidationIsOfTheseRecords
<1> QED BY <1>3, <1>4, <1>5 DEF IInv, GenerationsAreSound, Kept

\* A command stays sound when another one makes g current.
LEMMA OthersStaySound ==
  ASSUME NEW j \in Work, JobIsSound(j), NEW run \in Runs, NEW g \in Generations, g.there,
         NEW i, i = IF j.run = run /\ Holding(j) THEN [j EXCEPT !.overtaken = TRUE] ELSE j,
         current' = [current EXCEPT ![run] = g], current \in [Runs -> Generations],
         UNCHANGED <<cache, displaced>>
  PROVE  i \in Work /\ (JobIsSound(i))'
<1>1. \A R : Entered(R) => (Entered(R))'
  BY DEF Entered
<1>2. j # NoJob /\ j.run \in Runs
  BY DEF Work, NoJob
<1>3. CASE j.run = run /\ Holding(j)
  <2>1. i = [j EXCEPT !.overtaken = TRUE]
    BY <1>3
  <2>2. /\ i \in Work /\ i.at = j.at /\ i.run = run /\ i.records = j.records
        /\ i.todo = j.todo /\ i.put = j.put /\ i.entry = j.entry /\ i.log = j.log
        /\ i.base = j.base /\ i.overtaken
    BY <1>3, <2>1 DEF Work
  <2>3. current'[run].there
    OBVIOUS
  <2> QED BY <1>1, <1>2, <2>2, <2>3 DEF JobIsSound
<1>4. CASE j.run = run /\ ~Holding(j)
  <2>1. i = j /\ j.at = "load" /\ j.entry = {}
    BY <1>4 DEF Holding
  <2> QED BY <2>1 DEF JobIsSound
<1>5. CASE j.run # run
  <2>1. i = j /\ current'[j.run] = current[j.run]
    BY <1>2, <1>5
  <2> QED BY <1>1, <2>1 DEF JobIsSound
<1> QED BY <1>3, <1>4, <1>5

\* A generation g takes the place of the current one of a run.
LEMMA TakingIsSound ==
  ASSUME IInv, NEW p \in Processes, ~Idle(p), NEW g \in Generations, g.there,
         NEW j \in Jobs, j # job[p], j # NoJob => j.at = "load" /\ j.entry = {},
         Takes(p, g, j), UNCHANGED <<cache, displaced>>, faults' \in 0..MaxFaults,
         mixed' \subseteq Runs, mixed \subseteq mixed' \cup {RunOf(p)},
         job[p].overtaken \/ current[RunOf(p)].records \subseteq g.records,
         Entered(g.records),
         \/ RunOf(p) \in mixed'
         \/ /\ g.log \subseteq {g.records}
            /\ g.report.there => g.report.of = g.records /\ (g.report.validated => g.log # {})
  PROVE  IInv' /\ Kept
<1> DEFINE run == RunOf(p)
<1>0. run \in Runs
  BY WorkHasFields
<1>1. current' = [current EXCEPT ![run] = g] /\ begun' = begun \cup {run}
  BY DEF Takes
<1>2. current \in [Runs -> Generations] /\ job \in [Processes -> Jobs]
  BY DEF IInv, GenerationsAreSound, TypeOK
<1>3. \A r \in Runs : current'[r] = IF r = run THEN g ELSE current[r]
  BY <1>1, <1>2
<1>4. \A q \in Processes : job'[q] \in Jobs /\ JobIsSound(job[q])'
  <2> SUFFICES ASSUME NEW q \in Processes PROVE job'[q] \in Jobs /\ JobIsSound(job[q])'
    OBVIOUS
  <2>1. CASE q = p
    <3>1. job'[q] = j
      BY <2>1 DEF Takes
    <3> QED BY <3>1 DEF JobIsSound
  <2>2. CASE q # p /\ Idle(q)
    <3>1. job'[q] = NoJob
      BY <2>2 DEF Takes, Idle
    <3> QED BY <3>1 DEF JobIsSound, Jobs
  <2>3. CASE q # p /\ ~Idle(q)
    <3>1. PICK k : k = job[q]
      OBVIOUS
    <3>2. PICK i : i = IF k.run = run /\ Holding(k) THEN [k EXCEPT !.overtaken = TRUE] ELSE k
      OBVIOUS
    <3>3. k \in Work /\ JobIsSound(k)
      BY <2>3, <3>1, WorkHasFields
    <3> HIDE DEF run
    <3>4. i \in Work /\ (JobIsSound(i))'
      BY <1>0, <1>1, <1>2, <3>2, <3>3, OthersStaySound
    <3>5. job'[q] = i
      BY <2>3, <3>1, <3>2 DEF Takes, RunOf, run
    <3> QED BY <3>4, <3>5, JobsAreWork
  <2> QED BY <2>1, <2>2, <2>3
<1>5. TypeOK'
  <2>1. job' \in [Processes -> Jobs]
    BY <1>4 DEF Takes
  <2>2. current' \in [Runs -> Generations] /\ begun' \subseteq Runs
    BY <1>0, <1>1, <1>2 DEF IInv, GenerationsAreSound, TypeOK
  <2> QED BY <2>1, <2>2 DEF IInv, GenerationsAreSound, TypeOK
<1>6. CurrentIsCached'
  BY <1>3 DEF IInv, GenerationsAreSound, CurrentIsCached, IsCached, Entered
<1>7. ValidationIsOfTheseRecords'
  <2> SUFFICES ASSUME NEW r \in Runs, r \notin mixed'
               PROVE  LET h == current'[r] IN
                        /\ h.log \subseteq {h.records}
                        /\ h.report.there => h.report.of = h.records
                        /\ h.report.there /\ h.report.validated => h.log # {}
    BY DEF ValidationIsOfTheseRecords
  <2>1. CASE r = run
    BY <1>3, <2>1
  <2>2. CASE r # run
    <3>1. r \in Runs \ mixed /\ current'[r] = current[r]
      BY <1>3, <2>2
    <3> QED BY <3>1 DEF IInv, GenerationsAreSound, ValidationIsOfTheseRecords
  <2> QED BY <2>1, <2>2
<1>8. Kept
  <2>1. job'[p] = j
    BY DEF Takes
  <2> SUFFICES ASSUME NEW r \in Runs, ~(current[r].records \subseteq current'[r].records)
               PROVE  r = run /\ job[p].overtaken
    BY <2>1 DEF Kept
  <2> QED BY <1>3
<1> QED BY <1>4, <1>5, <1>6, <1>7, <1>8 DEF IInv, GenerationsAreSound

\* An answer that has nothing to say of the records is always sound.
LEMMA BlockedIsSound ==
  ASSUME IInv, NEW p \in Processes, ~Idle(p)
  PROVE  LET j == Answered(p, {})
         IN  j \in Jobs /\ JobIsSound(j) /\ j.at = "load" /\ j.entry = {}
<1> DEFINE j == Answered(p, {})
<1>1. NoGeneration \in Generations /\ {} \in Histories
  BY DEF Generations, Histories
<1>2. RunOf(p) \in Runs
  BY WorkHasFields
<1>3. j = [at |-> "load", run |-> RunOf(p), records |-> {}, todo |-> {}, put |-> NoRecord,
           entry |-> {}, log |-> {}, base |-> NoGeneration, overtaken |-> FALSE]
  <2>1. PICK o : o = ({} # {} /\ job[p].overtaken)
    OBVIOUS
  <2>2. j = [Job(RunOf(p), "load") EXCEPT !.entry = {}, !.overtaken = o]
    BY <2>1 DEF Answered
  <2>3. o = FALSE
    BY <2>1, Zenon
  <2> QED BY <2>2, <2>3 DEF Job
<1> HIDE DEF j
<1>4. j \in Work
  BY <1>1, <1>2, <1>3 DEF Work, Points
<1>5. j.at = "load" /\ j.entry = {}
  BY <1>3
<1>6. JobIsSound(j)
  BY <1>5 DEF JobIsSound
<1> QED BY <1>4, <1>5, <1>6, JobsAreWork DEF j

LEMMA IdleIsSound ==
  /\ NoJob \in Jobs
  /\ JobIsSound(NoJob)
  BY DEF Jobs, JobIsSound

LEMMA FaultsAreBounded ==
  ASSUME IInv
  PROVE  /\ faults \in 0..MaxFaults /\ begun \subseteq Runs
         /\ faults < MaxFaults => faults + 1 \in 0..MaxFaults
  BY DEF IInv, GenerationsAreSound, TypeOK

\* What a step that moves one command leaves alone.
Still == UNCHANGED <<current, begun, cache, displaced, mixed, faults>>

-----------------------------------------------------------------------------
\* The commands, action by action.

\* A command that only changes what it holds.
LEMMA StillIsSound ==
  ASSUME IInv, NEW p \in Processes, NEW j \in Work, JobIsSound(j),
         job' = [job EXCEPT ![p] = j], Still
  PROVE  IInv' /\ Kept
<1>1. j \in Jobs
  BY JobsAreWork
<1> QED BY <1>1, MoveIsSound, FaultsAreBounded DEF Still

\* Commands that answer or end.
LEMMA AnswerIsSound ==
  ASSUME IInv, NEW p \in Processes, ~Idle(p), Block(p) \/ Finish(p), Still
  PROVE  IInv' /\ Kept
<1>1. PICK j \in Jobs : job' = [job EXCEPT ![p] = j] /\ JobIsSound(j)
  <2>1. CASE Block(p)
    <3>1. LET j == Answered(p, {}) IN j \in Jobs /\ JobIsSound(j)
      BY BlockedIsSound
    <3> QED BY <2>1, <3>1 DEF Block, Answer
  <2>2. CASE Finish(p)
    BY <2>2, IdleIsSound DEF Finish
  <2> QED BY <2>1, <2>2
<1> QED BY <1>1, MoveIsSound, FaultsAreBounded DEF Still

\* What is merged holds what is current; a validation is of what is current.
LEMMA ImportIsSound ==
  ASSUME IInv, NEW p \in Processes, NEW run \in Runs,
         NEW source \in (SUBSET Records) \ {{}}, NEW resume \in BOOLEAN,
         Import(p, run, source, resume)
  PROVE  IInv' /\ Kept
<1> DEFINE merged == Merged(run, source)
           entry == IF NothingNew(run, source, resume) THEN {merged} ELSE {}
<1>1. current[run] \in Generations /\ current[run].records \subseteq Records
  BY GenerationFields DEF IInv, GenerationsAreSound, TypeOK
<1>2. NoGeneration \in Generations /\ {} \in Histories
  BY DEF Generations, Histories
<1>3. merged \subseteq Records /\ merged # {} /\ current[run].records \subseteq merged
  BY <1>1 DEF Merged
<1>4. entry \in Histories /\ (entry # {} => entry = {current[run].records})
  BY <1>3 DEF Histories, NothingNew, Merged
<1> HIDE DEF entry, merged
<1>5. PICK j : /\ job' = [job EXCEPT ![p] = j]
               /\ \/ j = Job(run, "load")
                  \/ j = [Job(run, "bind") EXCEPT !.records = merged, !.todo = merged,
                                                  !.entry = entry]
  BY DEF Import, merged, entry
<1>6. CASE j = Job(run, "load")
  <2>1. j \in Work /\ j.at = "load" /\ j.entry = {}
    BY <1>2, <1>6 DEF Job, Work, Points
  <2>2. JobIsSound(j)
    BY <2>1 DEF JobIsSound
  <2> QED BY <1>5, <2>1, <2>2, StillIsSound DEF Import, Still
<1>7. CASE j = [Job(run, "bind") EXCEPT !.records = merged, !.todo = merged, !.entry = entry]
  <2>1. j = [at |-> "bind", run |-> run, records |-> merged, todo |-> merged,
             put |-> NoRecord, entry |-> entry, log |-> {}, base |-> NoGeneration,
             overtaken |-> FALSE]
    BY <1>7 DEF Job
  <2>2. j \in Work
    BY <1>2, <1>3, <1>4, <2>1 DEF Work, Points
  <2>3. /\ j.at = "bind" /\ j.run = run /\ j.records = merged /\ j.todo = merged
        /\ j.entry = entry
    BY <2>1
  <2>4. Entered(j.records \ j.todo)
    BY <2>3 DEF Entered
  <2>5. JobIsSound(j)
    BY <1>3, <1>4, <2>3, <2>4 DEF JobIsSound
  <2> QED BY <1>5, <2>2, <2>5, StillIsSound DEF Import, Still
<1> QED BY <1>5, <1>6, <1>7

\* A report begins with what is current.
LEMMA ReportIsSound ==
  ASSUME IInv, NEW p \in Processes, NEW run \in Runs, Report(p, run)
  PROVE  IInv' /\ Kept
<1>1. PICK j : j = [Job(run, "validate") EXCEPT !.log = current[run].log]
  OBVIOUS
<1>2. current[run].log \in Histories
  BY GenerationFields DEF IInv, GenerationsAreSound, TypeOK
<1>3. NoGeneration \in Generations /\ {} \in Histories
  BY DEF Generations, Histories
<1>4. j = [at |-> "validate", run |-> run, records |-> {}, todo |-> {}, put |-> NoRecord,
           entry |-> {}, log |-> current[run].log, base |-> NoGeneration,
           overtaken |-> FALSE]
  BY <1>1 DEF Job
<1>5. j \in Work
  BY <1>2, <1>3, <1>4 DEF Work, Points
<1>6. j.at = "validate" /\ j.run = run /\ j.log = current[j.run].log
  BY <1>4
<1>7. JobIsSound(j)
  BY <1>6 DEF JobIsSound
<1> QED BY <1>1, <1>5, <1>7, StillIsSound DEF Report, Still

LEMMA BindIsSound ==
  ASSUME IInv, NEW p \in Processes, Bind(p)
  PROVE  IInv' /\ Kept
<1>1. ~Idle(p) /\ job[p].at = "bind" /\ Still
  BY DEF Bind, At, Still
<1>3. job[p] \in Work /\ JobIsSound(job[p]) /\ job[p] # NoJob
  BY <1>1, WorkHasFields
<1>4. PICK r \in job[p].todo :
         \/ Block(p)
         \/ /\ ~Collides(r) /\ cache[Key[r]] # NoRecord
            /\ job' = [job EXCEPT ![p].todo = job[p].todo \ {r}]
         \/ job' = [job EXCEPT ![p].at = "put", ![p].put = r]
  BY DEF Bind
<1>5. r \in Records
  BY <1>3, <1>4 DEF Work
<1>6. CASE Block(p)
  BY <1>1, <1>6, AnswerIsSound
<1>7. CASE cache[Key[r]] = r /\ job' = [job EXCEPT ![p].todo = job[p].todo \ {r}]
  <2>0. PICK j : j = [job[p] EXCEPT !.todo = job[p].todo \ {r}]
    OBVIOUS
  <2>1. job' = [job EXCEPT ![p] = j]
    BY <1>7, <2>0 DEF IInv, GenerationsAreSound, TypeOK
  <2>2. j \in Work
    BY <1>3, <2>0 DEF Work
  <2>3. /\ j.at = "bind" /\ j.run = job[p].run /\ j.records = job[p].records
        /\ j.entry = job[p].entry /\ j.todo = job[p].todo \ {r}
        /\ j.overtaken = job[p].overtaken
    BY <1>1, <1>3, <2>0 DEF Work
  <2>4. Entered(j.records \ j.todo)
    BY <1>1, <1>3, <1>7, <2>3 DEF JobIsSound, Entered
  <2>5. JobIsSound(j)
    BY <1>1, <1>3, <2>3, <2>4 DEF JobIsSound
  <2> QED BY <1>1, <2>1, <2>2, <2>5, StillIsSound
<1>8. CASE job' = [job EXCEPT ![p].at = "put", ![p].put = r]
  <2>0. PICK j : j = [job[p] EXCEPT !.at = "put", !.put = r]
    OBVIOUS
  <2>1. job' = [job EXCEPT ![p] = j]
    BY <1>8, <2>0 DEF IInv, GenerationsAreSound, TypeOK
  <2>2. j \in Work
    BY <1>3, <1>5, <2>0 DEF Work, Points
  <2>3. /\ j.at = "put" /\ j.run = job[p].run /\ j.records = job[p].records
        /\ j.entry = job[p].entry /\ j.todo = job[p].todo /\ j.put = r
        /\ j.overtaken = job[p].overtaken
    BY <1>3, <2>0 DEF Work
  <2>4. JobIsSound(j)
    BY <1>1, <1>3, <1>5, <2>3 DEF JobIsSound
  <2> QED BY <1>1, <2>1, <2>2, <2>4, StillIsSound
<1> QED BY <1>4, <1>6, <1>7, <1>8 DEF Collides

\* What was entered stays, or is replaced and goes on record as such.
LEMMA EnteredStays ==
  ASSUME IInv, NEW r \in Records, cache' = [cache EXCEPT ![Key[r]] = r],
         displaced' = (displaced \cup {cache[Key[r]]}) \ {r, NoRecord}
  PROVE  /\ \A R \in SUBSET Records : Entered(R) => (Entered(R))'
         /\ cache'[Key[r]] = r
<1>1. cache \in [Keys -> Records \cup {NoRecord}]
  BY DEF IInv, GenerationsAreSound, TypeOK
<1>2. \A s \in Records : Key[s] \in Keys /\ s # NoRecord
  OBVIOUS
<1>3. cache'[Key[r]] = r /\ \A k \in Keys \ {Key[r]} : cache'[k] = cache[k]
  BY <1>1, <1>2
<1>4. \A s \in Records :
        cache[Key[s]] = s \/ s \in displaced => cache'[Key[s]] = s \/ s \in displaced'
  <2> SUFFICES ASSUME NEW s \in Records, cache[Key[s]] = s \/ s \in displaced,
                      cache'[Key[s]] # s
               PROVE  s \in displaced'
    OBVIOUS
  <2>1. s # r
    BY <1>3
  <2>2. CASE s \in displaced
    BY <1>2, <2>1, <2>2
  <2>3. CASE cache[Key[s]] = s
    <3>1. Key[s] = Key[r]
      BY <1>2, <1>3, <2>3
    <3> QED BY <1>2, <2>1, <2>3, <3>1
  <2> QED BY <2>2, <2>3
<1> QED BY <1>3, <1>4 DEF Entered

\* A command stays sound when another one puts an entry in the cache.
LEMMA OthersSurvivePut ==
  ASSUME NEW j \in Work, JobIsSound(j), UNCHANGED current,
         \A R \in SUBSET Records : Entered(R) => (Entered(R))'
  PROVE  (JobIsSound(j))'
<1>1. j.records \ j.todo \subseteq Records /\ j.base.records \subseteq Records
  BY GenerationFields DEF Work
<1> QED BY <1>1 DEF JobIsSound

\* Whatever another command has put there since this one looked.
LEMMA PutIsSound ==
  ASSUME IInv, NEW p \in Processes, Put(p)
  PROVE  IInv' /\ Kept
<1>1. ~Idle(p) /\ job[p].at = "put" /\ UNCHANGED <<current, begun, mixed, faults>>
  BY DEF Put, At
<1>3. job[p] \in Work /\ JobIsSound(job[p]) /\ job[p] # NoJob
  BY <1>1, WorkHasFields
<1>4. PICK r : r = job[p].put
  OBVIOUS
<1>5. /\ r \in Records /\ cache' = [cache EXCEPT ![Key[r]] = r]
      /\ displaced' = (displaced \cup {cache[Key[r]]}) \ {r, NoRecord}
  BY <1>1, <1>3, <1>4 DEF Put, JobIsSound
<1>0. PICK j : j = [job[p] EXCEPT !.at = "bind", !.todo = job[p].todo \ {r}, !.put = NoRecord]
  OBVIOUS
<1>6. job' = [job EXCEPT ![p] = j]
  BY <1>0, <1>4 DEF Put, IInv, GenerationsAreSound, TypeOK
<1>7. j \in Work
  BY <1>0, <1>3 DEF Work, Points
<1>8. /\ j.at = "bind" /\ j.run = job[p].run /\ j.records = job[p].records
      /\ j.entry = job[p].entry /\ j.todo = job[p].todo \ {r}
      /\ j.overtaken = job[p].overtaken
  BY <1>0, <1>3 DEF Work
<1>9. /\ \A R \in SUBSET Records : Entered(R) => (Entered(R))'
      /\ cache'[Key[r]] = r
  BY <1>5, EnteredStays
<1>12. (Entered(j.records \ j.todo))'
  <2>1. Entered(job[p].records \ job[p].todo)
    BY <1>1, <1>3 DEF JobIsSound
  <2>0. PICK R : R = job[p].records \ job[p].todo
    OBVIOUS
  <2>2. (Entered(R))'
    BY <1>3, <1>9, <2>0, <2>1 DEF Work
  <2> QED BY <1>8, <1>9, <2>0, <2>2 DEF Entered
<1>13. (JobIsSound(j))'
  BY <1>1, <1>3, <1>8, <1>12 DEF JobIsSound
<1>14. \A q \in Processes : JobIsSound(job[q])'
  <2> SUFFICES ASSUME NEW q \in Processes PROVE JobIsSound(job[q])'
    OBVIOUS
  <2>0. job'[q] = IF q = p THEN j ELSE job[q]
    BY <1>6 DEF IInv, GenerationsAreSound, TypeOK
  <2>1. CASE q = p
    BY <1>13, <2>0, <2>1
  <2>2. CASE q # p /\ Idle(q)
    BY <2>0, <2>2 DEF JobIsSound, Idle
  <2>3. CASE q # p /\ ~Idle(q)
    <3>1. PICK k : k = job[q]
      OBVIOUS
    <3>2. k \in Work /\ JobIsSound(k)
      BY <2>3, <3>1, WorkHasFields
    <3>3. (JobIsSound(k))' /\ job'[q] = k
      BY <1>1, <1>9, <2>0, <2>3, <3>1, <3>2, OthersSurvivePut
    <3> QED BY <3>3
  <2> QED BY <2>1, <2>2, <2>3
<1>15. TypeOK'
  <2>1. j \in Jobs
    BY <1>7, JobsAreWork
  <2>2. /\ cache' \in [Keys -> Records \cup {NoRecord}] /\ displaced' \subseteq Records
        /\ job' \in [Processes -> Jobs]
    BY <1>5, <1>6, <2>1 DEF IInv, GenerationsAreSound, TypeOK
  <2> QED BY <1>1, <2>2 DEF IInv, GenerationsAreSound, TypeOK
<1>16. CurrentIsCached'
  <2> SUFFICES ASSUME NEW run \in Runs PROVE IsCached(current[run].records \ displaced)'
    BY DEF CurrentIsCached
  <2>1. current[run].records \subseteq Records /\ IsCached(current[run].records \ displaced)
    BY GenerationFields DEF IInv, GenerationsAreSound, TypeOK, CurrentIsCached
  <2>2. PICK R : R = current[run].records
    OBVIOUS
  <2>3. Entered(R)
    BY <2>1, <2>2, EnteredIsCached
  <2>4. (Entered(R))'
    BY <1>9, <2>1, <2>2, <2>3
  <2> QED BY <1>1, <2>2, <2>4 DEF IsCached, Entered
<1>17. ValidationIsOfTheseRecords' /\ Kept
  BY <1>1 DEF IInv, GenerationsAreSound, ValidationIsOfTheseRecords, Kept
<1> QED BY <1>14, <1>15, <1>16, <1>17 DEF IInv, GenerationsAreSound

\* A resume that found nothing new goes on with what it validated.
LEMMA ValidatedIsSound ==
  ASSUME IInv, NEW p \in Processes, Validated(p)
  PROVE  IInv' /\ Kept
<1>1. /\ ~Idle(p) /\ job[p].at = "bind" /\ job[p].entry # {} /\ Still
  BY DEF Validated, Bound, At, Still
<1>3. /\ job[p] \in Work /\ JobIsSound(job[p]) /\ job[p] # NoJob
      /\ RunOf(p) \in Runs
  BY <1>1, WorkHasFields
<1>4. PICK j : j = Answered(p, job[p].entry)
  OBVIOUS
<1>5. job[p].entry \in Histories /\ NoGeneration \in Generations /\ {} \in Histories
  BY <1>3 DEF Work, Generations, Histories
<1>6. j = [at |-> "load", run |-> RunOf(p), records |-> {}, todo |-> {}, put |-> NoRecord,
           entry |-> job[p].entry, log |-> {}, base |-> NoGeneration,
           overtaken |-> job[p].overtaken]
  BY <1>1, <1>3, <1>4 DEF Answered, Job, Work
<1>7. job[p].overtaken \in BOOLEAN
  BY <1>3 DEF Work
<1>8. j \in Work
  BY <1>3, <1>5, <1>6, <1>7 DEF Work, Points
<1>9. /\ j.at = "load" /\ j.run = job[p].run /\ j.entry = job[p].entry
      /\ j.overtaken = job[p].overtaken
  BY <1>6 DEF RunOf
<1>10. JobIsSound(j)
  BY <1>1, <1>3, <1>9 DEF JobIsSound
<1>11. job' = [job EXCEPT ![p] = j]
  BY <1>4 DEF Validated, Answer
<1> QED BY <1>1, <1>8, <1>10, <1>11, StillIsSound

\* A new generation holds what is current and what is bound, and says nothing yet.
LEMMA NewGenerationIsSound ==
  ASSUME IInv, NEW p \in Processes, Publishes(p), NEW j \in Jobs,
         Takes(p, Generation(job[p].records, {}, NoReport), j), Anew(p),
         UNCHANGED <<cache, displaced>>, faults' \in 0..MaxFaults,
         j # NoJob => j.at = "load" /\ j.entry = {}
  PROVE  IInv' /\ Kept
<1> DEFINE g == Generation(job[p].records, {}, NoReport)
<1>0. ~Idle(p) /\ job[p].at = "bind" /\ job[p].todo = {}
  BY DEF Publishes, Bound, At
<1>1. /\ job[p] \in Work /\ JobIsSound(job[p]) /\ job[p] # NoJob /\ RunOf(p) \in Runs
  BY <1>0, WorkHasFields
<1>2. /\ job[p].records # {} /\ job[p].records \subseteq Records /\ Entered(job[p].records)
      /\ job[p].overtaken \/ current[RunOf(p)].records \subseteq job[p].records
  <2>1. Entered(job[p].records \ job[p].todo)
    BY <1>0, <1>1 DEF JobIsSound
  <2>2. Entered(job[p].records)
    BY <1>0, <2>1 DEF Entered
  <2>3. /\ job[p].records # {}
        /\ job[p].overtaken \/ current[RunOf(p)].records \subseteq job[p].records
    BY <1>0, <1>1 DEF JobIsSound, RunOf
  <2> QED BY <1>1, <2>2, <2>3 DEF Work
<1>3. g \in Generations /\ g.there
  BY <1>2 DEF Generation, Generations, Histories, Reports
<1>4. /\ g.records = job[p].records /\ g.log = {} /\ ~g.report.there
      /\ Takes(p, g, j)
  BY DEF Generation, NoReport
<1>5. mixed' \subseteq Runs /\ mixed \subseteq mixed' \cup {RunOf(p)}
  BY DEF Anew, IInv, GenerationsAreSound, TypeOK
<1>6. j # job[p]
  BY <1>0, <1>1
<1> HIDE DEF g
<1> QED BY <1>0, <1>1, <1>2, <1>3, <1>4, <1>5, <1>6, TakingIsSound

LEMMA PublishIsSound ==
  ASSUME IInv, NEW p \in Processes, Publish(p)
  PROVE  IInv' /\ Kept
<1>1. ~Idle(p) /\ Publishes(p) /\ UNCHANGED <<cache, displaced, faults>>
  BY DEF Publish, Publishes, Bound, At
<1>3. faults' \in 0..MaxFaults
  BY <1>1, FaultsAreBounded
<1>4. PICK j : j = Answered(p, {})
  OBVIOUS
<1>5. j \in Jobs /\ j.at = "load" /\ j.entry = {}
  BY <1>1, <1>4, BlockedIsSound
<1>6. Takes(p, Generation(job[p].records, {}, NoReport), j) /\ Anew(p)
  BY <1>4 DEF Publish
<1> QED BY <1>1, <1>3, <1>5, <1>6, NewGenerationIsSound

\* What a publication that raised or died leaves behind.
LEMMA FaultIsSound ==
  ASSUME IInv, NEW p \in Processes, Raise(p) \/ Die(p)
  PROVE  IInv' /\ Kept
<1>1. ~Idle(p) /\ UNCHANGED <<cache, displaced>>
  BY DEF Raise, Die, At
<1>2. faults' \in 0..MaxFaults
  BY FaultsAreBounded DEF Raise, Die
<1>3. PICK j \in Jobs : /\ Partly(p, j) /\ JobIsSound(j)
                        /\ j # NoJob => j.at = "load" /\ j.entry = {}
  <2>1. CASE Raise(p)
    <3>1. LET j == Answered(p, {})
          IN  j \in Jobs /\ JobIsSound(j) /\ j.at = "load" /\ j.entry = {}
      BY <1>1, BlockedIsSound
    <3> QED BY <2>1, <3>1 DEF Raise
  <2>2. CASE Die(p)
    BY <2>2, IdleIsSound DEF Die
  <2> QED BY <2>1, <2>2
<1>4. CASE job' = [job EXCEPT ![p] = j] /\ UNCHANGED <<current, begun, mixed>>
  BY <1>1, <1>2, <1>3, <1>4, MoveIsSound, FaultsAreBounded
<1>5. CASE /\ Publishes(p) /\ Takes(p, Generation(job[p].records, {}, NoReport), j)
           /\ Anew(p)
  BY <1>1, <1>2, <1>3, <1>5, NewGenerationIsSound
<1>6. CASE /\ begun' = begun \cup {RunOf(p)} /\ job' = [job EXCEPT ![p] = j]
           /\ UNCHANGED <<current, mixed>>
  <2>1. RunOf(p) \in Runs /\ begun' \subseteq Runs
    BY <1>1, <1>6, WorkHasFields, FaultsAreBounded
  <2> QED BY <1>1, <1>2, <1>3, <1>6, <2>1, MoveIsSound
<1> QED BY <1>3, <1>4, <1>5, <1>6 DEF Partly

\* The steps that read what is current before they publish with it.
LEMMA LoadIsSound ==
  ASSUME IInv, NEW p \in Processes, Load(p)
  PROVE  IInv' /\ Kept
<1>0. PICK j : j = [job[p] EXCEPT !.at = "collect", !.log = current[RunOf(p)].log]
  OBVIOUS
<1>1. ~Idle(p) /\ job[p].at = "load" /\ Still
  BY DEF Load, At, Still
<1>3. /\ job[p] \in Work /\ JobIsSound(job[p]) /\ job[p] # NoJob
      /\ current[RunOf(p)].log \in Histories
  BY <1>1, WorkHasFields, GenerationFields
<1>4. job' = [job EXCEPT ![p] = j]
  BY <1>0 DEF Load, At, IInv, GenerationsAreSound, TypeOK
<1>5. j \in Work
  BY <1>0, <1>3 DEF Work, Points
<1>6. /\ j.at = "collect" /\ j.run = job[p].run /\ j.entry = job[p].entry
      /\ j.log = current[j.run].log /\ j.overtaken = job[p].overtaken
  BY <1>0, <1>3 DEF Work, RunOf
<1>7. JobIsSound(j)
  BY <1>1, <1>3, <1>6 DEF JobIsSound
<1> QED BY <1>1, <1>4, <1>5, <1>7, StillIsSound

\* A current generation was entered in the cache.
LEMMA CurrentIsEntered ==
  ASSUME IInv, NEW run \in Runs
  PROVE  Entered(current[run].records)
  BY EnteredIsCached DEF IInv, GenerationsAreSound, CurrentIsCached

LEMMA CollectIsSound ==
  ASSUME IInv, NEW p \in Processes, Collect(p) \/ Gather(p)
  PROVE  IInv' /\ Kept
<1>0. PICK at : at = IF job[p].at = "collect" THEN "store" ELSE "submit"
  OBVIOUS
<1>1. ~Idle(p) /\ job[p].at \in {"collect", "gather"} /\ Still
  BY DEF Collect, Gather, At, Still
<1>2. PICK j : j = [job[p] EXCEPT !.at = at, !.base = current[RunOf(p)]]
  OBVIOUS
<1>3. /\ job[p] \in Work /\ JobIsSound(job[p]) /\ job[p] # NoJob
      /\ current[RunOf(p)] \in Generations /\ Entered(current[RunOf(p)].records)
  BY <1>1, WorkHasFields, CurrentIsEntered
<1>4. CASE Finish(p)
  BY <1>1, <1>4, AnswerIsSound
<1>5. CASE job' = [job EXCEPT ![p] = j] /\ current[RunOf(p)].there
  <2>1. j \in Work
    BY <1>0, <1>2, <1>3 DEF Work, Points
  <2>2. /\ j.at = at /\ j.run = job[p].run /\ j.entry = job[p].entry
        /\ j.records = job[p].records /\ j.log = job[p].log /\ j.base = current[j.run]
        /\ j.overtaken = job[p].overtaken
    BY <1>2, <1>3 DEF Work, RunOf
  <2>3. j.base.there /\ Entered(j.base.records) /\ current[j.run].there
    BY <1>3, <1>5, <2>2 DEF RunOf
  <2>4. JobIsSound(j)
    BY <1>0, <1>1, <1>3, <2>2, <2>3 DEF JobIsSound
  <2> QED BY <1>1, <1>5, <2>1, <2>4, StillIsSound
<1>6. CASE Collect(p) /\ ~Finish(p)
  BY <1>0, <1>2, <1>5, <1>6 DEF Collect, At, IInv, GenerationsAreSound, TypeOK
<1>7. CASE Gather(p)
  <2>1. job[p].at = "gather" /\ current[RunOf(p)].there
    BY <1>3, <1>7 DEF Gather, At, JobIsSound, RunOf
  <2> QED BY <1>0, <1>2, <1>5, <1>7, <2>1 DEF Gather, At, IInv, GenerationsAreSound, TypeOK
<1> QED BY <1>4, <1>6, <1>7

LEMMA ValidateIsSound ==
  ASSUME IInv, NEW p \in Processes, Validate(p)
  PROVE  IInv' /\ Kept
<1>0. PICK j : j = [job[p] EXCEPT !.at = "gather", !.records = current[RunOf(p)].records]
  OBVIOUS
<1>1. ~Idle(p) /\ job[p].at = "validate" /\ Still
  BY DEF Validate, At, Still
<1>3. /\ job[p] \in Work /\ JobIsSound(job[p]) /\ job[p] # NoJob
      /\ current[RunOf(p)].records \subseteq Records
  BY <1>1, WorkHasFields
<1>4. CASE Block(p)
  BY <1>1, <1>4, AnswerIsSound
<1>5. CASE /\ current[RunOf(p)].there
           /\ job' = [job EXCEPT ![p].at = "gather", ![p].records = current[RunOf(p)].records]
  <2>1. job' = [job EXCEPT ![p] = j]
    BY <1>0, <1>5 DEF IInv, GenerationsAreSound, TypeOK
  <2>2. j \in Work
    BY <1>0, <1>3 DEF Work, Points
  <2>3. /\ j.at = "gather" /\ j.run = job[p].run /\ j.log = job[p].log
        /\ j.records = current[j.run].records /\ j.overtaken = job[p].overtaken
    BY <1>0, <1>3 DEF Work, RunOf
  <2>4. JobIsSound(j)
    BY <1>1, <1>3, <1>5, <2>3 DEF JobIsSound, RunOf
  <2> QED BY <1>1, <2>1, <2>2, <2>4, StillIsSound
<1> QED BY <1>4, <1>5 DEF Validate

\* The same records, with one more validation of them, or with a report on them; and,
\* of an overtaken command, the records it had read.
LEMMA StoreIsSound ==
  ASSUME IInv, NEW p \in Processes, Store(p) \/ Submit(p)
  PROVE  IInv' /\ Kept
<1>1. /\ ~Idle(p) /\ job[p].at \in {"store", "submit"} /\ UNCHANGED <<cache, displaced, faults>>
      /\ Mixing(p)
  BY DEF Store, Submit, At
<1>2. faults' \in 0..MaxFaults
  BY <1>1, FaultsAreBounded
<1>3. PICK b : b = job[p].base
  OBVIOUS
<1>4. /\ job[p] \in Work /\ JobIsSound(job[p]) /\ job[p] # NoJob
      /\ RunOf(p) \in Runs /\ b \in Generations
  <2>1. job[p] \in Work /\ JobIsSound(job[p]) /\ job[p] # NoJob /\ RunOf(p) \in Runs
    BY <1>1, WorkHasFields
  <2> QED BY <1>3, <2>1 DEF Work
<1>5. b.there /\ Entered(b.records)
  BY <1>1, <1>3, <1>4 DEF JobIsSound
<1>6. b \in [there : {TRUE}, records : (SUBSET Records) \ {{}},
             log : Histories, report : Reports]
  BY <1>4, <1>5, GenerationFields
<1>7. mixed' \subseteq Runs /\ mixed \subseteq mixed'
  BY <1>1, <1>4 DEF Mixing, IInv, GenerationsAreSound, TypeOK
<1>8. ~job[p].overtaken =>
        /\ b = current[RunOf(p)] /\ job[p].log = b.log
        /\ job[p].at = "store" => job[p].entry \subseteq {b.records}
        /\ job[p].at = "submit" => job[p].records = b.records
  BY <1>1, <1>3, <1>4 DEF JobIsSound, RunOf
<1>9. \/ RunOf(p) \in mixed'
      \/ /\ ~job[p].overtaken /\ b.log \subseteq {b.records}
         /\ b.report.there => b.report.of = b.records /\ (b.report.validated => b.log # {})
  <2>1. job[p].overtaken => RunOf(p) \in mixed'
    BY <1>1 DEF Mixing
  <2>2. CASE ~job[p].overtaken /\ RunOf(p) \in Runs \ mixed
    BY <1>8, <2>2 DEF IInv, GenerationsAreSound, ValidationIsOfTheseRecords
  <2> QED BY <1>4, <1>7, <2>1, <2>2
<1>10. /\ job[p].overtaken \/ current[RunOf(p)].records \subseteq b.records
       /\ NoJob # job[p]
  BY <1>4, <1>8
<1>11. mixed \subseteq mixed' \cup {RunOf(p)}
  BY <1>7
<1>12. CASE Store(p)
  <2>1. PICK g : g = [b EXCEPT !.log = job[p].log \cup job[p].entry]
    OBVIOUS
  <2>2. Takes(p, g, NoJob) /\ job[p].at = "store"
    BY <1>3, <1>12, <2>1 DEF Store, At
  <2>3. /\ g.records = b.records /\ g.log = job[p].log \cup job[p].entry /\ g.report = b.report
        /\ g \in Generations /\ g.there
    BY <1>4, <1>6, <2>1 DEF Generations, Work, Histories
  <2>4. \/ RunOf(p) \in mixed'
        \/ /\ g.log \subseteq {g.records}
           /\ g.report.there => g.report.of = g.records /\ (g.report.validated => g.log # {})
    BY <1>8, <1>9, <2>2, <2>3
  <2>5. Entered(g.records)
    BY <1>5, <2>3
  <2>6. job[p].overtaken \/ current[RunOf(p)].records \subseteq g.records
    BY <1>10, <2>3
  <2> QED BY <1>1, <1>2, <1>7, <1>10, <1>11, <2>2, <2>3, <2>4, <2>5, <2>6,
             IdleIsSound, TakingIsSound
<1>13. CASE Submit(p)
  <2>1. PICK r : r = [there |-> TRUE, validated |-> job[p].log # {}, of |-> job[p].records]
    OBVIOUS
  <2>2. PICK g : g = [b EXCEPT !.report = r]
    OBVIOUS
  <2>3. Takes(p, g, NoJob) /\ job[p].at = "submit"
    BY <1>3, <1>13, <2>1, <2>2 DEF Submit, At
  <2>4. /\ r \in Reports /\ r.of = job[p].records /\ r.validated = (job[p].log # {})
    BY <1>4, <2>1 DEF Reports, Work
  <2>5. /\ g.records = b.records /\ g.log = b.log /\ g.report = r
        /\ g \in Generations /\ g.there
    BY <1>6, <2>2, <2>4 DEF Generations
  <2>6. \/ RunOf(p) \in mixed'
        \/ /\ g.log \subseteq {g.records}
           /\ g.report.there => g.report.of = g.records /\ (g.report.validated => g.log # {})
    BY <1>8, <1>9, <2>3, <2>4, <2>5
  <2>7. Entered(g.records)
    BY <1>5, <2>5
  <2>8. job[p].overtaken \/ current[RunOf(p)].records \subseteq g.records
    BY <1>10, <2>5
  <2> QED BY <1>1, <1>2, <1>7, <1>10, <1>11, <2>3, <2>5, <2>6, <2>7, <2>8,
             IdleIsSound, TakingIsSound
<1> QED BY <1>12, <1>13

-----------------------------------------------------------------------------
LEMMA InitIInv == Init => IInv
<1> SUFFICES ASSUME Init PROVE IInv
  OBVIOUS
<1> USE DEF Init
<1>1. NoGeneration \in Generations
  BY DEF Generations
<1>2. TypeOK
  BY <1>1, IdleIsSound DEF TypeOK
<1>3. CurrentIsCached /\ ValidationIsOfTheseRecords
  BY DEF CurrentIsCached, IsCached, ValidationIsOfTheseRecords, NoGeneration, NoReport
<1> QED BY <1>2, <1>3, IdleIsSound DEF IInv, GenerationsAreSound

LEMMA NextIInv ==
  ASSUME IInv, [Next]_vars
  PROVE  IInv' /\ Kept
<1>1. CASE UNCHANGED vars
  BY <1>1 DEF vars, IInv, GenerationsAreSound, TypeOK, CurrentIsCached, IsCached,
              ValidationIsOfTheseRecords, JobIsSound, Entered, Kept
<1>2. CASE Next
  <2>1. PICK p \in Processes :
          \/ \E run \in Runs :
               \/ \E source \in Sources[p], resume \in BOOLEAN : Import(p, run, source, resume)
               \/ Report(p, run)
          \/ Step(p) \/ Raise(p) \/ Die(p)
    BY <1>2 DEF Next
  <2>2. CASE \E run \in Runs :
               \E source \in Sources[p], resume \in BOOLEAN : Import(p, run, source, resume)
    <3>1. Sources[p] \subseteq (SUBSET Records) \ {{}}
      OBVIOUS
    <3> QED BY <2>2, <3>1, ImportIsSound
  <2>3. CASE \E run \in Runs : Report(p, run)
    BY <2>3, ReportIsSound
  <2>4. CASE Step(p)
    BY <2>4, BindIsSound, PutIsSound, ValidatedIsSound, PublishIsSound, LoadIsSound,
       CollectIsSound, StoreIsSound, ValidateIsSound DEF Step
  <2> QED BY <2>1, <2>2, <2>3, <2>4, FaultIsSound
<1> QED BY <1>1, <1>2

\* Whatever commands are at work at once, raise or die: every observation of a current
\* generation is cached under its own record until another record replaces it, and
\* histories and reports validate the observations they stand beside until a command
\* records or reports what another one published over
\* (observation_import.py:717-768, 826-833, cli.py:473-477).
THEOREM GenerationsStaySound == Spec => []GenerationsAreSound
<1>1. Init => IInv
  BY InitIInv
<1>2. IInv /\ [Next]_vars => IInv'
  BY NextIInv
<1>3. IInv => GenerationsAreSound
  BY DEF IInv
<1> QED BY <1>1, <1>2, <1>3, PTL DEF Spec

\* No command loses an observation that was imported, but one that publishes what it
\* read before another command published (observation_import.py:883-916, cli.py:177-186).
THEOREM RecordsStay == Spec => RecordsAreKept
<1>1. Init => IInv
  BY InitIInv
<1>2. IInv /\ [Next]_vars => IInv' /\ Kept
  BY NextIInv
<1> QED BY <1>1, <1>2, PTL DEF Spec, RecordsAreKept, Kept
=============================================================================
