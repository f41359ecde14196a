------------------------ MODULE ExperimentRunProofs -------------------------
(***************************************************************************)
(* Theorems about run directories and gates, for any experiments, required *)
(* gates, invocations, evaluations, edits, readings and faults, with       *)
(* crashes between any two files, several invocations of one run and       *)
(* several evaluations of one gate at once.                                *)
(***************************************************************************)
EXTENDS ExperimentRun, TLAPS

\* The invocation has made the run directory, which has no status yet.
Making(c) ==
  \/ c.at \in {"metadata", "snapshot"}
  \/ c.at = "prepared" /\ ~c.half

\* What an invocation knows of its run directory is so.
CallIsSound(c, d) ==
  /\ c.at \notin {"idle", "open", "make"} => d.made
  /\ c.at = "metadata" => d.metadata = Absent
  /\ c.at \in {"metadata", "snapshot"} => d.snapshot = Absent
  /\ c.at \notin {"idle", "open", "make", "metadata"} => d.metadata = c.pre
  /\ c.at \notin {"idle", "open", "make", "metadata", "snapshot"} => d.snapshot = c.pre
  /\ c.at \in {"metadata", "snapshot"} => d.status = NoStatus
  /\ c.at = "prepared" => c.half = (d.status # NoStatus)
  /\ c.at \notin {"idle", "open", "make", "metadata", "snapshot", "prepared"} =>
       d.status # NoStatus
  /\ c.at = "completed" => d.outputs

\* A directory with a status has its metadata and its snapshot, and with COMPLETED
\* its outputs, too; no file is there before the directory is.
DirIsSound(d) ==
  /\ ~d.made => d = NoDir
  /\ d.status # NoStatus => d.metadata # Absent /\ d.snapshot = d.metadata
  /\ d.status = NoStatus => d.markers = {}
  /\ d.status = "COMPLETED" \/ "COMPLETED" \in d.markers => d.outputs

\* One invocation makes a directory: mkdir tells them apart.
OneMaker ==
  \A p, q \in Invokers : Making(call[p]) /\ Making(call[q]) /\ call[p].of = call[q].of => p = q

\* Only _status has two halves.
HalvesAreWritten ==
  \A p \in Invokers : AtWork(p) /\ call[p].half => call[p].at \in DOMAIN Writing

Delivery ==
  /\ \A e \in Experiments : DirIsSound(dir[e])
  /\ \A p \in Invokers : AtWork(p) => CallIsSound(call[p], dir[call[p].of])
  /\ OneMaker /\ HalvesAreWritten

IInv == TypeOK /\ Delivery

\* The gates in an invocation's preflight passed.  Each of them is on file, or was until
\* another record replaced it.
PreflightStands ==
  \A p \in Invokers : AtWork(p) =>
    \A u \in Requires[call[p].of] :
      LET checked == call[p].pre.gates[u]
      IN  /\ checked # Absent /\ checked.status = "PASS" /\ gate[u] # Absent
          /\ gate[u] = checked \/ checked \in overwritten[u]

GateIInv == IInv /\ PreflightStands

\* A run that was never resumed while another invocation ran it is run by one at most, which
\* alone reports it, and what is about to be reported is on file.
OneRunner ==
  \A p, q \in Invokers :
    Running(call[p]) /\ Running(call[q]) /\ call[p].of = call[q].of =>
      p = q \/ call[p].of \in contested

ReportIsOnFile ==
  \A p \in Invokers :
    call[p].at = "completed" /\ call[p].half /\ call[p].of \notin contested =>
      dir[call[p].of].status = "COMPLETED"

ReportIInv == IInv /\ OneRunner /\ ReportIsOnFile /\ ReportIsFinal

-----------------------------------------------------------------------------
\* The invocations at work.
Work == [at : Points, of : Experiments, pre : Identities, half : BOOLEAN]

\* A file that is not there is no record of a gate or of a run.
LEMMA AbsentIsNoFile == Absent \notin Identities /\ Absent \notin Gates
<1>1. ASSUME NEW x \in Identities PROVE x # Absent
  <2>1. "config" \in DOMAIN x
    BY DEF Identities
  <2>2. "config" \notin DOMAIN Absent
    BY DEF Absent
  <2> QED BY <2>1, <2>2
<1>2. ASSUME NEW x \in Gates PROVE x # Absent
  <2>1. "nth" \in DOMAIN x
    BY DEF Gates
  <2>2. "nth" \notin DOMAIN Absent
    BY DEF Absent
  <2> QED BY <2>1, <2>2
<1> QED BY <1>1, <1>2

\* Nobody is at work at the place of no call.
LEMMA WorkIsNoIdling ==
  /\ \A c \in Work : c # NoCall /\ c.at # "idle"
  /\ NoCall.at = "idle" /\ NoCall \in Calls
  /\ \A c \in Calls : c # NoCall <=> c \in Work
<1>1. ASSUME NEW c \in Work PROVE c.at # "idle"
  BY DEF Work, Points, Writing
<1>2. NoCall.at = "idle"
  BY DEF NoCall
<1> QED BY <1>1, <1>2 DEF Calls, Work

\* An invocation at work has the fields of one, and so has its directory.
LEMMA WorkHasFields ==
  ASSUME IInv, NEW p \in Invokers, AtWork(p)
  PROVE  /\ call[p] \in Work /\ call[p].of \in Experiments /\ call[p].pre \in Identities
         /\ call[p].at \in Points /\ call[p].half \in BOOLEAN
         /\ dir[call[p].of] \in Dirs
         /\ DirIsSound(dir[call[p].of]) /\ CallIsSound(call[p], dir[call[p].of])
<1>1. call[p] \in Work
  BY WorkIsNoIdling DEF IInv, TypeOK, AtWork
<1>2. call[p].of \in Experiments /\ call[p].pre \in Identities
      /\ call[p].at \in Points /\ call[p].half \in BOOLEAN
  BY <1>1 DEF Work
<1> QED BY <1>1, <1>2 DEF IInv, TypeOK, Delivery

\* An invocation moves from its call to c, and leaves d of its directory: either it is the
\* one that makes the directory, or it disturbs nothing that another one knows.
Gentle(d, e) ==
  /\ d.made = dir[e].made /\ d.metadata = dir[e].metadata /\ d.snapshot = dir[e].snapshot
  /\ d.status # NoStatus <=> dir[e].status # NoStatus
  /\ dir[e].outputs => d.outputs

Unshared(p) ==
  \A q \in Invokers \ {p} :
    AtWork(q) /\ call[q].of = call[p].of => call[q].at \in {"open", "make"}

Leaves(p, c, d) ==
  /\ call' = [call EXCEPT ![p] = c]
  /\ dir' = [dir EXCEPT ![call[p].of] = d]

LEMMA LeavingIsSound ==
  ASSUME IInv, NEW p \in Invokers, AtWork(p), NEW c \in Calls, NEW d \in Dirs,
         Leaves(p, c, d),
         c # NoCall => c.of = call[p].of /\ CallIsSound(c, d),
         c # NoCall /\ c.half => c.at \in DOMAIN Writing,
         DirIsSound(d),
         \/ Unshared(p)
         \/ Gentle(d, call[p].of) /\ (c # NoCall => ~Making(c)),
         reported' \subseteq Experiments, contested' \subseteq Experiments,
         faults' \in 0..MaxFaults, UNCHANGED <<gates, surroundings>>
  PROVE  IInv'
<1> DEFINE e == call[p].of
<1>0. e \in Experiments
  BY WorkHasFields
<1>1. /\ \A q \in Invokers : call'[q] = IF q = p THEN c ELSE call[q]
      /\ \A x \in Experiments : dir'[x] = IF x = e THEN d ELSE dir[x]
  BY <1>0 DEF Leaves, IInv, TypeOK
<1> HIDE DEF e
<1>2. TypeOK'
  BY DEF Leaves, IInv, TypeOK, gates, surroundings
<1>3. \A x \in Experiments : DirIsSound(dir'[x])
  BY <1>1 DEF IInv, Delivery
<1>4. ASSUME NEW q \in Invokers, AtWork(q)'
      PROVE  CallIsSound(call'[q], dir'[call'[q].of])
  <2>1. CASE q = p
    BY <1>0, <1>1, <1>4, <2>1 DEF AtWork, e
  <2>2. CASE q # p
    <3>1. AtWork(q) /\ call'[q] = call[q]
      BY <1>1, <1>4, <2>2 DEF AtWork
    <3>2. call[q].of \in Experiments /\ CallIsSound(call[q], dir[call[q].of])
      BY <3>1, WorkHasFields
    <3>3. CASE call[q].of # e
      BY <1>1, <3>1, <3>2, <3>3
    <3>4. CASE call[q].of = e
      <4>1. CASE Unshared(p)
        <5>1. call[q].at \in {"open", "make"}
          BY <2>2, <3>1, <3>4, <4>1 DEF Unshared, e
        <5>2. CallIsSound(call[q], d)
          BY <5>1 DEF CallIsSound
        <5> QED BY <1>0, <1>1, <3>1, <3>4, <5>2
      <4>2. CASE Gentle(d, e)
        <5>1. CallIsSound(call[q], dir[e])
          BY <3>2, <3>4
        <5>2. CallIsSound(call[q], d)
          BY <4>2, <5>1 DEF CallIsSound, Gentle
        <5> QED BY <1>0, <1>1, <3>1, <3>4, <5>2
      <4> QED BY <4>1, <4>2 DEF e
    <3> QED BY <3>3, <3>4
  <2> QED BY <2>1, <2>2
<1>5. OneMaker'
  <2> SUFFICES ASSUME NEW q \in Invokers, NEW r \in Invokers, Making(call'[q]), Making(call'[r]),
                      call'[q].of = call'[r].of
               PROVE  q = r
    BY DEF OneMaker, Making
  <2>1. CASE q # p /\ r # p
    BY <1>1, <2>1 DEF IInv, Delivery, OneMaker
  <2>2. ASSUME NEW s \in Invokers, s # p, Making(call'[s]), Making(c), call'[s].of = c.of
        PROVE  FALSE
    <3>1. c # NoCall /\ c.of = e
      BY <2>2, WorkIsNoIdling DEF Making, e
    <3>2. call'[s] = call[s] /\ AtWork(s)
      BY <1>1, <2>2, WorkIsNoIdling DEF Making, AtWork
    <3>3. Unshared(p) /\ call[s].of = e
      BY <2>2, <3>1, <3>2
    <3>4. call[s].at \in {"open", "make"}
      BY <2>2, <3>2, <3>3 DEF Unshared, e
    <3> QED BY <2>2, <3>2, <3>4 DEF Making
  <2> QED BY <1>1, <2>1, <2>2
<1>6. HalvesAreWritten'
  BY <1>1 DEF IInv, Delivery, HalvesAreWritten, AtWork
<1> QED BY <1>2, <1>3, <1>4, <1>5, <1>6 DEF IInv, Delivery

\* An invocation that goes on is the same one, somewhere else.
Moved(p, point) == [call[p] EXCEPT !.at = point, !.half = FALSE]

LEMMA GoingOn ==
  ASSUME IInv, NEW p \in Invokers, AtWork(p), NEW point \in Points
  PROVE  /\ Moved(p, point) \in Calls /\ Moved(p, point) # NoCall
         /\ Moved(p, point).of = call[p].of /\ Moved(p, point).pre = call[p].pre
         /\ Moved(p, point).at = point /\ Moved(p, point).half = FALSE
         /\ Goto(p, point) => call' = [call EXCEPT ![p] = Moved(p, point)]
<1>1. call[p] \in Work /\ call \in [Invokers -> Calls]
  BY WorkHasFields DEF IInv, TypeOK
<1>2. Moved(p, point) \in Work
  BY <1>1 DEF Work, Moved
<1>3. /\ Moved(p, point).of = call[p].of /\ Moved(p, point).pre = call[p].pre
      /\ Moved(p, point).at = point /\ Moved(p, point).half = FALSE
  BY <1>1 DEF Work, Moved
<1>4. ASSUME Goto(p, point) PROVE call' = [call EXCEPT ![p] = Moved(p, point)]
  <2> DEFINE there == [call EXCEPT ![p].at = point]
  <2>1. call' = [there EXCEPT ![p].half = FALSE]
    BY <1>4 DEF Goto
  <2>2. there = [call EXCEPT ![p] = [call[p] EXCEPT !.at = point]]
    OBVIOUS
  <2>3. there[p] = [call[p] EXCEPT !.at = point] /\ DOMAIN there = Invokers
    BY <1>1, <2>2
  <2>4. call' = [there EXCEPT ![p] = [there[p] EXCEPT !.half = FALSE]]
    BY <2>1
  <2>5. [there[p] EXCEPT !.half = FALSE] = Moved(p, point)
    BY <1>1, <2>3 DEF Work, Moved
  <2> QED BY <1>1, <2>2, <2>4, <2>5
<1>5. Moved(p, point) \in Calls /\ Moved(p, point) # NoCall
  BY <1>2, WorkIsNoIdling DEF Calls, Work
<1> QED BY <1>3, <1>4, <1>5

\* What the steps that leave the directory alone have in common.
LEMMA DirectoryUntouched ==
  ASSUME IInv, NEW p \in Invokers, AtWork(p), UNCHANGED dir
  PROVE  /\ dir' = [dir EXCEPT ![call[p].of] = dir[call[p].of]]
         /\ Gentle(dir[call[p].of], call[p].of)
  BY WorkHasFields DEF IInv, TypeOK, Gentle

\* The call ends, or goes on to a place where nothing more is to be known.
LEMMA ReturnIsSound ==
  ASSUME IInv, NEW p \in Invokers, AtWork(p), Return(p), UNCHANGED dir,
         reported' \subseteq Experiments, contested' \subseteq Experiments,
         faults' \in 0..MaxFaults, UNCHANGED <<gates, surroundings>>
  PROVE  IInv'
<1>1. Leaves(p, NoCall, dir[call[p].of]) /\ Gentle(dir[call[p].of], call[p].of)
  BY DirectoryUntouched DEF Leaves, Return
<1> QED BY <1>1, WorkHasFields, WorkIsNoIdling, LeavingIsSound

LEMMA OpenIsSound ==
  ASSUME IInv, NEW p \in Invokers, Open(p)
  PROVE  IInv'
<1>0. AtWork(p)
  BY DEF Open, AtWork, NoCall
<1>1. /\ UNCHANGED <<dir, gates, surroundings, faults>>
      /\ reported' \subseteq Experiments /\ contested' \subseteq Experiments
      /\ faults' \in 0..MaxFaults
  BY <1>0, WorkHasFields DEF Open, Resume, IInv, TypeOK
<1>2. Return(p) \/ (Resumable(p) /\ Goto(p, "running"))
  BY DEF Open
<1>3. CASE Resumable(p) /\ Goto(p, "running")
  <2> DEFINE d == dir[call[p].of]
             c == Moved(p, "running")
  <2>1. d.metadata = call[p].pre /\ d.status # NoStatus /\ DirIsSound(d) /\ d \in Dirs
    BY <1>0, <1>3, WorkHasFields DEF Resumable
  <2>2. d.made /\ d.snapshot = call[p].pre
    BY <2>1 DEF DirIsSound, NoDir
  <2>3. "running" \in Points
    BY DEF Points, Writing
  <2>4. c \in Calls /\ c.of = call[p].of /\ c.pre = call[p].pre /\ c.at = "running"
        /\ ~c.half /\ call' = [call EXCEPT ![p] = c]
    BY <1>0, <1>3, <2>3, GoingOn
  <2>5. Leaves(p, c, d) /\ Gentle(d, call[p].of)
    BY <1>0, <1>1, <2>4, DirectoryUntouched DEF Leaves
  <2> HIDE DEF c, d
  <2>6. CallIsSound(c, d) /\ ~Making(c)
    BY <2>1, <2>2, <2>4 DEF CallIsSound, Making
  <2> QED BY <1>0, <1>1, <2>1, <2>4, <2>5, <2>6, LeavingIsSound
<1> QED BY <1>0, <1>1, <1>2, <1>3, ReturnIsSound

\* While nobody has given it a status, a directory has one maker at most, and nobody
\* else is further than opening it.
LEMMA MakersAreAlone ==
  ASSUME IInv, NEW p \in Invokers, AtWork(p),
         \/ Making(call[p])
         \/ ~dir[call[p].of].made
  PROVE  Unshared(p)
<1> SUFFICES ASSUME NEW q \in Invokers, q # p, AtWork(q), call[q].of = call[p].of,
                    call[q].at \notin {"open", "make"}
             PROVE  FALSE
  BY DEF Unshared
<1> DEFINE d == dir[call[p].of]
<1>1. CallIsSound(call[q], d) /\ DirIsSound(d) /\ CallIsSound(call[p], d)
      /\ call[q].at # "idle" /\ call[q].half \in BOOLEAN /\ call[p].half \in BOOLEAN
      /\ d.status \in Statuses \cup {NoStatus}
  BY WorkHasFields, WorkIsNoIdling DEF Dirs
<1> HIDE DEF d
<1>2. d.made
  BY <1>1 DEF CallIsSound
<1>3. Making(call[p])
  BY <1>2 DEF d
<1>4. ~Making(call[q])
  BY <1>3 DEF IInv, Delivery, OneMaker
<1>5. d.status = NoStatus
  BY <1>1, <1>3 DEF Making, CallIsSound
<1>6. d.status # NoStatus
  BY <1>1, <1>4 DEF Making, CallIsSound
<1> QED BY <1>5, <1>6

\* What an invocation that goes on to point leaves behind, d in place of its directory.
LEMMA GoingIsSound ==
  ASSUME IInv, NEW p \in Invokers, AtWork(p), NEW point \in Points, NEW d \in Dirs,
         Goto(p, point), dir' = [dir EXCEPT ![call[p].of] = d],
         DirIsSound(d), CallIsSound(Moved(p, point), d),
         \/ Unshared(p)
         \/ Gentle(d, call[p].of) /\ point \notin {"metadata", "snapshot", "prepared"},
         reported' \subseteq Experiments, contested' \subseteq Experiments,
         faults' \in 0..MaxFaults, UNCHANGED <<gates, surroundings>>
  PROVE  IInv'
<1> DEFINE c == Moved(p, point)
<1>1. /\ c \in Calls /\ c # NoCall /\ c.of = call[p].of /\ c.at = point /\ ~c.half
      /\ call' = [call EXCEPT ![p] = c]
  BY GoingOn
<1>2. CallIsSound(c, d)
  OBVIOUS
<1> HIDE DEF c
<1>3. Leaves(p, c, d)
  BY <1>1 DEF Leaves
<1>4. \/ Unshared(p)
      \/ Gentle(d, call[p].of) /\ (c # NoCall => ~Making(c))
  BY <1>1 DEF Making
<1> QED BY <1>1, <1>2, <1>3, <1>4, LeavingIsSound

LEMMA MakeIsSound ==
  ASSUME IInv, NEW p \in Invokers, Make(p)
  PROVE  IInv'
<1>0. AtWork(p)
  BY DEF Make, AtWork, NoCall
<1>1. /\ UNCHANGED <<gates, surroundings, reported, contested, faults>>
      /\ reported' \subseteq Experiments /\ contested' \subseteq Experiments
      /\ faults' \in 0..MaxFaults
  BY DEF Make, IInv, TypeOK
<1> DEFINE e == call[p].of
<1>2. CASE dir[e].made
  BY <1>0, <1>1, <1>2, ReturnIsSound DEF Make
<1>3. CASE ~dir[e].made
  <2> DEFINE d == [dir[e] EXCEPT !.made = TRUE]
  <2>1. dir[e] = NoDir /\ dir[e] \in Dirs
    BY <1>0, <1>3, WorkHasFields DEF DirIsSound
  <2>2. d = [NoDir EXCEPT !.made = TRUE] /\ d \in Dirs
    BY <2>1 DEF Dirs, NoDir
  <2>3. /\ d.made /\ d.metadata = Absent /\ d.snapshot = Absent /\ d.status = NoStatus
        /\ d.markers = {}
    BY <2>2 DEF NoDir
  <2>4. dir' = [dir EXCEPT ![e] = d] /\ Goto(p, "metadata")
    BY <1>3 DEF Make
  <2>5. "metadata" \in Points
    BY DEF Points
  <2>6. Moved(p, "metadata").at = "metadata"
    BY <1>0, <2>5, GoingOn
  <2> HIDE DEF d
  <2>7. CallIsSound(Moved(p, "metadata"), d) /\ DirIsSound(d)
    BY <2>3, <2>6 DEF CallIsSound, DirIsSound, NoStatus
  <2>8. Unshared(p)
    BY <1>0, <1>3, MakersAreAlone
  <2> QED BY <1>0, <1>1, <2>2, <2>4, <2>5, <2>7, <2>8, GoingIsSound
<1> QED BY <1>2, <1>3

LEMMA WriteMetadataIsSound ==
  ASSUME IInv, NEW p \in Invokers, WriteMetadata(p)
  PROVE  IInv'
<1>0. AtWork(p) /\ call[p].at = "metadata"
  BY DEF WriteMetadata, AtWork, NoCall
<1>1. /\ UNCHANGED <<gates, surroundings, reported, contested, faults>>
      /\ reported' \subseteq Experiments /\ contested' \subseteq Experiments
      /\ faults' \in 0..MaxFaults
  BY DEF WriteMetadata, IInv, TypeOK
<1> DEFINE e == call[p].of
           d == [dir[e] EXCEPT !.metadata = call[p].pre]
<1>2. /\ dir[e] \in Dirs /\ call[p].pre \in Identities
      /\ DirIsSound(dir[e]) /\ CallIsSound(call[p], dir[e])
  BY <1>0, WorkHasFields
<1>3. /\ d \in Dirs /\ d.metadata = call[p].pre
      /\ d.made = dir[e].made /\ d.snapshot = dir[e].snapshot /\ d.status = dir[e].status
      /\ d.markers = dir[e].markers /\ d.outputs = dir[e].outputs
  BY <1>2 DEF Dirs
<1>4. dir' = [dir EXCEPT ![e] = d] /\ Goto(p, "snapshot")
  BY DEF WriteMetadata
<1>5. dir[e].made /\ dir[e].snapshot = Absent /\ dir[e].status = NoStatus
  BY <1>0, <1>2 DEF CallIsSound
<1>6. "snapshot" \in Points
  BY DEF Points
<1>7. Moved(p, "snapshot").at = "snapshot" /\ Moved(p, "snapshot").pre = call[p].pre
  BY <1>0, <1>6, GoingOn
<1> HIDE DEF d
<1>8. CallIsSound(Moved(p, "snapshot"), d) /\ DirIsSound(d)
  BY <1>2, <1>3, <1>5, <1>7 DEF CallIsSound, DirIsSound, NoStatus
<1>9. Unshared(p)
  BY <1>0, MakersAreAlone DEF Making
<1> QED BY <1>0, <1>1, <1>3, <1>4, <1>6, <1>8, <1>9, GoingIsSound

LEMMA WriteSnapshotIsSound ==
  ASSUME IInv, NEW p \in Invokers, WriteSnapshot(p)
  PROVE  IInv'
<1>0. AtWork(p) /\ call[p].at = "snapshot"
  BY DEF WriteSnapshot, AtWork, NoCall
<1>1. /\ UNCHANGED <<gates, surroundings, reported, contested, faults>>
      /\ reported' \subseteq Experiments /\ contested' \subseteq Experiments
      /\ faults' \in 0..MaxFaults
  BY DEF WriteSnapshot, IInv, TypeOK
<1> DEFINE e == call[p].of
           d == [dir[e] EXCEPT !.snapshot = call[p].pre]
<1>2. CASE Return(p) /\ UNCHANGED dir
  BY <1>0, <1>1, <1>2, ReturnIsSound
<1>3. CASE dir' = [dir EXCEPT ![e].snapshot = call[p].pre] /\ Goto(p, "prepared")
  <2>2. /\ dir[e] \in Dirs /\ call[p].pre \in Identities
        /\ DirIsSound(dir[e]) /\ CallIsSound(call[p], dir[e])
    BY <1>0, WorkHasFields
  <2>3. /\ d \in Dirs /\ d.snapshot = call[p].pre
        /\ d.made = dir[e].made /\ d.metadata = dir[e].metadata /\ d.status = dir[e].status
        /\ d.markers = dir[e].markers /\ d.outputs = dir[e].outputs
    BY <2>2 DEF Dirs
  <2>4. dir' = [dir EXCEPT ![e] = d] /\ Goto(p, "prepared")
    BY <1>3
  <2>5. dir[e].made /\ dir[e].metadata = call[p].pre /\ dir[e].status = NoStatus
    BY <1>0, <2>2 DEF CallIsSound
  <2>6. "prepared" \in Points
    BY DEF Points, Writing
  <2>7. /\ Moved(p, "prepared").at = "prepared" /\ Moved(p, "prepared").pre = call[p].pre
        /\ Moved(p, "prepared").half = FALSE
    BY <1>0, <2>6, GoingOn
  <2> HIDE DEF d
  <2>8. CallIsSound(Moved(p, "prepared"), d) /\ DirIsSound(d)
    BY <2>2, <2>3, <2>5, <2>7 DEF CallIsSound, DirIsSound, NoStatus
  <2>9. Unshared(p)
    BY <1>0, MakersAreAlone DEF Making
  <2> QED BY <1>0, <1>1, <2>3, <2>4, <2>6, <2>8, <2>9, GoingIsSound
<1> QED BY <1>2, <1>3 DEF WriteSnapshot

\* Only the place "completed" writes COMPLETED.
LEMMA WhatIsWritten ==
  ASSUME NEW point \in DOMAIN Writing
  PROVE  /\ point \in Points /\ point \notin {"open", "make", "metadata", "snapshot"}
         /\ Writing[point] \in Statuses /\ Writing[point] # NoStatus
         /\ Writing[point] = "COMPLETED" <=> point = "completed"
<1>1. point \in {"prepared", "running", "completed", "failed"}
  BY DEF Writing
<1>2. /\ Writing["prepared"] = "PREPARED" /\ Writing["running"] = "RUNNING"
      /\ Writing["completed"] = "COMPLETED" /\ Writing["failed"] = "FAILED"
  BY DEF Writing
<1> QED BY <1>1, <1>2 DEF Points, Statuses, NoStatus

\* An invocation past the snapshot has a directory that is whole but for its status.
LEMMA PastTheSnapshot ==
  ASSUME IInv, NEW p \in Invokers, AtWork(p),
         call[p].at \notin {"open", "make", "metadata", "snapshot"}
  PROVE  LET d == dir[call[p].of] IN
           /\ d.made /\ d.metadata = call[p].pre /\ d.snapshot = call[p].pre
           /\ d.metadata # Absent
           /\ call[p].at # "prepared" => d.status # NoStatus
<1>1. /\ call[p].pre \in Identities /\ call[p].at # "idle"
      /\ CallIsSound(call[p], dir[call[p].of])
  BY WorkHasFields, WorkIsNoIdling
<1> QED BY <1>1, AbsentIsNoFile DEF CallIsSound

LEMMA WriteStatusIsSound ==
  ASSUME IInv, NEW p \in Invokers, WriteStatus(p)
  PROVE  IInv'
<1>0. AtWork(p) /\ call[p].at \in DOMAIN Writing /\ ~call[p].half
  BY DEF WriteStatus, AtWork, NoCall, Writing
<1>1. /\ UNCHANGED <<gates, surroundings, reported, contested, faults>>
      /\ reported' \subseteq Experiments /\ contested' \subseteq Experiments
      /\ faults' \in 0..MaxFaults
  BY DEF WriteStatus, IInv, TypeOK
<1> DEFINE e == call[p].of
           d == [dir[e] EXCEPT !.status = Writing[call[p].at]]
           c == [call[p] EXCEPT !.half = TRUE]
<1>2. /\ dir[e] \in Dirs /\ call[p] \in Work
      /\ DirIsSound(dir[e]) /\ CallIsSound(call[p], dir[e])
  BY <1>0, WorkHasFields
<1>3. /\ d \in Dirs /\ d.status = Writing[call[p].at] /\ d.status # NoStatus
      /\ d.made = dir[e].made /\ d.metadata = dir[e].metadata /\ d.snapshot = dir[e].snapshot
      /\ d.markers = dir[e].markers /\ d.outputs = dir[e].outputs
  BY <1>0, <1>2, WhatIsWritten DEF Dirs
<1>4. /\ c \in Work /\ c.at = call[p].at /\ c.of = call[p].of /\ c.pre = call[p].pre
      /\ c.half = TRUE
  BY <1>2 DEF Work
<1>5. Leaves(p, c, d)
  BY <1>2 DEF WriteStatus, Leaves
<1>6. /\ dir[e].made /\ dir[e].metadata = call[p].pre /\ dir[e].snapshot = call[p].pre
      /\ dir[e].metadata # Absent /\ (call[p].at # "prepared" => dir[e].status # NoStatus)
  BY <1>0, WhatIsWritten, PastTheSnapshot
<1>7. /\ d.status = "COMPLETED" => call[p].at = "completed"
      /\ call[p].at \notin {"idle", "open", "make", "metadata", "snapshot"}
  BY <1>0, <1>3, WhatIsWritten DEF Writing
<1> HIDE DEF d, c
<1>8. CallIsSound(c, d) /\ DirIsSound(d)
  BY <1>2, <1>3, <1>4, <1>6, <1>7 DEF CallIsSound, DirIsSound
<1>9. \/ Unshared(p)
      \/ Gentle(d, call[p].of) /\ (c # NoCall => ~Making(c))
  <2>1. CASE call[p].at = "prepared"
    BY <1>0, <2>1, MakersAreAlone DEF Making
  <2>2. CASE call[p].at # "prepared"
    BY <1>3, <1>4, <1>6, <1>7, <2>2 DEF Gentle, Making
  <2> QED BY <2>1, <2>2
<1>10. c \in Calls
  BY <1>4 DEF Calls, Work
<1>11. c.of = call[p].of /\ c.at \in DOMAIN Writing
  BY <1>0, <1>4
<1> QED BY <1>0, <1>1, <1>3, <1>5, <1>8, <1>9, <1>10, <1>11, LeavingIsSound

LEMMA WriteMarkerIsSound ==
  ASSUME IInv, NEW p \in Invokers, WriteMarker(p)
  PROVE  IInv'
<1>0. AtWork(p) /\ call[p].at \in DOMAIN Writing /\ call[p].half
  BY DEF WriteMarker, AtWork, NoCall, Writing
<1> DEFINE e == call[p].of
           d == [dir[e] EXCEPT !.markers = @ \cup {Writing[call[p].at]}]
<1>1. /\ UNCHANGED <<gates, surroundings, faults>>
      /\ reported' \subseteq Experiments /\ contested' \subseteq Experiments
      /\ faults' \in 0..MaxFaults
  BY <1>0, WorkHasFields DEF WriteMarker, IInv, TypeOK
<1>2. /\ dir[e] \in Dirs /\ DirIsSound(dir[e]) /\ CallIsSound(call[p], dir[e])
  BY <1>0, WorkHasFields
<1>3. /\ d \in Dirs /\ d.status = dir[e].status /\ d.made = dir[e].made
      /\ d.metadata = dir[e].metadata /\ d.snapshot = dir[e].snapshot
      /\ d.markers = dir[e].markers \cup {Writing[call[p].at]} /\ d.outputs = dir[e].outputs
  BY <1>0, <1>2, WhatIsWritten DEF Dirs
<1>4. dir' = [dir EXCEPT ![e] = d]
  BY DEF WriteMarker
<1>5. /\ dir[e].made /\ dir[e].metadata = call[p].pre /\ dir[e].snapshot = call[p].pre
      /\ dir[e].metadata # Absent /\ (call[p].at # "prepared" => dir[e].status # NoStatus)
  BY <1>0, WhatIsWritten, PastTheSnapshot
<1>6. dir[e].status # NoStatus
  BY <1>0, <1>2, <1>5 DEF CallIsSound
<1>7. /\ "COMPLETED" \in d.markers => "COMPLETED" \in dir[e].markers \/ call[p].at = "completed"
      /\ call[p].at = "completed" => dir[e].outputs
  BY <1>0, <1>2, <1>3, WhatIsWritten DEF CallIsSound
<1> HIDE DEF d
<1>8. DirIsSound(d) /\ Gentle(d, e)
  BY <1>2, <1>3, <1>5, <1>6, <1>7 DEF DirIsSound, Gentle
<1>9. ASSUME NEW point \in {"running", "execute"}, Goto(p, point)
      PROVE  IInv'
  <2>1. point \in Points
    BY DEF Points, Writing
  <2>2. Moved(p, point).at = point /\ Moved(p, point).pre = call[p].pre
    BY <1>0, <2>1, GoingOn
  <2>3. CallIsSound(Moved(p, point), d)
    BY <1>3, <1>5, <1>6, <2>2 DEF CallIsSound
  <2> QED BY <1>0, <1>1, <1>3, <1>4, <1>8, <1>9, <2>1, <2>3, GoingIsSound
<1>10. CASE Return(p)
  <2>1. Leaves(p, NoCall, d)
    BY <1>4, <1>10 DEF Leaves, Return
  <2> QED BY <1>0, <1>1, <1>3, <1>8, <2>1, WorkIsNoIdling, LeavingIsSound
<1>11. Goto(p, "running") \/ Goto(p, "execute") \/ Return(p)
  BY DEF WriteMarker
<1> QED BY <1>9, <1>10, <1>11

\* The executor leaves outputs or not, and the call goes on or ends: what is on record
\* of the run stays as it is.
LEMMA OutputsAreSound ==
  ASSUME IInv, NEW p \in Invokers, AtWork(p), NEW written \in BOOLEAN,
         call[p].at \notin {"open", "make", "metadata", "snapshot", "prepared"}
  PROVE  LET d == [dir[call[p].of] EXCEPT !.outputs = @ \/ written]
         IN  /\ d \in Dirs /\ DirIsSound(d) /\ Gentle(d, call[p].of)
             /\ d.outputs = (dir[call[p].of].outputs \/ written)
             /\ d.made /\ d.metadata = call[p].pre /\ d.snapshot = call[p].pre
             /\ d.status # NoStatus
<1> DEFINE e == call[p].of
           d == [dir[e] EXCEPT !.outputs = @ \/ written]
<1>1. dir[e] \in Dirs /\ DirIsSound(dir[e])
  BY WorkHasFields
<1>2. /\ d \in Dirs /\ d.outputs = (dir[e].outputs \/ written)
      /\ d.made = dir[e].made /\ d.metadata = dir[e].metadata /\ d.snapshot = dir[e].snapshot
      /\ d.status = dir[e].status /\ d.markers = dir[e].markers
  BY <1>1 DEF Dirs
<1>3. /\ dir[e].made /\ dir[e].metadata = call[p].pre /\ dir[e].snapshot = call[p].pre
      /\ dir[e].metadata # Absent /\ dir[e].status # NoStatus
  BY PastTheSnapshot
<1> HIDE DEF d
<1>4. DirIsSound(d) /\ Gentle(d, e)
  BY <1>1, <1>2, <1>3 DEF DirIsSound, Gentle
<1> QED BY <1>2, <1>3, <1>4 DEF d

\* To where an invocation goes from its executor, everything it is to know is known.
LEMMA AfterTheExecutor ==
  ASSUME IInv, NEW p \in Invokers, AtWork(p), NEW point \in {"outputs", "completed", "failed"},
         NEW d, d.made, d.metadata = call[p].pre, d.snapshot = call[p].pre,
         d.status # NoStatus, point = "completed" => d.outputs
  PROVE  CallIsSound(Moved(p, point), d)
<1>1. point \in Points
  BY DEF Points, Writing
<1>2. Moved(p, point).at = point /\ Moved(p, point).pre = call[p].pre
  BY <1>1, GoingOn
<1> QED BY <1>2 DEF CallIsSound

LEMMA ExecutorIsSound ==
  ASSUME IInv, NEW p \in Invokers, ExecutorReturns(p) \/ ExecutorFails(p)
  PROVE  IInv'
<1>0. AtWork(p) /\ call[p].at = "execute"
  BY DEF ExecutorReturns, ExecutorFails, AtWork, NoCall
<1> DEFINE e == call[p].of
           d(written) == [dir[e] EXCEPT !.outputs = @ \/ written]
<1>1. /\ UNCHANGED <<gates, surroundings, reported, contested>>
      /\ reported' \subseteq Experiments /\ contested' \subseteq Experiments
      /\ faults' \in 0..MaxFaults
  BY BoundsAssumption DEF ExecutorReturns, ExecutorFails, IInv, TypeOK
<1>2. dir \in [Experiments -> Dirs] /\ dir[e] \in Dirs
  BY <1>0, WorkHasFields DEF IInv, TypeOK
<1>3. PICK written \in BOOLEAN : dir' = [dir EXCEPT ![e] = d(written)]
  <2>1. CASE dir' = [dir EXCEPT ![e].outputs = TRUE]
    <3>1. dir' = [dir EXCEPT ![e] = d(TRUE)]
      BY <1>2, <2>1
    <3> QED BY <3>1
  <2>2. CASE UNCHANGED dir
    <3>1. d(FALSE) = dir[e]
      BY <1>2 DEF Dirs
    <3>2. dir' = [dir EXCEPT ![e] = d(FALSE)]
      BY <1>2, <2>2, <3>1
    <3> QED BY <3>2
  <2>3. CASE \E w \in BOOLEAN : dir' = [dir EXCEPT ![e].outputs = @ \/ w]
    <3>1. PICK w \in BOOLEAN : dir' = [dir EXCEPT ![e].outputs = @ \/ w]
      BY <2>3
    <3>2. dir' = [dir EXCEPT ![e] = d(w)]
      BY <3>1
    <3> QED BY <3>2
  <2> QED BY <2>1, <2>2, <2>3 DEF ExecutorReturns, ExecutorFails
<1>4. /\ d(written) \in Dirs /\ DirIsSound(d(written)) /\ Gentle(d(written), e)
      /\ d(written).made /\ d(written).metadata = call[p].pre
      /\ d(written).snapshot = call[p].pre /\ d(written).status # NoStatus
  BY <1>0, OutputsAreSound
<1> HIDE DEF d
<1>5. PICK point \in {"outputs", "failed"} : Goto(p, point)
  BY DEF ExecutorReturns, ExecutorFails
<1>6. point \in Points
  BY DEF Points, Writing
<1>7. CallIsSound(Moved(p, point), d(written))
  BY <1>0, <1>4, AfterTheExecutor
<1> QED BY <1>0, <1>1, <1>3, <1>4, <1>5, <1>6, <1>7, GoingIsSound

LEMMA CheckOutputsIsSound ==
  ASSUME IInv, NEW p \in Invokers, CheckOutputs(p)
  PROVE  IInv'
<1>0. AtWork(p) /\ call[p].at = "outputs"
  BY DEF CheckOutputs, AtWork, NoCall
<1> DEFINE e == call[p].of
           d == dir[e]
<1>1. /\ UNCHANGED <<gates, surroundings, reported, contested>>
      /\ reported' \subseteq Experiments /\ contested' \subseteq Experiments
      /\ faults' \in 0..MaxFaults
  BY DEF CheckOutputs, IInv, TypeOK
<1>2. /\ d \in Dirs /\ DirIsSound(d) /\ Gentle(d, e) /\ dir' = [dir EXCEPT ![e] = d]
  BY <1>0, WorkHasFields, DirectoryUntouched DEF CheckOutputs
<1>3. d.made /\ d.metadata = call[p].pre /\ d.snapshot = call[p].pre /\ d.status # NoStatus
  BY <1>0, PastTheSnapshot
<1>4. PICK point \in {"completed", "failed"} :
        Goto(p, point) /\ (point = "completed" => d.outputs)
  BY DEF CheckOutputs
<1>5. point \in Points
  BY DEF Points, Writing
<1> HIDE DEF d
<1>6. CallIsSound(Moved(p, point), d)
  BY <1>0, <1>3, <1>4, AfterTheExecutor
<1> QED BY <1>0, <1>1, <1>2, <1>4, <1>5, <1>6, GoingIsSound

\* Ctrl-C and failing writes: the handler goes on to FAILED; a COMPLETED under way is of a
\* run that has its outputs.
LEMMA InterruptIsSound ==
  ASSUME IInv, NEW p \in Invokers, Interrupt(p)
  PROVE  IInv'
<1>0. AtWork(p) /\ call[p].at \in {"execute", "outputs", "completed"}
  BY DEF Interrupt
<1> DEFINE e == call[p].of
<1>1. /\ UNCHANGED <<gates, surroundings, reported, contested>>
      /\ reported' \subseteq Experiments /\ contested' \subseteq Experiments
      /\ faults' \in 0..MaxFaults /\ Goto(p, "failed")
  BY BoundsAssumption DEF Interrupt, IInv, TypeOK
<1>2. /\ dir[e] \in Dirs /\ DirIsSound(dir[e]) /\ CallIsSound(call[p], dir[e])
      /\ call[p].half \in BOOLEAN
  BY <1>0, WorkHasFields
<1>3. PICK happened \in BOOLEAN :
        dir' = [dir EXCEPT
          ![e].outputs = @ \/ (happened /\ call[p].at = "execute"),
          ![e].markers = IF happened /\ call[p].half THEN @ \cup {"COMPLETED"} ELSE @]
  BY DEF Interrupt
<1> DEFINE written == happened /\ call[p].at = "execute"
           marked == happened /\ call[p].half
           half == [dir[e] EXCEPT !.outputs = @ \/ written]
           d == [half EXCEPT !.markers = IF marked THEN @ \cup {"COMPLETED"} ELSE @]
<1>4. /\ half \in Dirs /\ DirIsSound(half) /\ Gentle(half, e)
      /\ half.outputs = (dir[e].outputs \/ written)
      /\ half.made /\ half.metadata = call[p].pre /\ half.snapshot = call[p].pre
      /\ half.status # NoStatus
  <2>1. written \in BOOLEAN
    OBVIOUS
  <2> HIDE DEF written
  <2> QED BY <1>0, <2>1, OutputsAreSound
<1>5. dir' = [dir EXCEPT ![e] = d]
  BY <1>2, <1>3 DEF IInv, TypeOK
<1>6. marked => half.outputs
  <2>1. marked => call[p].at = "completed"
    <3>1. call[p].half => call[p].at \in DOMAIN Writing
      BY <1>0 DEF IInv, Delivery, HalvesAreWritten
    <3>2. DOMAIN Writing = {"prepared", "running", "completed", "failed"}
      BY DEF Writing
    <3> QED BY <1>0, <3>1, <3>2
  <2> QED BY <1>2, <1>4, <2>1 DEF CallIsSound
<1> HIDE DEF half, marked
<1>7. /\ d \in Dirs /\ d.outputs = half.outputs /\ d.status = half.status
      /\ d.made = half.made /\ d.metadata = half.metadata /\ d.snapshot = half.snapshot
      /\ d.markers = IF marked THEN half.markers \cup {"COMPLETED"} ELSE half.markers
  BY <1>4 DEF Dirs, Statuses
<1> HIDE DEF d
<1>8. DirIsSound(d) /\ Gentle(d, e)
  BY <1>4, <1>6, <1>7 DEF DirIsSound, Gentle
<1>9. "failed" \in Points
  BY DEF Points, Writing
<1>10. CallIsSound(Moved(p, "failed"), d)
  BY <1>0, <1>4, <1>7, AfterTheExecutor
<1> QED BY <1>0, <1>1, <1>5, <1>7, <1>8, <1>9, <1>10, GoingIsSound

LEMMA CrashIsSound ==
  ASSUME IInv, NEW p \in Invokers, Crash(p)
  PROVE  IInv'
<1>0. AtWork(p)
  BY DEF Crash
<1> DEFINE e == call[p].of
<1>1. /\ UNCHANGED <<gates, surroundings, reported, contested>>
      /\ reported' \subseteq Experiments /\ contested' \subseteq Experiments
      /\ faults' \in 0..MaxFaults /\ Return(p)
  BY BoundsAssumption DEF Crash, IInv, TypeOK
<1>2. PICK written \in BOOLEAN :
        dir' = [dir EXCEPT ![e].outputs = @ \/ (written /\ call[p].at = "execute")]
  BY DEF Crash
<1>3. dir[e] \in Dirs /\ dir \in [Experiments -> Dirs]
  BY <1>0, WorkHasFields DEF IInv, TypeOK
<1>4. CASE call[p].at = "execute"
  <2> DEFINE d == [dir[e] EXCEPT !.outputs = @ \/ written]
  <2>1. d \in Dirs /\ DirIsSound(d) /\ Gentle(d, e)
    BY <1>0, <1>4, OutputsAreSound
  <2>2. dir' = [dir EXCEPT ![e] = d]
    BY <1>2, <1>4
  <2> HIDE DEF d
  <2>3. Leaves(p, NoCall, d)
    BY <1>1, <2>2 DEF Leaves, Return
  <2> QED BY <1>0, <1>1, <2>1, <2>3, WorkIsNoIdling, LeavingIsSound
<1>5. CASE call[p].at # "execute"
  <2>1. dir' = [dir EXCEPT ![e] = [dir[e] EXCEPT !.outputs = @ \/ FALSE]]
    BY <1>2, <1>5
  <2>2. [dir[e] EXCEPT !.outputs = @ \/ FALSE] = dir[e]
    BY <1>3 DEF Dirs
  <2>3. UNCHANGED dir
    BY <1>0, <1>3, <2>1, <2>2
  <2> QED BY <1>0, <1>1, <2>3, ReturnIsSound
<1> QED BY <1>4, <1>5

\* A check reads and begins an invocation, which knows nothing of its directory yet.
LEMMA PreflightIsTyped ==
  ASSUME IInv, NEW e \in Experiments
  PROVE  Preflight(e) \in Identities
<1>1. config[e] \in 0..MaxChanges /\ Selected(e) \in 0..MaxChanges
  BY BoundsAssumption DEF IInv, TypeOK, Selected
<1>2. [u \in Experiments |-> IF u \in Requires[e] THEN gate[u] ELSE Absent]
        \in [Experiments -> Gates \cup {Absent}]
  BY DEF IInv, TypeOK
<1> QED BY <1>1, <1>2 DEF Preflight, Resolved, Identities

LEMMA CheckIsSound ==
  ASSUME IInv, NEW p \in Invokers, NEW e \in Experiments, NEW resume \in BOOLEAN,
         Check(p, e, resume)
  PROVE  IInv'
<1> DEFINE c == [at |-> IF resume THEN "open" ELSE "make", of |-> e,
                 pre |-> Preflight(e), half |-> FALSE]
<1>1. /\ call' = [call EXCEPT ![p] = c]
      /\ UNCHANGED <<dir, gates, surroundings, reported, contested, faults>>
  BY DEF Check
<1>2. c \in Work
  BY PreflightIsTyped DEF Work, Points
<1>3. c.at \in {"open", "make"} /\ ~c.half /\ c.of = e
  OBVIOUS
<1> HIDE DEF c
<1>4. c \in Calls
  BY <1>2 DEF Work, Calls
<1>5. TypeOK'
  BY <1>1, <1>4 DEF IInv, TypeOK, gates, surroundings
<1>6. \A q \in Invokers : call'[q] = IF q = p THEN c ELSE call[q]
  BY <1>1 DEF IInv, TypeOK
<1>7. CallIsSound(c, dir[e])
  BY <1>3 DEF CallIsSound
<1>8. ~Making(c)
  BY <1>3 DEF Making
<1>9. /\ \A x \in Experiments : DirIsSound(dir'[x])
      /\ \A q \in Invokers : AtWork(q)' => CallIsSound(call'[q], dir'[call'[q].of])
  BY <1>1, <1>3, <1>6, <1>7 DEF IInv, Delivery, AtWork
<1>10. OneMaker' /\ HalvesAreWritten'
  BY <1>3, <1>6, <1>8 DEF IInv, Delivery, OneMaker, HalvesAreWritten, AtWork
<1> QED BY <1>5, <1>9, <1>10 DEF IInv, Delivery

\* Evaluations, gate records, edits and new readings touch no run directory.
LEMMA ElsewhereIsSound ==
  ASSUME IInv, TypeOK', UNCHANGED <<dir, call>>
  PROVE  IInv'
  BY DEF IInv, Delivery, OneMaker, HalvesAreWritten, AtWork, Making

LEMMA RecorderIsTyped ==
  ASSUME IInv,
         \/ \E e \in Gated, status \in {"PASS", "FAIL"} : Evaluate(e, status)
         \/ \E r \in recording : RecordGate(r)
  PROVE  TypeOK' /\ UNCHANGED <<dir, call>>
<1>1. ASSUME NEW e \in Gated, NEW status \in {"PASS", "FAIL"}, Evaluate(e, status)
      PROVE  TypeOK' /\ UNCHANGED <<dir, call>>
  <2>1. e \in Experiments
    BY RegistryAssumption DEF Gated
  <2>2. evaluated[e] \in 0..MaxRecords /\ evaluated' = [evaluated EXCEPT ![e] = evaluated[e] + 1]
        /\ evaluated[e] + 1 \in 1..MaxRecords
    BY <1>1, <2>1, BoundsAssumption DEF Evaluate, IInv, TypeOK
  <2>3. evaluated'[e] \in 1..MaxRecords /\ evaluated' \in [Experiments -> 0..MaxRecords]
    BY <2>1, <2>2, BoundsAssumption DEF IInv, TypeOK
  <2>4. [of |-> e, record |-> [status |-> status, nth |-> evaluated'[e]]]
          \in [of : Experiments, record : Gates]
    BY <2>1, <2>3 DEF Gates
  <2> QED BY <1>1, <2>3, <2>4 DEF Evaluate, IInv, TypeOK, surroundings
<1>2. ASSUME NEW r \in recording, RecordGate(r)
      PROVE  TypeOK' /\ UNCHANGED <<dir, call>>
  <2>1. r.of \in Experiments /\ r.record \in Gates
    BY DEF IInv, TypeOK
  <2>2. gate' \in [Experiments -> Gates \cup {Absent}]
    BY <1>2, <2>1 DEF RecordGate, IInv, TypeOK
  <2>3. overwritten' \in [Experiments -> SUBSET Gates]
    <3>1. overwritten[r.of] \cup ({gate[r.of]} \ {Absent}) \in SUBSET Gates
      BY <2>1 DEF IInv, TypeOK
    <3> QED BY <1>2, <2>1, <3>1 DEF RecordGate, IInv, TypeOK
  <2> QED BY <1>2, <2>2, <2>3 DEF RecordGate, IInv, TypeOK, surroundings
<1> QED BY <1>1, <1>2

LEMMA EditIsTyped ==
  ASSUME IInv, (\E e \in Experiments : EditConfig(e)) \/ ReadingsChange
  PROVE  TypeOK' /\ UNCHANGED <<dir, call>>
<1>1. changes \in 0..MaxChanges /\ changes < MaxChanges /\ changes' = changes + 1
  BY DEF IInv, TypeOK, EditConfig, ReadingsChange
<1>2. changes' \in 0..MaxChanges
  BY <1>1, BoundsAssumption
<1> QED BY <1>2 DEF IInv, TypeOK, EditConfig, ReadingsChange, gates

LEMMA InitIInv == Init => IInv
<1> SUFFICES ASSUME Init PROVE IInv
  OBVIOUS
<1>1. NoDir \in Dirs /\ DirIsSound(NoDir)
  BY DEF NoDir, Dirs, DirIsSound, NoStatus
<1>2. TypeOK
  BY <1>1, BoundsAssumption DEF Init, TypeOK, Calls
<1>3. \A p \in Invokers : ~AtWork(p) /\ ~Making(call[p])
  BY DEF Init, AtWork, Making, NoCall
<1> QED BY <1>1, <1>2, <1>3 DEF Init, IInv, Delivery, OneMaker, HalvesAreWritten

LEMMA NextIInv ==
  ASSUME IInv, [Next]_vars
  PROVE  IInv'
<1>1. CASE UNCHANGED vars
  BY <1>1, ElsewhereIsSound DEF vars, gates, surroundings, IInv, TypeOK
<1>2. ASSUME NEW p \in Invokers,
             \/ \E e \in Experiments, resume \in BOOLEAN : Check(p, e, resume)
             \/ Step(p) \/ ExecutorFails(p) \/ Interrupt(p) \/ Crash(p)
      PROVE  IInv'
  BY <1>2, CheckIsSound, OpenIsSound, MakeIsSound, WriteMetadataIsSound, WriteSnapshotIsSound,
     WriteStatusIsSound, WriteMarkerIsSound, ExecutorIsSound, CheckOutputsIsSound,
     InterruptIsSound, CrashIsSound DEF Step
<1>3. ASSUME \/ \E e \in Gated, status \in {"PASS", "FAIL"} : Evaluate(e, status)
             \/ \E r \in recording : RecordGate(r)
      PROVE  IInv'
  BY <1>3, RecorderIsTyped, ElsewhereIsSound
<1>4. ASSUME (\E e \in Experiments : EditConfig(e)) \/ ReadingsChange
      PROVE  IInv'
  BY <1>4, EditIsTyped, ElsewhereIsSound
<1> QED BY <1>1, <1>2, <1>3, <1>4 DEF Next

\* The directories, and what each invocation knows of its own, are sound in every
\* reachable state.
THEOREM Invariance == Spec => []IInv
  BY InitIInv, NextIInv, PTL DEF Spec

\* COMPLETED, as a status or as a marker, is only ever found on a run that has its outputs
\* and the snapshots of its identity, even with several invocations of one run at once
\* (execution_pack.py:816-875).
THEOREM DeliveryIsComplete == Spec => []CompletedIsDelivered
<1>1. IInv => CompletedIsDelivered
  <2> SUFFICES ASSUME IInv, NEW e \in Experiments,
                      dir[e].status = "COMPLETED" \/ "COMPLETED" \in dir[e].markers
               PROVE  /\ dir[e].outputs /\ dir[e].metadata # Absent
                      /\ dir[e].snapshot = dir[e].metadata
    BY DEF CompletedIsDelivered
  <2>1. DirIsSound(dir[e])
    BY DEF IInv, Delivery
  <2>2. dir[e].outputs /\ dir[e].status # NoStatus
    BY <2>1 DEF DirIsSound, NoStatus
  <2> QED BY <2>1, <2>2 DEF DirIsSound
<1> QED BY <1>1, Invariance, PTL

-----------------------------------------------------------------------------
\* What an invocation at work may do to what others see: it moves alone, keeps what it was
\* checked with, writes to its own directory, and reports a completed run as it ends.
Own(p) == Step(p) \/ ExecutorFails(p) \/ Interrupt(p) \/ Crash(p)

GoesOn(p) ==
  \/ Return(p)
  \/ \E point \in Points : Goto(p, point)
  \/ call' = [call EXCEPT ![p].half = TRUE] /\ WriteStatus(p)

LEMMA OwnStepsGoOn ==
  ASSUME IInv, NEW p \in Invokers, Own(p)
  PROVE  AtWork(p) /\ GoesOn(p) /\ UNCHANGED gates /\ contested \subseteq contested'
<1>1. AtWork(p)
  <2>1. \/ call[p].at \in {"open", "make", "metadata", "snapshot", "execute", "outputs"}
        \/ call[p].at \in DOMAIN Writing
        \/ AtWork(p)
    BY DEF Own, Step, Open, Make, WriteMetadata, WriteSnapshot, WriteStatus, WriteMarker,
           ExecutorReturns, ExecutorFails, CheckOutputs, Interrupt, Crash
  <2>2. "idle" \notin DOMAIN Writing
    BY DEF Writing
  <2> QED BY <2>1, <2>2, WorkIsNoIdling DEF AtWork
<1>2. {"metadata", "snapshot", "prepared", "running", "execute", "outputs", "completed", "failed"}
        \subseteq Points
  BY DEF Points, Writing
<1>3. Return(p) \/ (\E point \in Points : Goto(p, point))
      \/ (WriteStatus(p) /\ call' = [call EXCEPT ![p].half = TRUE])
  BY <1>2
  DEF Own, Step, Open, Make, WriteMetadata, WriteSnapshot, WriteStatus, WriteMarker,
      ExecutorReturns, ExecutorFails, CheckOutputs, Interrupt, Crash
<1>4. UNCHANGED gates /\ contested \subseteq contested'
  BY DEF Own, Step, Open, Resume, Make, WriteMetadata, WriteSnapshot, WriteStatus, WriteMarker,
         ExecutorReturns, ExecutorFails, CheckOutputs, Interrupt, Crash
<1> QED BY <1>1, <1>3, <1>4 DEF GoesOn

LEMMA CallsStayTheirOwn ==
  ASSUME IInv, NEW p \in Invokers, Own(p)
  PROVE  /\ \A q \in Invokers \ {p} : call'[q] = call[q]
         /\ \A q \in Invokers : AtWork(q)' =>
              AtWork(q) /\ call'[q].of = call[q].of /\ call'[q].pre = call[q].pre
         /\ AtWork(p)' /\ call'[p].half =>
              WriteStatus(p) /\ call'[p].at = call[p].at
<1>1. AtWork(p) /\ GoesOn(p) /\ call[p] \in Work /\ call \in [Invokers -> Calls]
  BY OwnStepsGoOn, WorkHasFields DEF IInv, TypeOK
<1>2. CASE Return(p)
  BY <1>1, <1>2 DEF Return, AtWork
<1>3. ASSUME NEW point \in Points, Goto(p, point)
      PROVE  /\ \A q \in Invokers \ {p} : call'[q] = call[q]
             /\ call'[p].of = call[p].of /\ call'[p].pre = call[p].pre /\ ~call'[p].half
  <2> DEFINE c == Moved(p, point)
  <2>1. c.of = call[p].of /\ c.pre = call[p].pre /\ ~c.half /\ call' = [call EXCEPT ![p] = c]
    BY <1>1, <1>3, GoingOn
  <2> HIDE DEF c
  <2> QED BY <1>1, <2>1
<1>4. ASSUME call' = [call EXCEPT ![p].half = TRUE]
      PROVE  /\ \A q \in Invokers \ {p} : call'[q] = call[q]
             /\ call'[p].of = call[p].of /\ call'[p].pre = call[p].pre
             /\ call'[p].at = call[p].at
  BY <1>1, <1>4 DEF Work
<1> QED BY <1>1, <1>2, <1>3, <1>4 DEF GoesOn, AtWork

-----------------------------------------------------------------------------
\* A gate on file stays there, or becomes one of those that were replaced.
LEMMA GatesStay ==
  ASSUME GateIInv, [Next]_vars
  PROVE  \A u \in Experiments :
           /\ gate[u] # Absent =>
                gate'[u] # Absent /\ (gate'[u] = gate[u] \/ gate[u] \in overwritten'[u])
           /\ overwritten[u] \subseteq overwritten'[u]
<1>1. ASSUME NEW r \in recording, RecordGate(r), NEW u \in Experiments
      PROVE  /\ gate[u] # Absent =>
                  gate'[u] # Absent /\ (gate'[u] = gate[u] \/ gate[u] \in overwritten'[u])
             /\ overwritten[u] \subseteq overwritten'[u]
  <2>1. r.of \in Experiments /\ r.record # Absent
    BY AbsentIsNoFile DEF GateIInv, IInv, TypeOK
  <2> QED BY <1>1, <2>1 DEF RecordGate, GateIInv, IInv, TypeOK
<1>2. CASE UNCHANGED <<gate, overwritten>>
  BY <1>2
<1>3. CASE \E p \in Invokers : Own(p)
  BY <1>2, <1>3, OwnStepsGoOn DEF GateIInv, gates
<1> QED BY <1>1, <1>2, <1>3
        DEF Next, vars, gates, Own, Check, Evaluate, EditConfig, ReadingsChange

LEMMA PreflightsGoOnStanding ==
  ASSUME GateIInv, [Next]_vars
  PROVE  PreflightStands'
<1> DEFINE Stands(checked, u) ==
             /\ checked # Absent /\ checked.status = "PASS" /\ gate'[u] # Absent
             /\ gate'[u] = checked \/ checked \in overwritten'[u]
<1> SUFFICES ASSUME NEW q \in Invokers, AtWork(q)', NEW u \in Requires[call'[q].of]
             PROVE  Stands(call'[q].pre.gates[u], u)
  BY DEF PreflightStands
<1>1. CASE AtWork(q) /\ call'[q].of = call[q].of /\ call'[q].pre = call[q].pre
  <2>1. u \in Requires[call[q].of] /\ call[q].of \in Experiments
    BY <1>1, WorkHasFields DEF GateIInv
  <2>2. u \in Experiments
    BY <2>1, RegistryAssumption
  <2>3. PICK checked : checked = call[q].pre.gates[u]
    OBVIOUS
  <2>4. /\ checked # Absent /\ checked.status = "PASS" /\ gate[u] # Absent
        /\ gate[u] = checked \/ checked \in overwritten[u]
    BY <1>1, <2>1, <2>3 DEF GateIInv, PreflightStands
  <2>5. Stands(checked, u)
    BY <2>2, <2>4, GatesStay
  <2> QED BY <1>1, <2>3, <2>5
<1>2. ASSUME NEW e \in Experiments, NEW resume \in BOOLEAN, Check(q, e, resume)
      PROVE  Stands(call'[q].pre.gates[u], u)
  <2>1. call'[q].of = e /\ call'[q].pre = Preflight(e) /\ UNCHANGED gate /\ GatesPass(e)
    BY <1>2 DEF Check, GateIInv, IInv, TypeOK, gates
  <2>2. u \in Requires[e] /\ u \in Experiments
    BY <2>1, RegistryAssumption
  <2> QED BY <2>1, <2>2 DEF GatesPass, Preflight
<1>3. ASSUME NEW p \in Invokers, NEW e \in Experiments, NEW resume \in BOOLEAN,
             Check(p, e, resume), p # q
      PROVE  AtWork(q) /\ call'[q].of = call[q].of /\ call'[q].pre = call[q].pre
  <2>1. call'[q] = call[q]
    BY <1>3 DEF Check, GateIInv, IInv, TypeOK
  <2> QED BY <2>1 DEF AtWork
<1>4. ASSUME NEW p \in Invokers, Own(p)
      PROVE  AtWork(q) /\ call'[q].of = call[q].of /\ call'[q].pre = call[q].pre
  BY <1>4, CallsStayTheirOwn DEF GateIInv
<1>5. CASE UNCHANGED call
  BY <1>1, <1>5 DEF AtWork
<1> HIDE DEF Stands
<1> QED BY <1>1, <1>2, <1>3, <1>4, <1>5
        DEF Next, vars, Own, Evaluate, RecordGate, EditConfig, ReadingsChange

\* While an experiment executes, its configuration, devices and gates are those of the run's
\* metadata, and every gate it requires passed when it was checked and is on file as it was,
\* or was replaced by the record of another gate_cli that had looked before it was there
\* (execution_pack.py:573-587, 792-809; GateRecord.write, 388-396), however many invocations
\* and gate_clis there are.
THEOREM ExecutionStaysOnRecord == Spec => []ExecutionIsOnRecord
<1>1. Init => GateIInv
  <2> SUFFICES ASSUME Init PROVE PreflightStands
    BY InitIInv DEF GateIInv
  <2> QED BY DEF Init, PreflightStands, AtWork
<1>2. GateIInv /\ [Next]_vars => GateIInv'
  BY NextIInv, PreflightsGoOnStanding DEF GateIInv
<1>3. GateIInv => ExecutionIsOnRecord
  <2> SUFFICES ASSUME GateIInv, NEW p \in Invokers, AtWork(p), call[p].at = "execute"
               PROVE  dir[call[p].of].metadata = call[p].pre
    BY DEF ExecutionIsOnRecord, GateIInv, PreflightStands
  <2> QED BY PastTheSnapshot DEF GateIInv
<1> QED BY <1>1, <1>2, <1>3, PTL DEF Spec

-----------------------------------------------------------------------------
\* What an invocation does to run directories: to its own only; a status is written by
\* WriteStatus, and one that opens its directory leaves it as it is.
LEMMA DirectoriesOfOthers ==
  ASSUME IInv, NEW p \in Invokers, Own(p)
  PROVE  /\ \A e \in Experiments : e # call[p].of => dir'[e] = dir[e]
         /\ ~WriteStatus(p) => dir'[call[p].of].status = dir[call[p].of].status
         /\ WriteStatus(p) => dir'[call[p].of].status = Writing[call[p].at]
<1>1. /\ AtWork(p) /\ call[p].of \in Experiments
      /\ dir \in [Experiments -> Dirs] /\ dir[call[p].of] \in Dirs
  BY OwnStepsGoOn, WorkHasFields DEF IInv, TypeOK
<1>2. CASE UNCHANGED dir /\ ~WriteStatus(p)
  BY <1>2
<1>3. CASE WriteStatus(p)
  BY <1>1, <1>3 DEF WriteStatus, Dirs
<1>4. CASE (WriteMetadata(p) \/ WriteSnapshot(p) \/ Make(p)) /\ ~WriteStatus(p)
  BY <1>1, <1>4 DEF WriteMetadata, WriteSnapshot, Make, Dirs
<1>5. CASE WriteMarker(p) /\ ~WriteStatus(p)
  BY <1>1, <1>5 DEF WriteMarker, Dirs
<1>6. CASE (ExecutorReturns(p) \/ ExecutorFails(p) \/ Crash(p)) /\ ~WriteStatus(p)
  <2>1. \/ UNCHANGED dir
        \/ dir' = [dir EXCEPT ![call[p].of].outputs = TRUE]
        \/ \E written \in BOOLEAN :
             \/ dir' = [dir EXCEPT ![call[p].of].outputs = @ \/ written]
             \/ dir' = [dir EXCEPT ![call[p].of].outputs = @ \/ (written /\ call[p].at = "execute")]
    BY <1>6 DEF ExecutorReturns, ExecutorFails, Crash
  <2>2. CASE dir' = [dir EXCEPT ![call[p].of].outputs = TRUE]
    BY <1>1, <1>6, <2>2 DEF Dirs
  <2>3. ASSUME NEW written, dir' = [dir EXCEPT ![call[p].of].outputs = @ \/ written]
        PROVE  /\ \A e \in Experiments : e # call[p].of => dir'[e] = dir[e]
               /\ dir'[call[p].of].status = dir[call[p].of].status
    BY <1>1, <2>3 DEF Dirs
  <2> QED BY <1>2, <1>6, <2>1, <2>2, <2>3
<1>7. CASE Interrupt(p) /\ ~WriteStatus(p)
  <2>1. PICK happened \in BOOLEAN :
          dir' = [dir EXCEPT
            ![call[p].of].outputs = @ \/ (happened /\ call[p].at = "execute"),
            ![call[p].of].markers = IF happened /\ call[p].half THEN @ \cup {"COMPLETED"} ELSE @]
    BY <1>7 DEF Interrupt
  <2> QED BY <1>1, <1>7, <2>1 DEF Dirs
<1> QED BY <1>2, <1>3, <1>4, <1>5, <1>6, <1>7 DEF Own, Step, Open, CheckOutputs

\* What an invocation reports is a run of its own that is COMPLETED on file, or that it has
\* just completed; then it ends.  If it opened the run while another ran it, that is known.
LEMMA ReportsOfOnesOwn ==
  ASSUME IInv, NEW p \in Invokers, Own(p), NEW e \in Experiments, e \in reported', e \notin reported
  PROVE  /\ e = call[p].of /\ ~AtWork(p)' /\ ~WriteStatus(p)
         /\ \/ /\ dir[e].status = "COMPLETED"
               /\ \A q \in Invokers \ {p} : Running(call[q]) /\ call[q].of = e => e \in contested'
            \/ call[p].at = "completed" /\ call[p].half
<1>1. Open(p) \/ WriteMarker(p)
  BY DEF Own, Step, Make, WriteMetadata, WriteSnapshot, WriteStatus, WriteMarker,
         ExecutorReturns, ExecutorFails, CheckOutputs, Interrupt, Crash
<1>2. call \in [Invokers -> Calls]
  BY DEF IInv, TypeOK
<1>3. CASE Open(p)
  <2>1. /\ call[p].at = "open" /\ Resume(p) /\ dir[call[p].of].status = "COMPLETED"
        /\ Return(p) /\ reported' = reported \cup {call[p].of}
    BY <1>3 DEF Open
  <2>2. "open" \notin DOMAIN Writing
    BY DEF Writing
  <2> QED BY <1>2, <2>1, <2>2 DEF Resume, Return, AtWork, WriteStatus
<1>4. CASE WriteMarker(p)
  <2>1. /\ call[p].at = "completed" /\ call[p].half
        /\ Return(p) /\ reported' = reported \cup {call[p].of}
    BY <1>4 DEF WriteMarker
  <2> QED BY <1>2, <2>1 DEF Return, AtWork, WriteStatus
<1> QED BY <1>1, <1>3, <1>4

\* An invocation that has a completed run before it ends or stays where it is.
LEMMA OpenedIsNotRun ==
  ASSUME IInv, NEW p \in Invokers, Own(p), call[p].at \in {"open", "make"},
         dir[call[p].of].status = "COMPLETED"
  PROVE  ~AtWork(p)' /\ ~WriteStatus(p)
<1>1. "open" \notin DOMAIN Writing /\ "make" \notin DOMAIN Writing
  BY DEF Writing
<1>2. dir[call[p].of].made
  BY OwnStepsGoOn, WorkHasFields DEF DirIsSound, NoDir, NoStatus
<1>3. Return(p)
  BY <1>1, <1>2 DEF Own, Step, Open, Make, WriteMetadata, WriteSnapshot, WriteStatus, WriteMarker,
                    ExecutorReturns, ExecutorFails, CheckOutputs, Interrupt, Crash
<1> QED BY <1>1, <1>3 DEF Return, AtWork, WriteStatus, IInv, TypeOK

\* Who begins to run a run has made its directory, or has opened it.
LEMMA RunnersBegin ==
  ASSUME IInv, NEW p \in Invokers, Own(p), Running(call'[p]), ~Running(call[p])
  PROVE  Unshared(p) \/ Resume(p)
<1>1. AtWork(p) /\ call[p].at \in {"open", "make"}
  BY OwnStepsGoOn DEF Running, AtWork
<1>2. "open" \notin DOMAIN Writing /\ "make" \notin DOMAIN Writing
  BY DEF Writing
<1>3. ~Return(p)
  BY DEF Return, Running, IInv, TypeOK
<1>4. Resume(p) \/ ~dir[call[p].of].made
  BY <1>1, <1>2, <1>3
  DEF Own, Step, Open, Make, WriteMetadata, WriteSnapshot, WriteStatus, WriteMarker,
      ExecutorReturns, ExecutorFails, CheckOutputs, Interrupt, Crash
<1> QED BY <1>1, <1>4, MakersAreAlone

LEMMA RunnersStayAlone ==
  ASSUME ReportIInv, [Next]_vars
  PROVE  OneRunner'
<1>0. IInv /\ OneRunner /\ call \in [Invokers -> Calls]
  BY DEF ReportIInv, IInv, TypeOK
<1>1. ASSUME NEW p \in Invokers, NEW e \in Experiments, NEW resume \in BOOLEAN,
             Check(p, e, resume)
      PROVE  OneRunner'
  <2>1. /\ \A q \in Invokers \ {p} : call'[q] = call[q]
        /\ ~Running(call'[p]) /\ UNCHANGED contested
    BY <1>0, <1>1 DEF Check, Running
  <2> QED BY <1>0, <2>1 DEF OneRunner
<1>2. ASSUME NEW p \in Invokers, Own(p)
      PROVE  OneRunner'
  <2>1. /\ \A q \in Invokers \ {p} : call'[q] = call[q]
        /\ AtWork(p) /\ (Running(call'[p]) => call'[p].of = call[p].of)
        /\ contested \subseteq contested'
    BY <1>0, <1>2, CallsStayTheirOwn, OwnStepsGoOn DEF Running, AtWork
  <2>2. ASSUME NEW q \in Invokers, q # p, Running(call[q]), Running(call'[p]),
               call[q].of = call[p].of
        PROVE  call[p].of \in contested'
    <3>1. CASE Running(call[p])
      BY <1>0, <2>1, <2>2, <3>1 DEF OneRunner
    <3>2. CASE Resume(p)
      BY <2>2, <3>2 DEF Resume
    <3>3. ~Unshared(p)
      BY <2>2 DEF Unshared, Running, AtWork
    <3> QED BY <1>0, <1>2, <2>2, <3>1, <3>2, <3>3, RunnersBegin
  <2> QED BY <1>0, <2>1, <2>2 DEF OneRunner
<1>3. CASE UNCHANGED <<call, contested>>
  BY <1>0, <1>3 DEF OneRunner, Running
<1> QED BY <1>1, <1>2, <1>3 DEF Next, vars, Own, Evaluate, RecordGate, EditConfig, ReadingsChange

LEMMA ReportsGoOnFile ==
  ASSUME ReportIInv, [Next]_vars
  PROVE  ReportIsOnFile'
<1> SUFFICES ASSUME NEW q \in Invokers, call'[q].at = "completed", call'[q].half,
                    call'[q].of \notin contested'
             PROVE  dir'[call'[q].of].status = "COMPLETED"
  BY DEF ReportIsOnFile
<1>1. call \in [Invokers -> Calls] /\ AtWork(q)'
  BY WorkIsNoIdling DEF ReportIInv, IInv, TypeOK, AtWork
<1>2. CASE UNCHANGED <<dir, call, contested>>
  BY <1>2 DEF ReportIInv, ReportIsOnFile
<1>3. ASSUME NEW p \in Invokers, NEW e \in Experiments, NEW resume \in BOOLEAN,
             Check(p, e, resume)
      PROVE  dir'[call'[q].of].status = "COMPLETED"
  <2>1. call'[p].at # "completed" /\ UNCHANGED <<dir, contested>>
    BY <1>1, <1>3 DEF Check
  <2>2. call'[q] = call[q]
    BY <1>1, <1>3, <2>1 DEF Check
  <2> QED BY <2>1, <2>2 DEF ReportIInv, ReportIsOnFile
<1>4. ASSUME NEW p \in Invokers, Own(p), p # q
      PROVE  dir'[call'[q].of].status = "COMPLETED"
  <2>1. /\ call'[q] = call[q] /\ AtWork(q) /\ AtWork(p) /\ contested \subseteq contested'
        /\ call[q].of \in Experiments
    BY <1>1, <1>4, CallsStayTheirOwn, OwnStepsGoOn, WorkHasFields DEF ReportIInv
  <2>2. call[q].at = "completed" /\ call[q].half /\ call[q].of \notin contested
    BY <2>1
  <2>3. dir'[call[q].of].status = dir[call[q].of].status
    <3>1. CASE call[q].of # call[p].of
      BY <1>4, <2>1, <3>1, DirectoriesOfOthers DEF ReportIInv
    <3>2. CASE call[q].of = call[p].of
      <4>1. ~WriteStatus(p)
        <5>1. WriteStatus(p) => Running(call[p])
          BY <2>1 DEF WriteStatus, Running, AtWork, Writing
        <5>2. Running(call[q])
          BY <2>1, <2>2 DEF Running, AtWork
        <5> QED BY <1>4, <2>2, <3>2, <5>1, <5>2 DEF ReportIInv, OneRunner
      <4> QED BY <1>4, <3>2, <4>1, DirectoriesOfOthers DEF ReportIInv
    <3> QED BY <3>1, <3>2
  <2> QED BY <2>1, <2>2, <2>3 DEF ReportIInv, ReportIsOnFile
<1>5. ASSUME Own(q)
      PROVE  dir'[call'[q].of].status = "COMPLETED"
  <2>1. WriteStatus(q) /\ call[q].at = "completed" /\ call'[q].of = call[q].of
    BY <1>1, <1>5, CallsStayTheirOwn DEF ReportIInv
  <2>2. dir'[call[q].of].status = Writing["completed"]
    BY <1>5, <2>1, DirectoriesOfOthers DEF ReportIInv
  <2> QED BY <2>1, <2>2 DEF Writing
<1> QED BY <1>2, <1>3, <1>4, <1>5
        DEF Next, vars, Own, Evaluate, RecordGate, EditConfig, ReadingsChange

LEMMA ReportsStayFinal ==
  ASSUME ReportIInv, [Next]_vars
  PROVE  ReportIsFinal'
<1> SUFFICES ASSUME NEW e \in reported', e \notin contested'
             PROVE  /\ dir'[e].status = "COMPLETED"
                    /\ \A q \in Invokers :
                         AtWork(q)' /\ call'[q].of = e => call'[q].at \in {"open", "make"}
  BY DEF ReportIsFinal
<1>0. IInv /\ OneRunner /\ call \in [Invokers -> Calls] /\ e \in Experiments
  <2>1. IInv'
    BY NextIInv DEF ReportIInv
  <2> QED BY <2>1 DEF ReportIInv, IInv, TypeOK
<1>1. CASE UNCHANGED <<dir, call, reported, contested>>
  BY <1>1 DEF ReportIInv, ReportIsFinal, AtWork
<1>2. ASSUME NEW p \in Invokers, NEW x \in Experiments, NEW resume \in BOOLEAN,
             Check(p, x, resume)
      PROVE  /\ dir'[e].status = "COMPLETED"
             /\ \A q \in Invokers :
                  AtWork(q)' /\ call'[q].of = e => call'[q].at \in {"open", "make"}
  <2>1. e \in reported /\ e \notin contested /\ UNCHANGED dir
    BY <1>2 DEF Check
  <2>2. /\ \A q \in Invokers \ {p} : call'[q] = call[q]
        /\ call'[p].at \in {"open", "make"}
    BY <1>0, <1>2 DEF Check
  <2> QED BY <2>1, <2>2 DEF ReportIInv, ReportIsFinal, AtWork
<1>3. ASSUME NEW p \in Invokers, Own(p)
      PROVE  /\ dir'[e].status = "COMPLETED"
             /\ \A q \in Invokers :
                  AtWork(q)' /\ call'[q].of = e => call'[q].at \in {"open", "make"}
  <2>1. /\ AtWork(p) /\ \A q \in Invokers \ {p} : call'[q] = call[q]
        /\ \A q \in Invokers : AtWork(q)' => AtWork(q) /\ call'[q].of = call[q].of
        /\ e \notin contested
    BY <1>0, <1>3, OwnStepsGoOn, CallsStayTheirOwn
  <2>2. CASE e \notin reported
    <3>1. /\ e = call[p].of /\ ~AtWork(p)' /\ ~WriteStatus(p)
          /\ \/ /\ dir[e].status = "COMPLETED"
                /\ \A q \in Invokers \ {p} :
                     Running(call[q]) /\ call[q].of = e => e \in contested'
             \/ call[p].at = "completed" /\ call[p].half
      BY <1>0, <1>3, <2>2, ReportsOfOnesOwn
    <3>2. dir[e].status = "COMPLETED"
      BY <2>1, <3>1 DEF ReportIInv, ReportIsOnFile
    <3>3. dir'[e].status = dir[e].status
      BY <1>0, <1>3, <3>1, DirectoriesOfOthers
    <3>4. ASSUME NEW q \in Invokers, AtWork(q)', call'[q].of = e
          PROVE  call'[q].at \in {"open", "make"}
      <4>1. q # p /\ call'[q] = call[q] /\ AtWork(q)
        BY <2>1, <3>1, <3>4
      <4>2. ~Running(call[q])
        <5>1. CASE call[p].at = "completed" /\ call[p].half
          <6>1. Running(call[p])
            BY <2>1, <5>1 DEF Running, AtWork
          <6> QED BY <1>0, <2>1, <3>1, <3>4, <4>1, <6>1 DEF OneRunner
        <5> QED BY <3>1, <3>4, <4>1, <5>1
      <4> QED BY <4>1, <4>2 DEF Running, AtWork
    <3> QED BY <3>2, <3>3, <3>4
  <2>3. CASE e \in reported
    <3>1. /\ dir[e].status = "COMPLETED"
          /\ \A q \in Invokers : AtWork(q) /\ call[q].of = e => call[q].at \in {"open", "make"}
      BY <2>1, <2>3 DEF ReportIInv, ReportIsFinal
    <3>2. call[p].of = e => ~AtWork(p)' /\ ~WriteStatus(p)
      BY <1>0, <1>3, <2>1, <3>1, OpenedIsNotRun
    <3>3. dir'[e].status = dir[e].status
      BY <1>0, <1>3, <3>2, DirectoriesOfOthers
    <3> QED BY <2>1, <3>1, <3>2, <3>3
  <2> QED BY <2>2, <2>3
<1> QED BY <1>1, <1>2, <1>3
        DEF Next, vars, Own, Evaluate, RecordGate, EditConfig, ReadingsChange

\* "A completed run is a no-op on resume" (docs/experiments/README.md:191): what was reported
\* as completed stays COMPLETED, has its outputs and snapshots, and does not execute again
\* (execution_pack.py:786-829), with any number of invocations, unless one of them resumed
\* the run while another was running it.
THEOREM CompletionStaysTrue == Spec => []CompletionIsTrue
<1>1. Init => ReportIInv
  <2> SUFFICES ASSUME Init PROVE OneRunner /\ ReportIsOnFile /\ ReportIsFinal
    BY InitIInv DEF ReportIInv
  <2> QED BY DEF Init, OneRunner, Running, ReportIsOnFile, ReportIsFinal, AtWork, NoCall
<1>2. ReportIInv /\ [Next]_vars => ReportIInv'
  <2> SUFFICES ASSUME ReportIInv, [Next]_vars PROVE ReportIInv'
    OBVIOUS
  <2>1. IInv'
    BY NextIInv DEF ReportIInv
  <2> QED BY <2>1, RunnersStayAlone, ReportsGoOnFile, ReportsStayFinal DEF ReportIInv
<1>3. ReportIInv => TypeOK /\ ReportIsFinal
  BY DEF ReportIInv, IInv
<1>4. TypeOK /\ CompletedIsDelivered /\ ReportIsFinal => CompletionIsTrue
  BY DEF CompletionIsTrue
<1> QED BY <1>1, <1>2, <1>3, <1>4, DeliveryIsComplete, PTL DEF Spec
=============================================================================
