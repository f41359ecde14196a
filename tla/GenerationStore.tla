-------------------------- MODULE GenerationStore ---------------------------
(***************************************************************************)
(* Immutable generations published through one pointer                     *)
(* (production/generation.py).  A generation's directory is named after    *)
(* the hash of its artifacts, so it is its artifacts here.  What a         *)
(* publisher writes in its own staging directory nobody else sees; each    *)
(* step below ends in one system call that others do see, and any of them  *)
(* may raise, or be the last of a process that dies.  Names that every     *)
(* component has begin with Pub here, as what is proved of publishing is   *)
(* proved beside the theorems about ProductionImport.                      *)
(***************************************************************************)
CONSTANTS Publishers, Readers,
          Contents,       \* the artifact sets that somebody may publish
          NoContents      \* a pointer file that is not there

ASSUME GenerationAssumption == NoContents \notin Contents

VARIABLES
  directories,   \* the generations/<id> directories
  pointer,       \* the generation that CURRENT.json names
  call,          \* Publishers -> the call of publish at work, or how it ended
  reading        \* Readers -> the pointer a call of current_path has read

pubVars == <<directories, pointer, call, reading>>

Outside == {"not called", "returned", "raised", "died"}
Inside  == {"staging", "staged", "found", "installing", "pointing", "leaving"}

PubCall(at, g) == [at |-> at, artifacts |-> g]
PubCalls == [at : Outside \cup Inside, artifacts : Contents \cup {NoContents}]

PubInit ==
  /\ directories = {}
  /\ pointer = NoContents
  /\ call = [p \in Publishers |-> PubCall("not called", NoContents)]
  /\ reading = [r \in Readers |-> NoContents]

Goto(p, at) == call' = [call EXCEPT ![p].at = at]
Leave(p, how) == call' = [call EXCEPT ![p] = PubCall(how, NoContents)]

\* Mutant of Begin: an empty set of artifacts is not refused.
PublishNothing(p, g) ==
  /\ call[p].at \in Outside
  /\ call' = [call EXCEPT ![p] = PubCall("staging", NoContents)]
  /\ UNCHANGED <<directories, pointer, reading>>

\* publish: the generation's name, and an empty staging directory.
Begin(p, g) ==
  /\ call[p].at \in Outside
  /\ call' = [call EXCEPT ![p] = PubCall("staging", g)]
  /\ UNCHANGED <<directories, pointer, reading>>

\* The artifacts and COMMITTED.json are written to it and validated.
Stage(p) ==
  /\ call[p].at = "staging"
  /\ Goto(p, "staged")
  /\ UNCHANGED <<directories, pointer, reading>>

\* Mutant of LookUp: the pointer need not wait for a directory that is new.
LookUpNothing(p) ==
  /\ call[p].at = "staged"
  /\ Goto(p, "pointing")
  /\ UNCHANGED <<directories, pointer, reading>>

\* destination.exists()
LookUp(p) ==
  /\ call[p].at = "staged"
  /\ Goto(p, IF call[p].artifacts \in directories THEN "found" ELSE "installing")
  /\ UNCHANGED <<directories, pointer, reading>>

\* Mutant of Reuse: a generation that is there already is as good as published.
ReuseAndReturn(p) ==
  /\ call[p].at = "found"
  /\ Goto(p, "leaving")
  /\ UNCHANGED <<directories, pointer, reading>>

\* The generation that was there is validated: it was installed as a whole.
Reuse(p) ==
  /\ call[p].at = "found"
  /\ Goto(p, "pointing")
  /\ UNCHANGED <<directories, pointer, reading>>

\* os.replace of the staging directory, which raises when somebody installed
\* the same generation in the meantime.
Install(p) ==
  /\ call[p].at = "installing"
  /\ call[p].artifacts \notin directories
  /\ directories' = directories \cup {call[p].artifacts}
  /\ Goto(p, "pointing")
  /\ UNCHANGED <<pointer, reading>>

\* The pointer is written aside and replaces CURRENT.json.
Point(p) ==
  /\ call[p].at = "pointing"
  /\ pointer' = call[p].artifacts
  /\ Goto(p, "leaving")
  /\ UNCHANGED <<directories, reading>>

Return(p) ==
  /\ call[p].at = "leaving"
  /\ Leave(p, "returned")
  /\ UNCHANGED <<directories, pointer, reading>>

\* A write, a validation, the failure hook or the removal of the staging
\* directory raises.  Nothing that others see is undone.
GiveUp(p) ==
  /\ call[p].at \in Inside
  /\ Leave(p, "raised")
  /\ UNCHANGED <<directories, pointer, reading>>

\* The staging directory of a process that dies stays; nobody looks at it.
Crash(p) ==
  /\ call[p].at \in Inside
  /\ Leave(p, "died")
  /\ UNCHANGED <<directories, pointer, reading>>

\* current_path: first the pointer, then the directory it names.
ReadPointer(r) ==
  /\ reading[r] = NoContents /\ pointer # NoContents
  /\ reading' = [reading EXCEPT ![r] = pointer]
  /\ UNCHANGED <<directories, pointer, call>>

ReadGeneration(r) ==
  /\ reading[r] \in directories
  /\ reading' = [reading EXCEPT ![r] = NoContents]
  /\ UNCHANGED <<directories, pointer, call>>

PubNext ==
  \/ \E p \in Publishers :
       \/ \E g \in Contents : Begin(p, g)
       \/ Stage(p) \/ LookUp(p) \/ Reuse(p) \/ Install(p) \/ Point(p) \/ Return(p)
       \/ GiveUp(p) \/ Crash(p)
  \/ \E r \in Readers : ReadPointer(r) \/ ReadGeneration(r)

PubSpec == PubInit /\ [][PubNext]_pubVars

-----------------------------------------------------------------------------
PubTypeOK ==
  /\ directories \subseteq Contents
  /\ pointer \in Contents \cup {NoContents}
  /\ call \in [Publishers -> PubCalls]
  /\ reading \in [Readers -> Contents \cup {NoContents}]

\* The importer "atomically switches CURRENT.json only after every artifact is
\* complete" (docs/RUNBOOK.md:113-114; generation.py:115-140): a reader that followed the pointer at any time
\* finds a complete generation there, however publishers raced, raised or died.
ReadersFindTheGeneration ==
  /\ pointer # NoContents => pointer \in directories
  /\ \A r \in Readers : reading[r] # NoContents => reading[r] \in directories

-----------------------------------------------------------------------------
\* The inductive invariant: what a publisher found, or is about to point at, is
\* there, and it has artifacts as long as it is at work.
PointingIsInstalled ==
  \A p \in Publishers :
    call[p].at \in {"found", "pointing"} => call[p].artifacts \in directories

AtWorkOnArtifacts ==
  \A p \in Publishers :
    call[p].at \in Inside <=> call[p].artifacts # NoContents

PubIInv ==
  /\ PubTypeOK /\ PointingIsInstalled /\ AtWorkOnArtifacts /\ ReadersFindTheGeneration

\* A call of publish as a write of the register.
AsWrite(j) ==
  [at |-> CASE j.at \in {"not called", "returned"} -> j.at
            [] j.at \in {"raised", "died"} -> "given up"
            [] j.at = "leaving" -> "taken"
            [] OTHER -> "called",
   value |-> j.artifacts]

Writes == [p \in Publishers |-> AsWrite(call[p])]

Register == INSTANCE AtomicRegister WITH
  Writers <- Publishers, Values <- Contents, Empty <- NoContents,
  value <- pointer, write <- Writes

\* publish is a write of an atomic register: the generation is current from one
\* moment of the call on, before it returns, and a call that raised or died has
\* no effect later (generation.py:75-145).
Implements == Register!ASpec
=============================================================================
