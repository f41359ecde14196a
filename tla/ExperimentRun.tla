---------------------------- MODULE ExperimentRun ----------------------------
(***************************************************************************)
(* Registered experiments and their run directories                        *)
(* (experiments/execution_pack.py) and the gates that stand between them   *)
(* (GateRecord and experiments/gate_cli.py).                               *)
(*                                                                         *)
(* Every experiment has one run id, hence one run directory, which stays   *)
(* for ever once made.  An invocation is a process: `check` reads the      *)
(* gates, the config file and the devices into a preflight, then           *)
(* execute_preflighted makes the directory or resumes it.  Each file is    *)
(* replaced in one step (_atomic_bytes), and a process may die between any *)
(* two of them.  The executor is the experiment's own command: it ends     *)
(* well or not, and writes the required outputs or not.                    *)
(***************************************************************************)
EXTENDS FiniteSets, Naturals

CONSTANTS
  Experiments, Invokers,
  Requires,        \* Experiments -> the experiments whose gates it requires
  Gpu,             \* the experiments that run on selected devices
  EnvReferences,   \* the configs have env:NAME leaves
  MaxRecords,      \* bound: evaluations of one gate that find no record of it
  MaxChanges,      \* bound: edits of a config file, new readings of the devices
  MaxFaults        \* bound: executions that fail, interrupts and crashes

ASSUME RegistryAssumption == Requires \in [Experiments -> SUBSET Experiments]
ASSUME BoundsAssumption ==
  MaxRecords \in Nat /\ MaxChanges \in Nat /\ MaxFaults \in Nat

VARIABLES
  dir,        \* Experiments -> the run directory
  gate,       \* Experiments -> the gate file of the experiment
  config,     \* Experiments -> the version of its config file
  devices,    \* what nvidia-smi reports: free memory and utilization, too
  changes,    \* the edits and readings so far: each makes a version of its own
  call,       \* Invokers -> the invocation at work
  evaluated,  \* Experiments -> how often its gate was evaluated
  recording,  \* the gate records that gate_cli processes are about to write
  reported,   \* the experiments some invocation reported as completed
  contested,  \* history: the runs that were resumed while another invocation ran them
  overwritten,\* history: Experiments -> the gate records that another one replaced
  faults

gates == <<gate, evaluated, recording, overwritten>>
surroundings == <<config, devices, changes>>
vars == <<dir, gates, surroundings, call, reported, contested, faults>>

NoStatus == "none"
Absent == [absent |-> TRUE]       \* a file that is not there
Statuses == {"PREPARED", "RUNNING", "COMPLETED", "FAILED"}

\* A gate record: decided_at makes every evaluation a record of its own.  The
\* evaluations of a gate are numbered in the order in which they write, since
\* nothing else tells them apart.
Gates == [status : {"PASS", "FAIL"}, nth : 1..MaxRecords]

\* The fields of metadata.json that a resume compares and that can differ.
Identities == [config : 0..MaxChanges, devices : 0..MaxChanges,
               gates : [Experiments -> Gates \cup {Absent}]]

\* snapshot stands for config.snapshot.json and upstream-gates.snapshot.json;
\* status for STATUS.json, markers for the files named after a status.
Dirs == [made : BOOLEAN, metadata : Identities \cup {Absent},
         snapshot : Identities \cup {Absent}, status : Statuses \cup {NoStatus},
         markers : SUBSET Statuses, outputs : BOOLEAN]

NoDir == [made |-> FALSE, metadata |-> Absent, snapshot |-> Absent, status |-> NoStatus,
          markers |-> {}, outputs |-> FALSE]

\* Mutant of Writing: a failure is recorded under a name that is no status.
WritingUnknown == [prepared |-> "PREPARED", running |-> "RUNNING",
                   completed |-> "COMPLETED", failed |-> "ERROR"]

\* Where an invocation is.  In the last four it is in _status: first STATUS.json
\* is replaced, then (half) the marker is written.
Writing == [prepared |-> "PREPARED", running |-> "RUNNING",
            completed |-> "COMPLETED", failed |-> "FAILED"]

Points == {"open", "make", "metadata", "snapshot", "execute", "outputs"} \cup DOMAIN Writing

NoCall == [at |-> "idle"]
Calls == [at : Points, of : Experiments, pre : Identities, half : BOOLEAN]
           \cup {NoCall}
AtWork(p) == call[p] # NoCall

Init ==
  /\ dir = [e \in Experiments |-> NoDir]
  /\ gate = [e \in Experiments |-> Absent]
  /\ config = [e \in Experiments |-> 0]
  /\ devices = 0
  /\ changes = 0
  /\ call = [p \in Invokers |-> NoCall]
  /\ evaluated = [e \in Experiments |-> 0]
  /\ recording = {}
  /\ reported = {}
  /\ contested = {}
  /\ overwritten = [e \in Experiments |-> {}]
  /\ faults = 0

-----------------------------------------------------------------------------
\* Reading a config for its hash: the check resolves the env:NAME leaves, so
\* that the hash tells the versions apart ...
Resolved(version) == version

\* ... whereas the snapshot is of the file as it was loaded, whose hash is
\* another one whenever there was something to resolve.
Loaded(version) == IF EnvReferences THEN MaxChanges + 1 ELSE version

GatesPass(e) ==
  \A u \in Requires[e] : gate[u] # Absent /\ gate[u].status = "PASS"

Selected(e) == IF e \in Gpu THEN devices ELSE 0

Preflight(e) ==
  [config |-> Resolved(config[e]), devices |-> Selected(e),
   gates |-> [u \in Experiments |-> IF u \in Requires[e] THEN gate[u] ELSE Absent]]

Goto(p, point) == call' = [call EXCEPT ![p].at = point, ![p].half = FALSE]
Return(p) == call' = [call EXCEPT ![p] = NoCall]

\* check: the required gates are on file and PASS, and --resume is given if and
\* only if the directory exists.  A check that fails leaves everything alone.
\* (It reads the gates before the directory; a gate never goes away.)
Check(p, e, resume) ==
  /\ ~AtWork(p)
  /\ GatesPass(e)
  /\ resume <=> dir[e].made
  /\ call' = [call EXCEPT ![p] = [at |-> IF resume THEN "open" ELSE "make", of |-> e,
                                  pre |-> Preflight(e), half |-> FALSE]]
  /\ UNCHANGED <<dir, gates, surroundings, reported, contested, faults>>

\* Resuming a directory without metadata, with another identity, or without a
\* status (FileNotFoundError) is refused.
Resumable(p) ==
  LET d == dir[call[p].of] IN d.metadata = call[p].pre /\ d.status # NoStatus

\* The call is past what it reads of its directory: it writes there.
Running(c) == c # NoCall /\ c.at \notin {"open", "make"}

\* A run is resumed, whether another invocation has it at work or not.
Resume(p) ==
  contested' = contested \cup
    {e \in {call[p].of} : \E q \in Invokers \ {p} : Running(call[q]) /\ call[q].of = e}

\* Mutant of Open: only a run whose last word was RUNNING is resumed.
OpenInterrupted(p) ==
  /\ call[p].at = "open"
  /\ LET e == call[p].of IN
       \/ ~Resumable(p) /\ Return(p) /\ UNCHANGED <<reported, contested>>
       \/ /\ Resumable(p) /\ Resume(p) /\ dir[e].status # "RUNNING"
          /\ Return(p)
          /\ reported' = IF dir[e].status = "COMPLETED" THEN reported \cup {e} ELSE reported
       \/ /\ Resumable(p) /\ Resume(p) /\ dir[e].status = "RUNNING"
          /\ Goto(p, "running") /\ UNCHANGED reported
  /\ UNCHANGED <<dir, gates, surroundings, faults>>

\* Mutant of Open: the metadata of the directory is not compared.
OpenUnchecked(p) ==
  /\ call[p].at = "open"
  /\ Resume(p)
  /\ LET e == call[p].of IN
       \/ dir[e].status = NoStatus /\ Return(p) /\ UNCHANGED reported
       \/ dir[e].status = "COMPLETED" /\ Return(p) /\ reported' = reported \cup {e}
       \/ /\ dir[e].status \notin {NoStatus, "COMPLETED"}
          /\ Goto(p, "running") /\ UNCHANGED reported
  /\ UNCHANGED <<dir, gates, surroundings, faults>>

\* A completed run is returned as it is; any other runs again.
Open(p) ==
  /\ call[p].at = "open"
  /\ LET e == call[p].of IN
       \/ ~Resumable(p) /\ Return(p) /\ UNCHANGED <<reported, contested>>
       \/ /\ Resumable(p) /\ Resume(p) /\ dir[e].status = "COMPLETED"
          /\ Return(p) /\ reported' = reported \cup {e}
       \/ /\ Resumable(p) /\ Resume(p) /\ dir[e].status # "COMPLETED"
          /\ Goto(p, "running") /\ UNCHANGED reported
  /\ UNCHANGED <<dir, gates, surroundings, faults>>

\* mkdir(exist_ok=False): whoever comes second is refused.
Make(p) ==
  /\ call[p].at = "make"
  /\ LET e == call[p].of IN
       \/ dir[e].made /\ Return(p) /\ UNCHANGED dir
       \/ ~dir[e].made /\ dir' = [dir EXCEPT ![e].made = TRUE] /\ Goto(p, "metadata")
  /\ UNCHANGED <<gates, surroundings, reported, contested, faults>>

WriteMetadata(p) ==
  /\ call[p].at = "metadata"
  /\ dir' = [dir EXCEPT ![call[p].of].metadata = call[p].pre]
  /\ Goto(p, "snapshot")
  /\ UNCHANGED <<gates, surroundings, reported, contested, faults>>

\* The config is loaded again and compared with the preflight; then the two
\* snapshots are written, which nobody looks at before the status is.
WriteSnapshot(p) ==
  /\ call[p].at = "snapshot"
  /\ LET e == call[p].of IN
       \/ Loaded(config[e]) # call[p].pre.config /\ Return(p) /\ UNCHANGED dir
       \/ /\ Loaded(config[e]) = call[p].pre.config
          /\ dir' = [dir EXCEPT ![e].snapshot = call[p].pre]
          /\ Goto(p, "prepared")
  /\ UNCHANGED <<gates, surroundings, reported, contested, faults>>

\* _status, first half: STATUS.json.
WriteStatus(p) ==
  /\ call[p].at \in DOMAIN Writing /\ ~call[p].half
  /\ dir' = [dir EXCEPT ![call[p].of].status = Writing[call[p].at]]
  /\ call' = [call EXCEPT ![p].half = TRUE]
  /\ UNCHANGED <<gates, surroundings, reported, contested, faults>>

\* _status, second half: the marker.  Markers of earlier attempts stay.
WriteMarker(p) ==
  /\ call[p].at \in DOMAIN Writing /\ call[p].half
  /\ LET e == call[p].of IN
       /\ dir' = [dir EXCEPT ![e].markers = @ \cup {Writing[call[p].at]}]
       /\ \/ call[p].at = "prepared" /\ Goto(p, "running") /\ UNCHANGED reported
          \/ call[p].at = "running" /\ Goto(p, "execute") /\ UNCHANGED reported
          \/ call[p].at = "failed" /\ Return(p) /\ UNCHANGED reported
          \/ call[p].at = "completed" /\ Return(p) /\ reported' = reported \cup {e}
  /\ UNCHANGED <<gates, surroundings, contested, faults>>

\* The executor returns 0, with its outputs or (a fault) without them.
ExecutorReturns(p) ==
  /\ call[p].at = "execute"
  /\ Goto(p, "outputs")
  /\ \/ /\ dir' = [dir EXCEPT ![call[p].of].outputs = TRUE]
        /\ UNCHANGED faults
     \/ /\ faults < MaxFaults /\ faults' = faults + 1
        /\ UNCHANGED dir
  /\ UNCHANGED <<gates, surroundings, reported, contested>>

\* Another return code; the outputs may be there all the same.
ExecutorFails(p) ==
  /\ call[p].at = "execute"
  /\ faults < MaxFaults /\ faults' = faults + 1
  /\ \E written \in BOOLEAN : dir' = [dir EXCEPT ![call[p].of].outputs = @ \/ written]
  /\ Goto(p, "failed")
  /\ UNCHANGED <<gates, surroundings, reported, contested>>

\* Mutant of CheckOutputs: a return code of 0 is enough.
CheckNothing(p) ==
  /\ call[p].at = "outputs"
  /\ Goto(p, "completed")
  /\ UNCHANGED <<dir, gates, surroundings, reported, contested, faults>>

\* The required outputs are looked for; those of an earlier attempt count.
CheckOutputs(p) ==
  /\ call[p].at = "outputs"
  /\ Goto(p, IF dir[call[p].of].outputs THEN "completed" ELSE "failed")
  /\ UNCHANGED <<dir, gates, surroundings, reported, contested, faults>>

\* An exception in the try block, Ctrl-C and failing writes included, ends in
\* the handler that writes FAILED.  A write that was under way may have happened,
\* as may the executor's, and COMPLETED may be on record already.
Interrupt(p) ==
  /\ AtWork(p) /\ call[p].at \in {"execute", "outputs", "completed"}
  /\ faults < MaxFaults /\ faults' = faults + 1
  /\ Goto(p, "failed")
  /\ \E happened \in BOOLEAN :
       dir' = [dir EXCEPT
         ![call[p].of].outputs = @ \/ (happened /\ call[p].at = "execute"),
         ![call[p].of].markers = IF happened /\ call[p].half THEN @ \cup {"COMPLETED"} ELSE @]
  /\ UNCHANGED <<gates, surroundings, reported, contested>>

\* The process is killed, or an exception leaves it where no handler is; its
\* executor may still write its outputs.
Crash(p) ==
  /\ AtWork(p)
  /\ faults < MaxFaults /\ faults' = faults + 1
  /\ Return(p)
  /\ \E written \in BOOLEAN :
       dir' = [dir EXCEPT ![call[p].of].outputs = @ \/ (written /\ call[p].at = "execute")]
  /\ UNCHANGED <<gates, surroundings, reported, contested>>

-----------------------------------------------------------------------------
\* The experiments whose gates matter to some other; a gate that nobody requires does not.
Gated == UNION {Requires[e] : e \in Experiments}

\* gate_cli: the result of a run is evaluated, whatever became of the run, and there is no
\* record of the gate.  Where there is one it is left alone: it has another decided_at.
Evaluate(e, status) ==
  /\ dir[e].outputs /\ gate[e] = Absent
  /\ evaluated[e] < MaxRecords /\ evaluated' = [evaluated EXCEPT ![e] = @ + 1]
  /\ recording' = recording \cup
       {[of |-> e, record |-> [status |-> status, nth |-> evaluated'[e]]]}
  /\ UNCHANGED <<dir, gate, overwritten, surroundings, call, reported, contested, faults>>

\* GateRecord.write, having looked: a record that came in between is replaced.
RecordGate(r) ==
  /\ \A other \in recording : other.of = r.of => r.record.nth <= other.record.nth
  /\ gate' = [gate EXCEPT ![r.of] = r.record]
  /\ overwritten' = [overwritten EXCEPT ![r.of] = @ \cup ({gate[r.of]} \ {Absent})]
  /\ recording' = recording \ {r}
  /\ UNCHANGED <<dir, evaluated, surroundings, call, reported, contested, faults>>

\* Somebody edits a config file; the devices' readings change.
EditConfig(e) ==
  /\ changes < MaxChanges /\ changes' = changes + 1
  /\ config' = [config EXCEPT ![e] = changes']
  /\ UNCHANGED <<dir, gates, devices, call, reported, contested, faults>>

ReadingsChange ==
  /\ changes < MaxChanges /\ changes' = changes + 1
  /\ devices' = changes'
  /\ UNCHANGED <<dir, gates, config, call, reported, contested, faults>>

Step(p) ==
  \/ Open(p) \/ Make(p) \/ WriteMetadata(p) \/ WriteSnapshot(p)
  \/ WriteStatus(p) \/ WriteMarker(p)
  \/ ExecutorReturns(p) \/ CheckOutputs(p)

Next ==
  \/ \E p \in Invokers :
       \/ \E e \in Experiments, resume \in BOOLEAN : Check(p, e, resume)
       \/ Step(p) \/ ExecutorFails(p) \/ Interrupt(p) \/ Crash(p)
  \/ \E e \in Gated, status \in {"PASS", "FAIL"} : Evaluate(e, status)
  \/ \E r \in recording : RecordGate(r)
  \/ \E e \in Experiments : EditConfig(e)
  \/ ReadingsChange

Spec == Init /\ [][Next]_vars

\* Invocations at work go on; and the operator resumes a run again and again, as
\* GPU_RUNBOOK.md ("Interruption and resume") asks.  Executions fail only as long
\* as there are faults left.
FairSpec ==
  /\ Spec
  /\ \A p \in Invokers : WF_vars(Step(p))
  /\ \A e \in Experiments : SF_vars(\E p \in Invokers : Check(p, e, TRUE))

-----------------------------------------------------------------------------
TypeOK ==
  /\ dir \in [Experiments -> Dirs]
  /\ gate \in [Experiments -> Gates \cup {Absent}]
  /\ config \in [Experiments -> 0..MaxChanges]
  /\ devices \in 0..MaxChanges
  /\ changes \in 0..MaxChanges
  /\ call \in [Invokers -> Calls]
  /\ evaluated \in [Experiments -> 0..MaxRecords]
  /\ recording \subseteq [of : Experiments, record : Gates]
  /\ reported \subseteq Experiments /\ contested \subseteq Experiments
  /\ overwritten \in [Experiments -> SUBSET Gates]
  /\ faults \in 0..MaxFaults

\* COMPLETED, as a status or as a marker, is only ever found on a run that has
\* its outputs and the snapshots of the identity in its metadata
\* (execution_pack.py:816-875), whatever crashed, failed or was interrupted.
CompletedIsDelivered ==
  \A e \in Experiments :
    dir[e].status = "COMPLETED" \/ "COMPLETED" \in dir[e].markers =>
      dir[e].outputs /\ dir[e].metadata # Absent /\ dir[e].snapshot = dir[e].metadata

\* While an experiment executes, the configuration, the devices and the gates it was checked
\* with are those of the run's metadata, and every gate it requires was PASS then and is on
\* file as it was, unless another gate_cli, which had not found a record when it looked, has
\* since replaced that very record (execution_pack.py:573-587, 792-809; GateRecord.write,
\* 388-396).
ExecutionIsOnRecord ==
  \A p \in Invokers : AtWork(p) /\ call[p].at = "execute" =>
    /\ dir[call[p].of].metadata = call[p].pre
    /\ \A u \in Requires[call[p].of] :
         LET checked == call[p].pre.gates[u]
         IN /\ checked # Absent /\ checked.status = "PASS" /\ gate[u] # Absent
            /\ gate[u] = checked \/ checked \in overwritten[u]

\* "A completed run is a no-op on resume" (docs/experiments/README.md:191): what was reported
\* as completed stays completed, and does not execute again.  Not so a run that one invocation
\* resumed while another ran it: it may have read its status before the other completed it,
\* or a COMPLETED that the other, about to write the marker, was to turn into FAILED.
ReportIsFinal ==
  \A e \in reported \ contested :
    /\ dir[e].status = "COMPLETED"
    /\ \A p \in Invokers : AtWork(p) /\ call[p].of = e => call[p].at \in {"open", "make"}

\* A run directory says COMPLETED of what is there, once and for all.
CompletionIsTrue == TypeOK /\ CompletedIsDelivered /\ ReportIsFinal

\* Nobody edited the config the run was made with, the devices read the same, and the
\* gates it was checked with are still on file.
Undisturbed(e) ==
  /\ dir[e].metadata # Absent
  /\ dir[e].metadata.config = config[e] /\ dir[e].metadata.devices = Selected(e)
  /\ \A u \in Requires[e] : dir[e].metadata.gates[u] = gate[u]

\* The runs that were prepared are completed in the end if they are resumed, those
\* apart whose config or readings of the devices changed or one of whose gates was
\* replaced (execution_pack.py:786-829).  Not so for good: two invocations that go
\* on resuming a run side by side may run it again and again.
PreparedRunsComplete ==
  []<>(\A e \in Experiments :
         dir[e].status # NoStatus => dir[e].status = "COMPLETED" \/ ~Undisturbed(e))

\* execution_pack.py:471, "Resolve exact env:NAME leaves before hashing a run
\* config": the hash a run was checked with is that of its config, so an
\* invocation that nothing disturbed leaves a prepared run behind and not a
\* directory that can neither be run nor resumed.
CheckedRunsArePrepared ==
  \A e \in Experiments :
    LET answered == \A p \in Invokers : AtWork(p) => call[p].of # e
    IN  Undisturbed(e) /\ faults = 0 /\ answered => dir[e].status # NoStatus
=============================================================================
