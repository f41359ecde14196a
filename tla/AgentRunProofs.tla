--------------------------- MODULE AgentRunProofs ---------------------------
(***************************************************************************)
(* Theorems about runs of an episode, for any processes, moves, number of  *)
(* transitions and faults, and whoever an operator takes items from:       *)
(* RunStore's complete asks for no attempt, so a worker whose item was     *)
(* taken writes over what its successor wrote, and what follows goes on    *)
(* from there.  All is said relative to Kept, the prefix of which no item  *)
(* was taken from a worker at work.                                        *)
(***************************************************************************)
EXTENDS AgentRun, SequenceTheorems, TLAPS

\* While a runner is there, it has an item.
Holding == {"act", "write", "replace", "complete", "fail"}

AllMoves == Moves \cup {STOP}
LegalMoves(s) == IF IsTerminal(s) THEN {Answer} ELSE Chosen(s)
KeyOf(s) == IF IsTerminal(s) THEN AnswerKey ELSE Len(s)

\* A state that a run may be in: nothing follows STOP, all its transitions are complete,
\* and as long as none of them was taken from a worker they are the ones on disk.
StateIsSound(s) ==
  /\ \A j \in 1..Len(s) - 1 : s[j] # STOP
  /\ Len(s) = MaxTransitions => IsTerminal(s)
  /\ \A j \in 0..Len(s) - 1 : Completed(j)
  /\ Kept(Len(s)) => s = Chain(Len(s))

\* An artifact under key k goes on from such a state, by a legal move.
ArtifactIsSound(k, a) ==
  a # Nothing => StateIsSound(a.state) /\ KeyOf(a.state) = k /\ a.move \in LegalMoves(a.state)

\* A runner holds the next item.  Nobody else does, and what it writes is what is there,
\* unless that item was taken from a worker.
RunnerIsSound(r) ==
  /\ StateIsSound(mem[r])
  /\ Store!Busy(r) <=> pc[r] \in Holding
  /\ Store!Busy(r) => session[r].item = NextKey(r)
  /\ Store!Busy(r) /\ NextKey(r) \notin lost => row[NextKey(r)].status = "running"
  /\ pc[r] \in {"write", "replace", "complete"} =>
       out[r].state = mem[r] /\ out[r].move \in LegalMoves(mem[r])
  /\ pc[r] = "replace" /\ NextKey(r) \notin lost => temp[NextKey(r)] = out[r]
  /\ pc[r] = "complete" => file[NextKey(r)] # Nothing
  /\ pc[r] = "complete" /\ NextKey(r) \notin lost => file[NextKey(r)] = out[r]
  /\ pc[r] = "rejected" => ~Kept(Len(mem[r]))
  /\ pc[r] = "done" => IsTerminal(mem[r]) /\ Completed(AnswerKey)

OneHolder ==
  \A q, r \in Runners :
    Store!Busy(q) /\ Store!Busy(r) /\ session[q].item = session[r].item
      /\ session[r].item \notin lost => q = r

FilesAreSound ==
  \A k \in Keys :
    /\ ArtifactIsSound(k, file[k]) /\ ArtifactIsSound(k, temp[k])
    /\ Completed(k) => file[k] # Nothing

IInv ==
  /\ TypeOK /\ OneHolder /\ FilesAreSound
  /\ \A r \in Runners : RunnerIsSound(r)

-----------------------------------------------------------------------------
\* The states of an episode are the sequences of moves that are not too long.
LEMMA EpisodesAreSequences ==
  ASSUME NEW s
  PROVE  s \in EpisodeStates <=> s \in Seq(AllMoves) /\ Len(s) <= MaxTransitions
<1>0. MaxTransitions \in Nat
  BY RunAssumption
<1>1. ASSUME s \in EpisodeStates
      PROVE  s \in Seq(AllMoves) /\ Len(s) <= MaxTransitions
  <2>1. PICK n \in 0..MaxTransitions : s \in [1..n -> AllMoves]
    BY <1>1 DEF EpisodeStates, AllMoves
  <2>2. n \in Nat /\ s \in Seq(AllMoves)
    BY <1>0, <2>1, SeqDef
  <2>3. Len(s) = n
    BY <2>1, <2>2, LenProperties
  <2> QED BY <1>0, <2>1, <2>2, <2>3
<1>2. ASSUME s \in Seq(AllMoves), Len(s) <= MaxTransitions
      PROVE  s \in EpisodeStates
  <2>1. Len(s) \in 0..MaxTransitions /\ s \in [1..Len(s) -> AllMoves]
    BY <1>0, <1>2, LenProperties
  <2> QED BY <2>1 DEF EpisodeStates, AllMoves
<1> QED BY <1>1, <1>2

\* A move more.
LEMMA MovesOn ==
  ASSUME NEW s \in Seq(AllMoves), NEW m \in AllMoves, Len(s) + 1 <= MaxTransitions
  PROVE  Append(s, m) \in EpisodeStates /\ Len(Append(s, m)) = Len(s) + 1
<1>1. Append(s, m) \in Seq(AllMoves) /\ Len(Append(s, m)) = Len(s) + 1
  BY AppendProperties
<1> HIDE DEF AllMoves
<1> QED BY <1>1, EpisodesAreSequences

\* The first k moves on file are a sequence of k elements.
LEMMA ChainIsSequence ==
  ASSUME NEW k \in Nat
  PROVE  /\ \E S : Chain(k) \in Seq(S)
         /\ Len(Chain(k)) = k
         /\ \A j \in 1..k : Chain(k)[j] = file[j - 1].move
<1> DEFINE S == {file[j - 1].move : j \in 1..k}
<1>1. Chain(k) \in [1..k -> S]
  BY DEF Chain
<1>2. Chain(k) \in Seq(S)
  BY <1>1, SeqDef
<1>3. Len(Chain(k)) = k
  BY <1>1, <1>2, LenProperties
<1> QED BY <1>2, <1>3 DEF Chain

\* One more item on file makes the chain one longer.
LEMMA ChainGrows ==
  ASSUME NEW k \in Nat
  PROVE  Append(Chain(k), file[k].move) = Chain(k + 1)
<1>1. PICK S : Chain(k) \in Seq(S)
  BY ChainIsSequence
<1> DEFINE T == S \cup {file[k].move}
           s == Append(Chain(k), file[k].move)
<1>2. Chain(k) \in Seq(T) /\ Len(Chain(k)) = k /\ Chain(k) \in [1..k -> S]
  BY <1>1, ChainIsSequence, LenProperties, SeqDef
<1>3. /\ s \in Seq(T) /\ Len(s) = k + 1 /\ s[k + 1] = file[k].move
      /\ \A j \in 1..k : s[j] = Chain(k)[j]
  BY <1>2, AppendProperties
<1>4. s \in [1..k + 1 -> T]
  BY <1>3, LenProperties
<1>5. \A j \in 1..k + 1 : s[j] = file[j - 1].move
  <2>1. \A j \in 1..k : s[j] = file[j - 1].move
    BY <1>3, ChainIsSequence
  <2>2. (k + 1) - 1 = k
    OBVIOUS
  <2> HIDE DEF s
  <2>3. s[k + 1] = file[(k + 1) - 1].move
    BY <1>3, <2>2 DEF s
  <2> QED BY <2>1, <2>3
<1> HIDE DEF s
<1>6. s = [j \in 1..k + 1 |-> s[j]]
  BY <1>4
<1>7. s = [j \in 1..k + 1 |-> file[j - 1].move]
  BY <1>5, <1>6
<1> QED BY <1>7 DEF Chain, s

\* It is a chain of the same files as long as these stay.
LEMMA ChainStays ==
  ASSUME NEW k \in Nat, \A j \in 0..k - 1 : file'[j] = file[j]
  PROVE  Chain(k)' = Chain(k)
<1>1. \A j \in 1..k : file'[j - 1].move = file[j - 1].move
  OBVIOUS
<1> QED BY <1>1 DEF Chain

-----------------------------------------------------------------------------
\* Steps under which what is sound stays so: nothing that is complete is undone, and what
\* is on disk of it changes only where it was taken from a worker.
Monotone ==
  /\ lost \subseteq lost'
  /\ \A k \in Keys : Completed(k) => row'[k].status = "complete"
  /\ \A k \in Keys \ lost : Completed(k) => file'[k] = file[k]

\* What the other runners see of a step of r.
OthersUntouched(r) ==
  /\ \A q \in Runners \ {r} :
       pc'[q] = pc[q] /\ mem'[q] = mem[q] /\ out'[q] = out[q] /\ session'[q] = session[q]
  /\ \A k \in Keys : file[k] # Nothing => file'[k] # Nothing
  /\ \A q \in Runners \ {r} : Store!Busy(q) =>
       LET k == session[q].item
       IN k \notin lost' => /\ row'[k].status = row[k].status
                            /\ file'[k] = file[k] /\ temp'[k] = temp[k]

\* The length of a state, and the key that comes next.
LEMMA StatesAreShort ==
  ASSUME NEW s \in EpisodeStates
  PROVE  /\ s \in Seq(AllMoves) /\ Len(s) \in 0..MaxTransitions /\ Len(s) \in Nat
         /\ MaxTransitions \in Nat /\ MaxTransitions >= 2 /\ AnswerKey = MaxTransitions
         /\ Keys = 0..MaxTransitions
<1>1. s \in Seq(AllMoves) /\ Len(s) <= MaxTransitions
  BY EpisodesAreSequences
<1>2. Len(s) \in Nat
  BY <1>1, LenProperties
<1> QED BY <1>1, <1>2, RunAssumption DEF AnswerKey, Keys

LEMMA KeyIsFree ==
  ASSUME NEW s \in EpisodeStates, StateIsSound(s)
  PROVE  /\ KeyOf(s) \in Keys
         /\ IsTerminal(s) => KeyOf(s) = AnswerKey /\ Len(s) \in 1..MaxTransitions
         /\ ~IsTerminal(s) => KeyOf(s) = Len(s) /\ Len(s) \in 0..MaxTransitions - 1
                              /\ KeyOf(s) # AnswerKey
<1>1. /\ Len(s) \in 0..MaxTransitions /\ MaxTransitions \in Nat /\ s \in Seq(AllMoves)
      /\ AnswerKey = MaxTransitions /\ Keys = 0..MaxTransitions
  BY StatesAreShort
<1>2. Len(s) = MaxTransitions => IsTerminal(s)
  BY DEF StateIsSound
<1>3. IsTerminal(s) => Len(s) # 0
  BY <1>1, EmptySeq DEF IsTerminal
<1> QED BY <1>1, <1>2, <1>3 DEF KeyOf

LEMMA StateStays ==
  ASSUME Monotone, NEW s \in EpisodeStates, StateIsSound(s)
  PROVE  StateIsSound(s)'
<1>1. PICK n \in 0..MaxTransitions : n = Len(s) /\ n \in Nat /\ MaxTransitions \in Nat
  BY StatesAreShort
<1>2. \A j \in 0..n - 1 : j \in Keys
  BY <1>1, StatesAreShort
<1>3. \A j \in 0..n - 1 : Completed(j)
  BY <1>1 DEF StateIsSound
<1>4. \A j \in 0..n - 1 : Completed(j)'
  BY <1>2, <1>3 DEF Monotone, Completed
<1>5. ASSUME Kept(n)'
      PROVE  s = Chain(n)'
  <2>1. Kept(n)
    BY <1>5 DEF Kept, Monotone
  <2>2. s = Chain(n)
    BY <1>1, <2>1 DEF StateIsSound
  <2>3. \A j \in 0..n - 1 : file'[j] = file[j]
    BY <1>2, <1>3, <2>1 DEF Monotone, Kept
  <2>4. Chain(n)' = Chain(n)
    BY <1>1, <2>3, ChainStays
  <2> QED BY <2>2, <2>4
<1>6. (Kept(Len(s)) => s = Chain(Len(s)))'
  BY <1>1, <1>5
<1>7. (\A j \in 0..Len(s) - 1 : Completed(j))'
  BY <1>1, <1>4
<1> QED BY <1>6, <1>7 DEF StateIsSound

LEMMA ArtifactStays ==
  ASSUME Monotone, NEW k \in Keys, NEW a \in Artifacts, ArtifactIsSound(k, a)
  PROVE  ArtifactIsSound(k, a)'
<1> SUFFICES ASSUME a # Nothing
             PROVE  StateIsSound(a.state)' /\ KeyOf(a.state) = k /\ a.move \in LegalMoves(a.state)
  BY DEF ArtifactIsSound, KeyOf, LegalMoves, Chosen
<1>1. PICK s \in EpisodeStates : s = a.state
  BY DEF Artifacts
<1>2. StateIsSound(s)
  BY <1>1 DEF ArtifactIsSound
<1>3. StateIsSound(s)'
  BY <1>2, StateStays
<1> QED BY <1>1, <1>3 DEF ArtifactIsSound

LEMMA FilesStay ==
  ASSUME IInv, Monotone, NEW k \in Keys, file'[k] = file[k], temp'[k] = temp[k],
         row'[k].status = "complete" => Completed(k)
  PROVE  /\ ArtifactIsSound(k, file[k])' /\ ArtifactIsSound(k, temp[k])'
         /\ Completed(k)' => file'[k] # Nothing
<1>1. /\ ArtifactIsSound(k, file[k]) /\ ArtifactIsSound(k, temp[k])
      /\ Completed(k) => file[k] # Nothing
  BY DEF IInv, FilesAreSound
<1>2. PICK a \in Artifacts : a = file[k]
  BY DEF IInv, TypeOK
<1>3. PICK b \in Artifacts : b = temp[k]
  BY DEF IInv, TypeOK
<1>4. ArtifactIsSound(k, a)' /\ ArtifactIsSound(k, b)'
  BY <1>1, <1>2, <1>3, ArtifactStays
<1> QED BY <1>1, <1>2, <1>3, <1>4 DEF Completed

LEMMA OthersGoOn ==
  ASSUME IInv, Monotone, NEW r \in Runners, OthersUntouched(r), NEW q \in Runners \ {r}
  PROVE  RunnerIsSound(q)'
<1>0. RunnerIsSound(q) /\ AnswerKey \in Keys
  BY RunAssumption DEF IInv, Keys, AnswerKey
<1>1. pc'[q] = pc[q] /\ mem'[q] = mem[q] /\ out'[q] = out[q] /\ session'[q] = session[q]
  BY DEF OthersUntouched
<1>2. PICK s \in EpisodeStates : s = mem[q] /\ s = mem'[q]
  BY <1>1 DEF IInv, TypeOK
<1>3. StateIsSound(mem[q])'
  <2>1. StateIsSound(s)
    BY <1>0, <1>2 DEF RunnerIsSound
  <2>2. StateIsSound(s)'
    BY <2>1, StateStays
  <2> QED BY <1>2, <2>2
<1>4. PICK k \in Keys : k = NextKey(q) /\ k = NextKey(q)'
  <2>1. KeyOf(s) \in Keys
    BY <1>0, <1>2, KeyIsFree DEF RunnerIsSound
  <2> QED BY <1>2, <2>1 DEF NextKey, KeyOf, AnswerKey
<1>5. Store!Busy(q)' <=> Store!Busy(q)
  BY <1>1 DEF Store!Busy
<1>6. /\ Completed(AnswerKey) => Completed(AnswerKey)'
      /\ k \notin lost' => k \notin lost
  BY <1>0 DEF Monotone, Completed
<1>7. Store!Busy(q) /\ k \notin lost' =>
        row'[k].status = row[k].status /\ file'[k] = file[k] /\ temp'[k] = temp[k]
  BY <1>0, <1>4 DEF OthersUntouched, RunnerIsSound
<1>8. pc[q] \in {"replace", "complete"} => Store!Busy(q)
  BY <1>0 DEF RunnerIsSound, Holding
<1>9. pc'[q] = "rejected" => ~Kept(Len(mem[q]))'
  <2>1. pc[q] = "rejected" => ~Kept(Len(s))
    BY <1>0, <1>2 DEF RunnerIsSound
  <2>2. ~Kept(Len(s)) => ~Kept(Len(s))'
    BY DEF Kept, Monotone
  <2> QED BY <1>1, <1>2, <2>1, <2>2
<1>10. /\ Store!Busy(q)' <=> pc'[q] \in Holding
       /\ Store!Busy(q)' => session'[q].item = NextKey(q)'
       /\ Store!Busy(q)' /\ NextKey(q)' \notin lost' => row'[NextKey(q)'].status = "running"
  BY <1>0, <1>1, <1>4, <1>5, <1>6, <1>7 DEF RunnerIsSound
<1>11. /\ pc'[q] \in {"write", "replace", "complete"} =>
            out'[q].state = mem'[q] /\ out'[q].move \in LegalMoves(mem'[q])
       /\ pc'[q] = "replace" /\ NextKey(q)' \notin lost' => temp'[NextKey(q)'] = out'[q]
       /\ pc'[q] = "complete" => file'[NextKey(q)'] # Nothing
       /\ pc'[q] = "complete" /\ NextKey(q)' \notin lost' => file'[NextKey(q)'] = out'[q]
       /\ pc'[q] = "done" => IsTerminal(mem'[q]) /\ Completed(AnswerKey)'
  <2>1. file[k] # Nothing => file'[k] # Nothing
    BY DEF OthersUntouched
  <2> QED BY <1>0, <1>1, <1>4, <1>6, <1>7, <1>8, <2>1 DEF RunnerIsSound
<1> QED BY <1>3, <1>9, <1>10, <1>11 DEF RunnerIsSound, LegalMoves, Chosen

LEMMA StepIsSound ==
  ASSUME IInv, Monotone, NEW r \in Runners, OthersUntouched(r), TypeOK', OneHolder',
         FilesAreSound', RunnerIsSound(r)'
  PROVE  IInv'
BY OthersGoOn DEF IInv

\* The item that a runner holds, and what follows from nobody having lost it.
LEMMA HeldItem ==
  ASSUME IInv, NEW r \in Runners, pc[r] \in Holding
  PROVE  /\ Store!Busy(r) /\ session[r].item = NextKey(r) /\ NextKey(r) \in Keys
         /\ session[r].attempt \in 1..MaxFaults + 1
         /\ NextKey(r) \notin lost =>
              /\ row[NextKey(r)].status = "running" /\ ~Completed(NextKey(r))
              /\ \A q \in Runners \ {r} : Store!Busy(q) => session[q].item # NextKey(r)
<1>1. /\ Store!Busy(r) /\ session[r].item = NextKey(r)
      /\ NextKey(r) \notin lost => row[NextKey(r)].status = "running"
  BY DEF IInv, RunnerIsSound
<1>2. session[r].attempt \in 1..MaxFaults + 1
  BY <1>1 DEF IInv, TypeOK, Store!TypeOK, Store!Sessions, Store!Busy
<1>3. NextKey(r) = KeyOf(mem[r]) /\ mem[r] \in EpisodeStates /\ StateIsSound(mem[r])
  BY DEF NextKey, KeyOf, IInv, TypeOK, RunnerIsSound
<1>4. NextKey(r) \in Keys
  BY <1>3, KeyIsFree
<1> QED BY <1>1, <1>2, <1>4 DEF IInv, OneHolder, Completed

LEMMA MemoryOf ==
  ASSUME IInv, NEW r \in Runners
  PROVE  /\ mem[r] \in EpisodeStates /\ StateIsSound(mem[r])
         /\ NextKey(r) = KeyOf(mem[r]) /\ NextKey(r) \in Keys
         /\ Store!Busy(r) => session[r].item = NextKey(r) /\ session[r].item \in Keys
<1>1. NextKey(r) = KeyOf(mem[r]) /\ mem[r] \in EpisodeStates /\ StateIsSound(mem[r])
  BY DEF NextKey, KeyOf, IInv, TypeOK, RunnerIsSound
<1> QED BY <1>1, KeyIsFree DEF IInv, RunnerIsSound

-----------------------------------------------------------------------------
\* What each way to write one row leaves of the store.
LEMMA RowFields ==
  ASSUME Store!TypeOK, NEW k \in Keys
  PROVE  /\ row[k] \in Store!Rows
         /\ row[k].status \in Store!Statuses /\ row[k].attempt \in 0..MaxFaults + 1
         /\ row[k].worker \in Runners \cup {Store!NoWorker}
         /\ row[k].error \in {Store!NoError, "error"}
         /\ row[k].output \in 0..MaxFaults + 1 /\ row[k].age \in 0..0
  BY DEF Store!TypeOK, Store!Rows

LEMMA ClaimedRow ==
  ASSUME Store!TypeOK, NEW k \in Keys, NEW r \in Runners, Store!Claimable(k), Store!ClaimRow(k, r)
  PROVE  /\ row' \in [Keys -> Store!Rows]
         /\ row'[k].status = "running" /\ row'[k].attempt \in 1..MaxFaults + 1
         /\ row[k].status \notin {"running", "complete"}
         /\ \A j \in Keys \ {k} : row'[j] = row[j]
<1> DEFINE new == [row[k] EXCEPT !.status = "running", !.attempt = @ + 1, !.worker = r,
                                 !.error = Store!NoError, !.age = 0]
<1>1. row[k].attempt + 1 \in 1..MaxFaults + 1 /\ row[k].attempt + 1 \in 0..MaxFaults + 1
      /\ row[k].status \notin {"running", "complete"}
  BY RowFields, RunAssumption DEF Store!Claimable
<1>2. new \in Store!Rows /\ new.status = "running" /\ new.attempt = row[k].attempt + 1
  <2>1. row[k] \in Store!Rows /\ 0 \in 0..0 /\ "running" \in Store!Statuses
    BY RowFields DEF Store!Statuses
  <2> QED BY <1>1, <2>1 DEF Store!Rows
<1>3. row' = [row EXCEPT ![k] = new]
  BY DEF Store!ClaimRow
<1> HIDE DEF new
<1> QED BY <1>1, <1>2, <1>3 DEF Store!TypeOK

LEMMA CompletedRow ==
  ASSUME Store!TypeOK, NEW k \in Keys, NEW n \in 1..MaxFaults + 1, Store!CompleteRow(k, n),
         row[k].status = "running"
  PROVE  /\ row' \in [Keys -> Store!Rows]
         /\ row'[k].status = "complete"
         /\ \A j \in Keys \ {k} : row'[j] = row[j]
<1> DEFINE new == [row[k] EXCEPT !.status = "complete", !.output = n]
<1>1. new \in Store!Rows /\ new.status = "complete"
  <2>1. row[k] \in Store!Rows /\ n \in 0..MaxFaults + 1 /\ "complete" \in Store!Statuses
    BY RowFields, RunAssumption DEF Store!Statuses
  <2> QED BY <2>1 DEF Store!Rows
<1>2. row' = [row EXCEPT ![k] = new]
  BY DEF Store!CompleteRow
<1> HIDE DEF new
<1> QED BY <1>1, <1>2 DEF Store!TypeOK

LEMMA FailedRow ==
  ASSUME Store!TypeOK, NEW k \in Keys, Store!FailRow(k), row[k].status = "running"
  PROVE  /\ row' \in [Keys -> Store!Rows]
         /\ row'[k].status = "failed"
         /\ \A j \in Keys \ {k} : row'[j] = row[j]
<1> DEFINE new == [row[k] EXCEPT !.status = "failed", !.error = "error"]
<1>1. new \in Store!Rows /\ new.status = "failed"
  BY RowFields DEF Store!Rows, Store!Statuses
<1>2. row' = [row EXCEPT ![k] = new]
  BY DEF Store!FailRow
<1> HIDE DEF new
<1> QED BY <1>1, <1>2 DEF Store!TypeOK

LEMMA SweptRows ==
  ASSUME Store!TypeOK, Store!Pending
  PROVE  /\ row' \in [Keys -> Store!Rows] /\ UNCHANGED session
         /\ \A k \in Keys : row[k].status # "running" => row'[k] = row[k]
         /\ \A k \in Keys : row[k].status = "running" => row'[k].status = "pending"
<1> DEFINE new(k) == [row[k] EXCEPT !.status = "pending", !.worker = Store!NoWorker, !.age = 0]
<1>1. ASSUME NEW k \in Keys
      PROVE  new(k) \in Store!Rows /\ new(k).status = "pending"
  <2>1. row[k] \in Store!Rows /\ 0 \in 0..0 /\ "pending" \in Store!Statuses
    BY RowFields DEF Store!Statuses
  <2> QED BY <2>1 DEF Store!Rows
<1>2. \A k \in Keys : Store!Expired(k) <=> row[k].status = "running"
  BY RowFields DEF Store!Expired
<1>3. row' = [k \in Keys |-> IF Store!Expired(k) THEN new(k) ELSE row[k]] /\ UNCHANGED session
  BY DEF Store!Pending
<1> HIDE DEF new
<1> QED BY <1>1, <1>2, <1>3, RowFields

\* A legal move from a state that has not stopped leads to one that may be.
GrowsLegally(s, m) ==
  LET t == Append(s, m)
  IN /\ t \in EpisodeStates /\ Len(t) = Len(s) + 1
     /\ \A j \in 1..Len(t) - 1 : t[j] # STOP
     /\ Len(t) = MaxTransitions => IsTerminal(t)

LEMMA SequencesGrow ==
  ASSUME NEW s \in EpisodeStates, \A j \in 1..Len(s) - 1 : s[j] # STOP, ~IsTerminal(s),
         Len(s) # MaxTransitions, NEW m \in AllMoves, m \in Chosen(s)
  PROVE  GrowsLegally(s, m)
<1> DEFINE n == Len(s)
           t == Append(s, m)
<1>1. /\ n \in 0..MaxTransitions - 1 /\ n \in Nat /\ n + 1 <= MaxTransitions
      /\ s \in Seq(AllMoves) /\ MaxTransitions \in Nat
  BY StatesAreShort
<1>2. t \in EpisodeStates /\ Len(t) = n + 1
  BY <1>1, MovesOn
<1>3. t[n + 1] = m /\ \A j \in 1..n : t[j] = s[j]
  BY <1>1, AppendProperties
<1>4. \A j \in 1..n : s[j] # STOP
  <2>1. n # 0 => s[n] # STOP
    <3>1. n # 0 => s # <<>>
      BY <1>1, EmptySeq
    <3> QED BY <3>1 DEF IsTerminal
  <2> QED BY <1>1, <2>1
<1>5. n + 1 = MaxTransitions => IsTerminal(t)
  <2>1. n + 1 = MaxTransitions => m = STOP
    BY <1>1 DEF Chosen
  <2>2. t # <<>>
    BY <1>1, <1>2, EmptySeq
  <2> QED BY <1>2, <1>3, <2>1, <2>2 DEF IsTerminal
<1>6. \A j \in 1..Len(t) - 1 : t[j] # STOP
  <2>1. (n + 1) - 1 = n
    BY <1>1
  <2> HIDE DEF n, t
  <2> QED BY <1>2, <1>3, <1>4, <2>1
<1> HIDE DEF t
<1> QED BY <1>2, <1>5, <1>6 DEF GrowsLegally, t

-----------------------------------------------------------------------------
\* A step of r that leaves the store and the files alone.
Thinks(r) ==
  /\ UNCHANGED <<row, session, file, temp, lost>>
  /\ \A q \in Runners \ {r} : pc'[q] = pc[q] /\ mem'[q] = mem[q] /\ out'[q] = out[q]

LEMMA ThinkingIsSound ==
  ASSUME IInv, NEW r \in Runners, Thinks(r), TypeOK', RunnerIsSound(r)'
  PROVE  IInv'
<1>1. OthersUntouched(r) /\ Monotone
  BY DEF Thinks, OthersUntouched, Monotone, Completed
<1>2. ASSUME NEW k \in Keys
      PROVE  /\ ArtifactIsSound(k, file[k])' /\ ArtifactIsSound(k, temp[k])'
             /\ Completed(k)' => file'[k] # Nothing
  <2>1. file'[k] = file[k] /\ temp'[k] = temp[k] /\ row' = row
    BY DEF Thinks
  <2> QED BY <1>1, <2>1, FilesStay DEF Completed
<1>3. FilesAreSound'
  BY <1>2 DEF FilesAreSound
<1>4. OneHolder'
  BY DEF IInv, OneHolder, Thinks, Store!Busy
<1> QED BY <1>1, <1>3, <1>4, StepIsSound

\* The same when what r has in memory stays, too: where it goes it holds an item exactly
\* if it did.
LEMMA MovingIsSound ==
  ASSUME IInv, NEW r \in Runners, NEW l \in Labels, Goto(r, l),
         UNCHANGED <<row, session, file, temp, mem, out, lost>>, faults' \in 0..MaxFaults,
         l \in Holding <=> pc[r] \in Holding,
         l \notin {"write", "replace", "complete"},
         l = "rejected" => ~Kept(Len(mem[r])),
         l = "done" => IsTerminal(mem[r]) /\ Completed(AnswerKey)
  PROVE  IInv'
<1>1. TypeOK' /\ pc'[r] = l /\ \A q \in Runners \ {r} : pc'[q] = pc[q]
  BY DEF IInv, TypeOK, Goto, Store!TypeOK
<1>2. Thinks(r)
  BY <1>1 DEF Thinks
<1>3. StateIsSound(mem[r])'
  <2>1. PICK s \in EpisodeStates : s = mem[r]
    BY DEF IInv, TypeOK
  <2>2. Monotone /\ StateIsSound(s)
    BY <2>1 DEF Monotone, Completed, IInv, RunnerIsSound
  <2>3. StateIsSound(s)'
    BY <2>2, StateStays
  <2> QED BY <2>1, <2>3
<1>4. Store!Busy(r)' <=> pc'[r] \in Holding
  BY <1>1 DEF IInv, RunnerIsSound, Store!Busy
<1>5. /\ Store!Busy(r)' => session'[r].item = NextKey(r)'
      /\ Store!Busy(r)' /\ NextKey(r)' \notin lost' => row'[NextKey(r)'].status = "running"
  BY DEF IInv, RunnerIsSound, Store!Busy, NextKey
<1>6. /\ pc'[r] = "done" => IsTerminal(mem'[r]) /\ Completed(AnswerKey)'
      /\ pc'[r] = "rejected" => ~Kept(Len(mem[r]))'
  BY <1>1 DEF Completed, Kept
<1> QED BY <1>1, <1>2, <1>3, <1>4, <1>5, <1>6, ThinkingIsSound DEF RunnerIsSound

LEMMA FaultsAreBounded ==
  ASSUME IInv
  PROVE  /\ Fault => faults' \in 0..MaxFaults
         /\ UNCHANGED faults => faults' \in 0..MaxFaults
  BY RunAssumption DEF Fault, IInv, TypeOK

\* Where every run begins: with nothing in memory, which is what no item says.
LEMMA NothingIsAnEpisode ==
  /\ <<>> \in EpisodeStates /\ Len(<<>>) = 0
  /\ StateIsSound(<<>>) /\ StateIsSound(<<>>)'
<1>1. <<>> \in EpisodeStates /\ Len(<<>>) = 0
  <2>1. <<>> \in Seq(AllMoves) /\ Len(<<>>) = 0
    BY EmptySeq
  <2>2. Len(<<>>) <= MaxTransitions
    BY <2>1, RunAssumption
  <2> QED BY <2>1, <2>2, EpisodesAreSequences
<1>2. Chain(0) = <<>> /\ Chain(0)' = <<>>
  BY DEF Chain
<1>3. 0 # MaxTransitions /\ 0..(0 - 1) = {} /\ 1..(0 - 1) = {}
  BY RunAssumption
<1> QED BY <1>1, <1>2, <1>3 DEF StateIsSound

LEMMA StartIsSound ==
  ASSUME IInv, NEW r \in Runners, Start(r)
  PROVE  IInv'
<1>1. /\ Thinks(r) /\ mem'[r] = <<>> /\ pc'[r] = "restore"
      /\ pc' = [pc EXCEPT ![r] = "restore"] /\ mem' = [mem EXCEPT ![r] = <<>>]
      /\ out' = [out EXCEPT ![r] = Nothing]
      /\ UNCHANGED <<row, session, file, temp, faults, lost>>
  BY DEF Start, Thinks, Goto, files, IInv, TypeOK
<1>2. <<>> \in EpisodeStates
  BY NothingIsAnEpisode
<1>3. TypeOK'
  BY <1>1, <1>2 DEF IInv, TypeOK, Labels, Active, Artifacts, Store!TypeOK
<1>4. ~Store!Busy(r)'
  BY <1>1 DEF Start, IInv, RunnerIsSound, Holding, Store!Busy
<1>5. StateIsSound(mem[r])'
  BY <1>1, NothingIsAnEpisode
<1> QED BY <1>1, <1>3, <1>4, <1>5, ThinkingIsSound DEF RunnerIsSound, Holding

\* One more transition that is complete and goes on from s, now ...
LEMMA StateGrows ==
  ASSUME NEW s \in EpisodeStates, StateIsSound(s), ~IsTerminal(s), Len(s) # MaxTransitions,
         NEW m \in AllMoves, m \in Chosen(s), Completed(Len(s)),
         Kept(Len(s) + 1) => file[Len(s)].move = m
  PROVE  Append(s, m) \in EpisodeStates /\ StateIsSound(Append(s, m))
<1>0. PICK n \in Nat : n = Len(s)
  BY StatesAreShort
<1> DEFINE t == Append(s, m)
<1>1. GrowsLegally(s, m)
  BY SequencesGrow DEF StateIsSound
<1>2. t \in EpisodeStates /\ Len(t) = n + 1 /\ n = (n + 1) - 1
  BY <1>0, <1>1 DEF GrowsLegally
<1>3. \A j \in 0..(n + 1) - 1 : Completed(j)
  BY <1>0 DEF StateIsSound
<1>4. ASSUME Kept(n + 1) PROVE t = Chain(n + 1)
  <2>1. Kept(n)
    BY <1>0, <1>4 DEF Kept
  <2>2. s = Chain(n) /\ file[n].move = m
    BY <1>0, <1>4, <2>1 DEF StateIsSound
  <2>3. Append(Chain(n), file[n].move) = Chain(n + 1)
    BY <1>0, ChainGrows
  <2> QED BY <2>2, <2>3
<1>5. /\ \A j \in 1..Len(t) - 1 : t[j] # STOP
      /\ Len(t) = MaxTransitions => IsTerminal(t)
  BY <1>1 DEF GrowsLegally
<1> HIDE DEF t
<1> QED BY <1>2, <1>3, <1>4, <1>5 DEF StateIsSound, t

\* ... and after a step that completes it.
LEMMA StateGrowsAfter ==
  ASSUME NEW s \in EpisodeStates, StateIsSound(s)', ~IsTerminal(s), Len(s) # MaxTransitions,
         NEW m \in AllMoves, m \in Chosen(s), Completed(Len(s))',
         (Kept(Len(s) + 1) => file[Len(s)].move = m)', UNCHANGED file
  PROVE  Append(s, m) \in EpisodeStates /\ StateIsSound(Append(s, m))'
<1>0. PICK n \in Nat : n = Len(s)
  BY StatesAreShort
<1> DEFINE t == Append(s, m)
<1>1. GrowsLegally(s, m)
  BY SequencesGrow DEF StateIsSound
<1>2. t \in EpisodeStates /\ Len(t) = n + 1 /\ n = (n + 1) - 1
  BY <1>0, <1>1 DEF GrowsLegally
<1>3. \A j \in 0..(n + 1) - 1 : Completed(j)'
  BY <1>0 DEF StateIsSound
<1>4. ASSUME Kept(n + 1)' PROVE t = Chain(n + 1)'
  <2>1. Kept(n)'
    BY <1>0, <1>4 DEF Kept
  <2>2. s = Chain(n) /\ file[n].move = m
    BY <1>0, <1>4, <2>1 DEF StateIsSound, Chain
  <2>3. Append(Chain(n), file[n].move) = Chain(n + 1)
    BY <1>0, ChainGrows
  <2> QED BY <2>2, <2>3 DEF Chain
<1>5. /\ \A j \in 1..Len(t) - 1 : t[j] # STOP
      /\ Len(t) = MaxTransitions => IsTerminal(t)
  BY <1>1 DEF GrowsLegally
<1> HIDE DEF t
<1>6. (\A j \in 0..Len(t) - 1 : Completed(j))' /\ (Kept(Len(t)) => t = Chain(Len(t)))'
  BY <1>2, <1>3, <1>4
<1> QED BY <1>2, <1>5, <1>6 DEF StateIsSound, t

\* Restoring reads what the completed items say, and leads to where they lead; it is
\* refused only when what is before was taken from a worker.
LEMMA RestoreIsSound ==
  ASSUME IInv, NEW r \in Runners, RestoreStep(r)
  PROVE  IInv'
<1> DEFINE k == Len(mem[r])
<1>1. /\ pc[r] = "restore" /\ UNCHANGED <<row, session, file, temp, out, faults, lost>>
      /\ faults' \in 0..MaxFaults
  BY FaultsAreBounded DEF RestoreStep, files
<1>2. /\ k \in 0..MaxTransitions /\ MaxTransitions \in Nat /\ Keys = 0..MaxTransitions
      /\ mem[r] \in EpisodeStates /\ StateIsSound(mem[r])
  BY MemoryOf, StatesAreShort
<1>3. CASE IsTerminal(mem[r]) \/ k = MaxTransitions \/ ~Completed(k)
  <2>1. Goto(r, "claim") /\ UNCHANGED mem
    BY <1>3 DEF RestoreStep
  <2> QED BY <1>1, <2>1, MovingIsSound DEF Labels, Active, Holding
<1>4. CASE ~(IsTerminal(mem[r]) \/ k = MaxTransitions \/ ~Completed(k))
  <2>1. /\ k \in 0..MaxTransitions - 1 /\ k \in Keys /\ Completed(k) /\ file[k] # Nothing
        /\ StateIsSound(file[k].state) /\ KeyOf(file[k].state) = k
        /\ file[k].move \in LegalMoves(file[k].state)
    BY <1>2, <1>4 DEF IInv, FilesAreSound, ArtifactIsSound
  <2>2. file[k].state \in EpisodeStates
    BY <2>1 DEF IInv, TypeOK, Artifacts
  <2>3. ~IsTerminal(file[k].state) /\ Len(file[k].state) = k
    BY <1>2, <2>1, <2>2, KeyIsFree DEF AnswerKey
  <2>4. CASE Restored(r)
    <3>1. file[k].state = mem[r] /\ mem' = [mem EXCEPT ![r] = Append(mem[r], file[k].move)]
          /\ UNCHANGED pc
      BY <1>4, <2>4 DEF RestoreStep, Restored
    <3>2. file[k].move \in Chosen(mem[r]) /\ file[k].move \in AllMoves
      BY <1>4, <2>1, <3>1 DEF LegalMoves, Chosen, AllMoves
    <3>3. Append(mem[r], file[k].move) \in EpisodeStates
          /\ StateIsSound(Append(mem[r], file[k].move))
      BY <1>2, <1>4, <3>2, StateGrows
    <3>4. TypeOK' /\ Thinks(r) /\ mem'[r] = Append(mem[r], file[k].move)
      BY <1>1, <3>1, <3>3 DEF IInv, TypeOK, Thinks, Store!TypeOK
    <3>5. StateIsSound(mem[r])'
      BY <1>1, <3>3, <3>4 DEF StateIsSound, Completed, Kept, Chain
    <3>6. ~Store!Busy(r)' /\ pc'[r] = "restore"
      BY <1>1, <3>1 DEF IInv, RunnerIsSound, Holding, Store!Busy
    <3> QED BY <3>4, <3>5, <3>6, ThinkingIsSound DEF RunnerIsSound, Holding
  <2>5. CASE ~Restored(r)
    <3>1. Goto(r, "rejected") /\ UNCHANGED mem
      BY <1>4, <2>5 DEF RestoreStep
    <3>2. file[k].state # mem[r]
      BY <2>1, <2>5 DEF Restored
    <3>3. ~Kept(k)
      BY <1>2, <2>1, <2>3, <3>2 DEF StateIsSound
    <3> QED BY <1>1, <3>1, <3>3, MovingIsSound DEF Labels, Active, Holding
  <2> QED BY <2>4, <2>5
<1> QED BY <1>3, <1>4

\* Two states that have stopped, all of whose transitions are complete, are the same when
\* none of these was taken from a worker.
LEMMA OneEnd ==
  ASSUME IInv, NEW s \in EpisodeStates, NEW t \in EpisodeStates,
         StateIsSound(s), StateIsSound(t), IsTerminal(s), IsTerminal(t), Kept(Len(s))
  PROVE  s = t
<1> DEFINE m == Len(s)
           n == Len(t)
<1>1. /\ m \in 1..MaxTransitions /\ n \in 1..MaxTransitions /\ MaxTransitions \in Nat
      /\ s[m] = STOP /\ t[n] = STOP
  BY KeyIsFree, StatesAreShort DEF IsTerminal
<1>2. s = Chain(m)
  BY DEF StateIsSound
<1>3. m < n => FALSE
  <2> SUFFICES ASSUME m < n PROVE FALSE
    OBVIOUS
  <2>1. m \in 0..n - 1 /\ m \in Keys /\ m # AnswerKey /\ m \in 0..m
    BY <1>1, StatesAreShort
  <2>2. Completed(m)
    BY <2>1 DEF StateIsSound
  <2>3. /\ file[m] # Nothing /\ StateIsSound(file[m].state) /\ KeyOf(file[m].state) = m
    BY <2>1, <2>2 DEF IInv, FilesAreSound, ArtifactIsSound
  <2>4. file[m].state \in EpisodeStates
    BY <2>1, <2>3 DEF IInv, TypeOK, Artifacts
  <2>5. ~IsTerminal(file[m].state) /\ Len(file[m].state) = m
    BY <2>1, <2>3, <2>4, KeyIsFree
  <2>6. file[m].state = Chain(m)
    BY <2>3, <2>5 DEF StateIsSound
  <2> QED BY <1>2, <2>5, <2>6
<1>4. n < m => FALSE
  <2> SUFFICES ASSUME n < m PROVE FALSE
    OBVIOUS
  <2>1. Kept(n) /\ n \in 1..m - 1 /\ n \in Nat
    BY <1>1 DEF Kept
  <2>2. t = Chain(n)
    BY <2>1 DEF StateIsSound
  <2>3. t[n] = file[n - 1].move /\ s[n] = file[n - 1].move
    <3> HIDE DEF m, n
    <3>1. n \in 1..n /\ n \in 1..m /\ m \in Nat /\ n \in Nat
      BY <1>1, <2>1
    <3>2. \A j \in 1..n : Chain(n)[j] = file[j - 1].move
      BY <3>1, ChainIsSequence
    <3>3. \A j \in 1..m : Chain(m)[j] = file[j - 1].move
      BY <3>1, ChainIsSequence
    <3> QED BY <1>2, <2>2, <3>1, <3>2, <3>3
  <2>4. s[n] # STOP
    BY <2>1 DEF StateIsSound
  <2> QED BY <1>1, <2>3, <2>4
<1>5. m = n
  BY <1>1, <1>3, <1>4
<1> QED BY <1>2, <1>5 DEF StateIsSound

\* A complete answer is the one to the state a runner has restored.
LEMMA LoadAnswerIsSound ==
  ASSUME IInv, NEW r \in Runners, LoadAnswer(r)
  PROVE  IInv'
<1>1. /\ pc[r] = "claim" /\ IsTerminal(mem[r]) /\ Completed(AnswerKey) /\ AnswerKey \in Keys
      /\ UNCHANGED <<row, session, file, temp, mem, out, lost>> /\ faults' \in 0..MaxFaults
  BY FaultsAreBounded, RunAssumption DEF LoadAnswer, files, AnswerKey, Keys
<1>2. /\ file[AnswerKey] # Nothing /\ StateIsSound(file[AnswerKey].state)
      /\ KeyOf(file[AnswerKey].state) = AnswerKey
  BY <1>1 DEF IInv, FilesAreSound, ArtifactIsSound
<1>3. file[AnswerKey].state \in EpisodeStates
  BY <1>1, <1>2 DEF IInv, TypeOK, Artifacts
<1>4. IsTerminal(file[AnswerKey].state)
  BY <1>2, <1>3, KeyIsFree
<1>5. Kept(Len(mem[r])) => file[AnswerKey].state = mem[r]
  BY <1>1, <1>2, <1>3, <1>4, OneEnd, MemoryOf
<1>6. PICK l \in {"done", "rejected"} :
        Goto(r, l) /\ (l = "rejected" => ~Kept(Len(mem[r])))
  BY <1>2, <1>5 DEF LoadAnswer
<1> QED BY <1>1, <1>6, MovingIsSound DEF Labels, Holding

LEMMA RefusedAndRaisedAreSound ==
  ASSUME IInv, NEW r \in Runners, ClaimRefused(r) \/ Raise(r)
  PROVE  IInv'
<1>1. /\ UNCHANGED <<row, session, file, temp, mem, out, lost>> /\ faults' \in 0..MaxFaults
      /\ \/ pc[r] = "claim" /\ Goto(r, "raised")
         \/ pc[r] \in {"act", "write", "replace", "complete"} /\ Goto(r, "fail")
  BY FaultsAreBounded DEF ClaimRefused, Raise, files
<1> QED BY <1>1, MovingIsSound DEF Labels, Active, Holding

\* The sessions keep their types when one of them is given an item or taken away.
LEMMA SessionsStayTyped ==
  ASSUME Store!TypeOK, NEW r \in Runners, NEW k \in Keys, NEW n \in 1..MaxFaults + 1
  PROVE  /\ [session EXCEPT ![r] = [item |-> k, attempt |-> n, age |-> 0]]
               \in [Runners -> Store!Sessions]
         /\ [session EXCEPT ![r] = Store!Idle] \in [Runners -> Store!Sessions]
         /\ [item |-> k, attempt |-> n, age |-> 0] # Store!Idle
<1>1. [item |-> k, attempt |-> n, age |-> 0] \in Store!Sessions /\ Store!Idle \in Store!Sessions
  <2>1. 0 \in 0..0
    OBVIOUS
  <2> QED BY <2>1 DEF Store!Sessions
<1>2. [item |-> k, attempt |-> n, age |-> 0] # Store!Idle
  <2>1. "age" \in DOMAIN [item |-> k, attempt |-> n, age |-> 0]
    OBVIOUS
  <2>2. "age" \notin DOMAIN Store!Idle
    BY DEF Store!Idle
  <2> QED BY <2>1, <2>2
<1> QED BY <1>1, <1>2 DEF Store!TypeOK

\* A claim, whether its caller learns of it or not, wins an item that is not running.
LEMMA ClaimIsSound ==
  ASSUME IInv, NEW r \in Runners, Claim(r) \/ ClaimLost(r)
  PROVE  IInv'
<1>k. PICK k \in Keys : k = NextKey(r)
  BY MemoryOf
<1>1. /\ pc[r] = "claim" /\ UNCHANGED <<file, temp, mem, out, lost>> /\ faults' \in 0..MaxFaults
      /\ Store!Claimable(k) /\ Store!ClaimRow(k, r)
  BY <1>k, FaultsAreBounded DEF Claim, ClaimLost, Store!Claim, Store!ClaimLost, files
<1>2. /\ row' \in [Keys -> Store!Rows]
      /\ row'[k].status = "running" /\ row'[k].attempt \in 1..MaxFaults + 1
      /\ row[k].status \notin {"running", "complete"}
      /\ \A j \in Keys \ {k} : row'[j] = row[j]
  BY <1>1, ClaimedRow DEF IInv, TypeOK
<1>3. ~Store!Busy(r)
  BY <1>1 DEF IInv, RunnerIsSound, Holding
<1>4. PICK l \in {"act", "raised"} :
        /\ pc' = [pc EXCEPT ![r] = l]
        /\ session' = IF l = "act"
                        THEN [session EXCEPT ![r] = [item |-> k, attempt |-> row'[k].attempt, age |-> 0]]
                        ELSE session
  BY <1>k DEF Claim, ClaimLost, Store!Claim, Store!ClaimLost, Goto
<1>5. session' \in [Runners -> Store!Sessions]
  BY <1>1, <1>2, <1>4, SessionsStayTyped DEF IInv, TypeOK, Store!TypeOK
<1>6. TypeOK'
  BY <1>1, <1>2, <1>4, <1>5 DEF IInv, TypeOK, Labels, Active, Store!TypeOK
<1>7. /\ pc'[r] = l /\ \A q \in Runners \ {r} : pc'[q] = pc[q] /\ session'[q] = session[q]
      /\ l = "act" => session'[r] = [item |-> k, attempt |-> row'[k].attempt, age |-> 0]
      /\ l = "raised" => session'[r] = session[r]
  BY <1>4 DEF IInv, TypeOK, Store!TypeOK
<1>8. ASSUME NEW q \in Runners \ {r}, Store!Busy(q), session[q].item \notin lost
      PROVE  session[q].item # k /\ row'[session[q].item] = row[session[q].item]
  <2>1. session[q].item = NextKey(q) /\ session[q].item \in Keys
    BY <1>8, MemoryOf
  <2>2. row[session[q].item].status = "running"
    BY <1>8, <2>1 DEF IInv, RunnerIsSound
  <2> QED BY <1>2, <2>1, <2>2
<1>9. \A j \in Keys : Completed(j)' <=> Completed(j)
  BY <1>2 DEF Completed
<1>10. OthersUntouched(r) /\ Monotone
  BY <1>1, <1>7, <1>8, <1>9 DEF OthersUntouched, Monotone, Completed
<1>11. FilesAreSound'
  BY <1>1, <1>9, <1>10, FilesStay DEF FilesAreSound, Completed
<1>12. l = "act" <=> Store!Busy(r)'
  BY <1>1, <1>2, <1>3, <1>7, SessionsStayTyped DEF Store!Busy, IInv, TypeOK
<1>13. OneHolder'
  BY <1>1, <1>3, <1>7, <1>8, <1>12 DEF IInv, OneHolder, Store!Busy
<1>14. StateIsSound(mem[r])'
  <2>1. PICK s \in EpisodeStates : s = mem[r] /\ StateIsSound(s)
    BY MemoryOf
  <2>2. StateIsSound(s)'
    BY <1>10, <2>1, StateStays
  <2> QED BY <1>1, <2>1, <2>2
<1>15. NextKey(r)' = k
  BY <1>1, <1>k DEF NextKey
<1>16. RunnerIsSound(r)'
  <2>1. /\ Store!Busy(r)' => session'[r].item = NextKey(r)'
        /\ row'[NextKey(r)'].status = "running"
    BY <1>2, <1>7, <1>12, <1>15
  <2> QED BY <1>7, <1>12, <1>14, <2>1 DEF RunnerIsSound, Holding
<1> QED BY <1>6, <1>10, <1>11, <1>13, <1>16, StepIsSound

\* A step of r, which holds an item, to l, where it holds it still.
LEMMA HoldingOnIsSound ==
  ASSUME IInv, NEW r \in Runners, NEW l \in Holding, pc[r] \in Holding, Goto(r, l),
         UNCHANGED <<row, session, mem, lost>>, faults' \in 0..MaxFaults,
         \A q \in Runners \ {r} : out'[q] = out[q],
         out' \in [Runners -> Artifacts], file' \in [Keys -> Artifacts], temp' \in [Keys -> Artifacts],
         \A k \in Keys \ {NextKey(r)} : file'[k] = file[k] /\ temp'[k] = temp[k],
         file[NextKey(r)] # Nothing => file'[NextKey(r)] # Nothing,
         ArtifactIsSound(NextKey(r), file'[NextKey(r)]),
         ArtifactIsSound(NextKey(r), temp'[NextKey(r)]),
         l \in {"write", "replace", "complete"} =>
           out'[r].state = mem[r] /\ out'[r].move \in LegalMoves(mem[r]),
         l = "replace" /\ NextKey(r) \notin lost => temp'[NextKey(r)] = out'[r],
         l = "complete" => file'[NextKey(r)] # Nothing,
         l = "complete" /\ NextKey(r) \notin lost => file'[NextKey(r)] = out'[r]
  PROVE  IInv'
<1>k. PICK k \in Keys : k = NextKey(r)
  BY MemoryOf
<1>1. /\ Store!Busy(r) /\ session[r].item = k
      /\ k \notin lost =>
           /\ row[k].status = "running" /\ ~Completed(k)
           /\ \A q \in Runners \ {r} : Store!Busy(q) => session[q].item # k
  BY <1>k, HeldItem
<1>2. pc'[r] = l /\ \A q \in Runners \ {r} : pc'[q] = pc[q]
  BY DEF Goto, IInv, TypeOK
<1>3. TypeOK'
  BY DEF IInv, TypeOK, Goto, Labels, Active, Holding, Store!TypeOK
<1>4. ASSUME NEW q \in Runners, Store!Busy(q)
      PROVE  session[q].item \in Keys
  BY <1>4, MemoryOf
<1>5. \A j \in Keys \ lost : Completed(j) => file'[j] = file[j]
  BY <1>k, <1>1
<1>6. \A j \in Keys : file[j] # Nothing => file'[j] # Nothing
  BY <1>k
<1>7. OthersUntouched(r) /\ Monotone
  BY <1>k, <1>1, <1>2, <1>4, <1>5, <1>6 DEF OthersUntouched, Monotone, Completed
<1>8. FilesAreSound'
  <2>1. ASSUME NEW j \in Keys \ {k}
        PROVE  /\ ArtifactIsSound(j, file[j])' /\ ArtifactIsSound(j, temp[j])'
               /\ Completed(j)' => file'[j] # Nothing
    BY <1>k, <1>7, FilesStay DEF Completed
  <2>2. /\ ArtifactIsSound(k, file[k])' /\ ArtifactIsSound(k, temp[k])'
        /\ Completed(k)' => file'[k] # Nothing
    <3>1. PICK a \in Artifacts : a = file'[k]
      OBVIOUS
    <3>2. PICK b \in Artifacts : b = temp'[k]
      OBVIOUS
    <3>3. ArtifactIsSound(k, a)' /\ ArtifactIsSound(k, b)'
      BY <1>k, <1>7, <3>1, <3>2, ArtifactStays
    <3>4. Completed(k) => file'[k] # Nothing
      BY <1>6 DEF IInv, FilesAreSound
    <3> QED BY <3>1, <3>2, <3>3, <3>4 DEF Completed
  <2> QED BY <2>1, <2>2 DEF FilesAreSound
<1>9. OneHolder'
  BY DEF IInv, OneHolder, Store!Busy
<1>10. StateIsSound(mem[r])'
  <2>1. PICK s \in EpisodeStates : s = mem[r] /\ StateIsSound(s)
    BY MemoryOf
  <2>2. StateIsSound(s)'
    BY <1>7, <2>1, StateStays
  <2> QED BY <2>1, <2>2
<1>11. NextKey(r)' = k /\ mem'[r] = mem[r] /\ Store!Busy(r)'
  BY <1>1, <1>k DEF NextKey, Store!Busy
<1>12. RunnerIsSound(r)'
  BY <1>k, <1>1, <1>2, <1>10, <1>11 DEF RunnerIsSound, Holding, LegalMoves, Chosen
<1> QED BY <1>3, <1>7, <1>8, <1>9, <1>12, StepIsSound

\* What the item a runner holds has on file.
LEMMA OwnFiles ==
  ASSUME IInv, NEW r \in Runners
  PROVE  /\ NextKey(r) \in Keys
         /\ ArtifactIsSound(NextKey(r), file[NextKey(r)])
         /\ ArtifactIsSound(NextKey(r), temp[NextKey(r)])
         /\ ArtifactIsSound(NextKey(r), Nothing)
  BY MemoryOf DEF IInv, FilesAreSound, ArtifactIsSound

LEMMA ActIsSound ==
  ASSUME IInv, NEW r \in Runners, Act(r)
  PROVE  IInv'
<1>1. /\ pc[r] = "act" /\ Goto(r, "write")
      /\ UNCHANGED <<row, session, file, temp, mem, faults, lost>>
  BY DEF Act, files
<1>2. PICK m \in LegalMoves(mem[r]) : out' = [out EXCEPT ![r] = [state |-> mem[r], move |-> m]]
  BY DEF Act, LegalMoves
<1>3. [state |-> mem[r], move |-> m] \in Artifacts
  BY DEF LegalMoves, Chosen, Artifacts, IInv, TypeOK
<1>4. /\ out' \in [Runners -> Artifacts] /\ \A q \in Runners \ {r} : out'[q] = out[q]
      /\ out'[r].state = mem[r] /\ out'[r].move \in LegalMoves(mem[r])
  BY <1>2, <1>3 DEF IInv, TypeOK
<1>5. file' \in [Keys -> Artifacts] /\ temp' \in [Keys -> Artifacts] /\ faults' \in 0..MaxFaults
  BY <1>1 DEF IInv, TypeOK
<1> QED BY <1>1, <1>4, <1>5, OwnFiles, HoldingOnIsSound DEF Holding

\* What r is about to write is an artifact of the item it holds.
LEMMA OwnArtifact ==
  ASSUME IInv, NEW r \in Runners, pc[r] \in {"write", "replace", "complete"}
  PROVE  /\ out[r] \in Artifacts /\ out[r] # Nothing
         /\ ArtifactIsSound(NextKey(r), out[r])
         /\ out[r].state = mem[r] /\ out[r].move \in LegalMoves(mem[r])
<1>1. out[r].state = mem[r] /\ out[r].move \in LegalMoves(mem[r]) /\ out[r] \in Artifacts
  BY DEF IInv, TypeOK, RunnerIsSound
<1>2. NoMove \notin LegalMoves(mem[r])
  BY MovesAssumption DEF LegalMoves, Chosen, NoMove, STOP, Answer
<1>3. out[r] # Nothing
  BY <1>1, <1>2 DEF Nothing
<1> QED BY <1>1, <1>3, MemoryOf DEF ArtifactIsSound

LEMMA WriteIsSound ==
  ASSUME IInv, NEW r \in Runners, WriteTemp(r)
  PROVE  IInv'
<1>k. PICK k \in Keys : k = NextKey(r)
  BY MemoryOf
<1>1. /\ pc[r] = "write" /\ Goto(r, "replace")
      /\ UNCHANGED <<row, session, file, mem, out, faults, lost>>
      /\ temp' = [temp EXCEPT ![k] = out[r]]
  BY <1>k DEF WriteTemp
<1>2. /\ out[r] \in Artifacts /\ ArtifactIsSound(k, out[r])
      /\ out[r].state = mem[r] /\ out[r].move \in LegalMoves(mem[r])
  BY <1>k, <1>1, OwnArtifact
<1>3. /\ temp' \in [Keys -> Artifacts] /\ temp'[k] = out[r]
      /\ \A j \in Keys \ {k} : temp'[j] = temp[j]
      /\ file' \in [Keys -> Artifacts] /\ out' \in [Runners -> Artifacts]
      /\ faults' \in 0..MaxFaults
  BY <1>1, <1>2 DEF IInv, TypeOK
<1> QED BY <1>k, <1>1, <1>2, <1>3, OwnFiles, HoldingOnIsSound DEF Holding

LEMMA ReplaceIsSound ==
  ASSUME IInv, NEW r \in Runners, Replace(r)
  PROVE  IInv'
<1>k. PICK k \in Keys : k = NextKey(r)
  BY MemoryOf
<1>1. /\ pc[r] = "replace" /\ UNCHANGED <<row, session, mem, out, faults, lost>>
      /\ faults' \in 0..MaxFaults /\ out' \in [Runners -> Artifacts]
  BY DEF Replace, IInv, TypeOK
<1>2. /\ out[r].state = mem[r] /\ out[r].move \in LegalMoves(mem[r])
      /\ k \notin lost => temp[k] = out[r]
  BY <1>k, <1>1, OwnArtifact DEF IInv, RunnerIsSound
<1>3. CASE temp[k] # Nothing
  <2>1. /\ file' = [file EXCEPT ![k] = temp[k]]
        /\ temp' = [temp EXCEPT ![k] = Nothing] /\ Goto(r, "complete")
    BY <1>k, <1>3 DEF Replace
  <2>2. /\ temp' \in [Keys -> Artifacts] /\ file' \in [Keys -> Artifacts]
        /\ \A j \in Keys \ {k} : file'[j] = file[j] /\ temp'[j] = temp[j]
        /\ file'[k] = temp[k] /\ temp'[k] = Nothing
    BY <2>1 DEF IInv, TypeOK, Artifacts
  <2> QED BY <1>k, <1>1, <1>2, <1>3, <2>1, <2>2, OwnFiles, HoldingOnIsSound DEF Holding
<1>4. CASE temp[k] = Nothing
  <2>1. UNCHANGED <<file, temp>> /\ Goto(r, "fail")
    BY <1>k, <1>4 DEF Replace, files
  <2> QED BY <1>1, <2>1, MovingIsSound DEF Labels, Active, Holding
<1> QED BY <1>3, <1>4

-----------------------------------------------------------------------------
\* A step after which r holds nothing, and that changes at most the row it held, which
\* was running.
LEMMA LettingGoIsSound ==
  ASSUME IInv, NEW r \in Runners, NEW l \in Labels \ (Holding \cup {"rejected"}), Goto(r, l),
         session' = [session EXCEPT ![r] = Store!Idle],
         UNCHANGED <<file, temp, lost>>, faults' \in 0..MaxFaults,
         mem' \in [Runners -> EpisodeStates], out' \in [Runners -> Artifacts],
         \A q \in Runners \ {r} : mem'[q] = mem[q] /\ out'[q] = out[q],
         row' \in [Keys -> Store!Rows],
         \A k \in Keys :
           row'[k] # row[k] =>
             Store!Busy(r) /\ k = session[r].item /\ row[k].status = "running",
         \A k \in Keys : row'[k].status = "complete" => Completed(k) \/ file[k] # Nothing,
         StateIsSound(mem[r])',
         l = "done" => IsTerminal(mem'[r]) /\ Completed(AnswerKey)'
  PROVE  IInv'
<1>1. Store!Idle \in Store!Sessions
  BY DEF Store!Sessions
<1>2. /\ session' \in [Runners -> Store!Sessions] /\ session'[r] = Store!Idle
      /\ \A q \in Runners \ {r} : session'[q] = session[q]
  BY <1>1 DEF IInv, TypeOK, Store!TypeOK
<1>3. pc'[r] = l /\ pc' \in [Runners -> Labels] /\ \A q \in Runners \ {r} : pc'[q] = pc[q]
  BY DEF IInv, TypeOK, Goto
<1>4. TypeOK'
  BY <1>2, <1>3 DEF IInv, TypeOK, Store!TypeOK
<1>5. ASSUME NEW q \in Runners \ {r}, Store!Busy(q), session[q].item \notin lost
      PROVE  row'[session[q].item] = row[session[q].item]
  <2>1. session[q].item \in Keys
    BY <1>5, MemoryOf
  <2>2. Store!Busy(r) => session[q].item # session[r].item
    BY <1>5 DEF IInv, OneHolder
  <2> QED BY <2>1, <2>2
<1>6. \A k \in Keys : Completed(k) => row'[k].status = "complete"
  BY DEF Completed
<1>7. OthersUntouched(r) /\ Monotone
  BY <1>2, <1>3, <1>5, <1>6 DEF OthersUntouched, Monotone
<1>8. FilesAreSound'
  <2> SUFFICES ASSUME NEW k \in Keys
               PROVE  /\ ArtifactIsSound(k, file[k])' /\ ArtifactIsSound(k, temp[k])'
                      /\ Completed(k)' => file'[k] # Nothing
    BY DEF FilesAreSound
  <2>1. PICK a \in Artifacts : a = file[k]
    BY DEF IInv, TypeOK
  <2>2. PICK b \in Artifacts : b = temp[k]
    BY DEF IInv, TypeOK
  <2>3. ArtifactIsSound(k, a)' /\ ArtifactIsSound(k, b)'
    BY <1>7, <2>1, <2>2, ArtifactStays DEF IInv, FilesAreSound
  <2>4. Completed(k) => file[k] # Nothing
    BY DEF IInv, FilesAreSound
  <2> QED BY <2>1, <2>2, <2>3, <2>4 DEF Completed
<1>9. OneHolder'
  BY <1>2 DEF IInv, OneHolder, Store!Busy
<1>10. RunnerIsSound(r)'
  <2>1. ~Store!Busy(r)'
    BY <1>2 DEF Store!Busy
  <2> QED BY <1>3, <2>1 DEF RunnerIsSound, Holding
<1> QED BY <1>4, <1>7, <1>8, <1>9, <1>10, StepIsSound

\* What is complete stays so when at most a running row changes; so a state stays sound.
LEMMA MemoryStays ==
  ASSUME IInv, NEW r \in Runners, UNCHANGED <<file, lost>>, mem'[r] = mem[r],
         \A k \in Keys : row'[k] # row[k] => row[k].status = "running"
  PROVE  StateIsSound(mem[r])'
<1>1. PICK s \in EpisodeStates : s = mem[r] /\ StateIsSound(s)
  BY MemoryOf
<1>2. Monotone
  BY DEF Monotone, Completed
<1>3. StateIsSound(s)'
  BY <1>1, <1>2, StateStays
<1> QED BY <1>1, <1>3

LEMMA FailIsSound ==
  ASSUME IInv, NEW r \in Runners, Fail(r)
  PROVE  IInv'
<1>k. PICK k \in Keys : k = NextKey(r)
  BY MemoryOf
<1>1. Store!Busy(r) /\ session[r].item = k
  BY <1>k, HeldItem DEF Fail, Holding
<1>2. /\ Goto(r, "raised") /\ UNCHANGED <<file, temp, mem, out, faults, lost>>
      /\ Store!FailRow(k) /\ session' = [session EXCEPT ![r] = Store!Idle]
  BY <1>1 DEF Fail, Store!Fail, files
<1>3. /\ row' \in [Keys -> Store!Rows]
      /\ \A j \in Keys : row'[j] # row[j] => j = k /\ row[k].status = "running"
      /\ \A j \in Keys : row'[j].status = "complete" => Completed(j)
  <2>1. CASE row[k].status = "running"
    <3>1. /\ row' \in [Keys -> Store!Rows] /\ row'[k].status = "failed"
          /\ \A j \in Keys \ {k} : row'[j] = row[j]
      BY <1>2, <2>1, FailedRow DEF IInv, TypeOK
    <3> QED BY <2>1, <3>1 DEF Completed
  <2>2. CASE row[k].status # "running"
    BY <1>2, <2>2 DEF Store!FailRow, IInv, TypeOK, Store!TypeOK, Completed
  <2> QED BY <2>1, <2>2
<1>4. StateIsSound(mem[r])'
  BY <1>2, <1>3, MemoryStays
<1>5. /\ faults' \in 0..MaxFaults /\ mem' \in [Runners -> EpisodeStates]
      /\ out' \in [Runners -> Artifacts]
  BY <1>2 DEF IInv, TypeOK
<1> QED BY <1>1, <1>2, <1>3, <1>4, <1>5, LettingGoIsSound DEF Labels, Active, Holding

LEMMA CrashIsSound ==
  ASSUME IInv, NEW r \in Runners, Crash(r)
  PROVE  IInv'
<1>1. /\ Goto(r, "off") /\ UNCHANGED <<row, file, temp, lost>> /\ faults' \in 0..MaxFaults
      /\ session' = [session EXCEPT ![r] = Store!Idle]
      /\ mem' = [mem EXCEPT ![r] = <<>>] /\ out' = [out EXCEPT ![r] = Nothing]
  BY FaultsAreBounded DEF Crash, Goto, files
<1>2. <<>> \in EpisodeStates
  BY NothingIsAnEpisode
<1>3. /\ mem' \in [Runners -> EpisodeStates] /\ out' \in [Runners -> Artifacts]
      /\ mem'[r] = <<>> /\ row' \in [Keys -> Store!Rows]
      /\ \A q \in Runners \ {r} : mem'[q] = mem[q] /\ out'[q] = out[q]
  BY <1>1, <1>2 DEF IInv, TypeOK, Artifacts, Store!TypeOK
<1>4. StateIsSound(mem[r])'
  BY <1>3, NothingIsAnEpisode
<1> QED BY <1>1, <1>3, <1>4, LettingGoIsSound DEF Labels, Active, Holding, Completed

\* What a runner completes is the next transition, legal where it is taken, or the answer
\* to a run that has stopped.  It is in memory as it is on disk, unless it was taken from
\* a worker; and when it is no longer running the runner gives up.
LEMMA CompleteIsSound ==
  ASSUME IInv, NEW r \in Runners, Complete(r)
  PROVE  IInv'
<1>k. PICK k \in Keys : k = NextKey(r)
  BY MemoryOf
<1>1. /\ pc[r] = "complete" /\ UNCHANGED <<file, temp, out, faults, lost>>
      /\ Store!Busy(r) /\ session[r].item = k /\ session[r].attempt \in 1..MaxFaults + 1
      /\ k \notin lost => row[k].status = "running" /\ file[k] = out[r]
      /\ file[k] # Nothing
      /\ out[r].state = mem[r] /\ out[r].move \in LegalMoves(mem[r])
  BY <1>k, HeldItem, OwnArtifact DEF Complete, files, IInv, RunnerIsSound, Holding
<1>2. Store!CompleteRow(k, session[r].attempt)
  BY <1>1 DEF Complete, Store!Complete
<1>3. /\ faults' \in 0..MaxFaults /\ out' \in [Runners -> Artifacts]
      /\ \A q \in Runners \ {r} : out'[q] = out[q]
  BY <1>1 DEF IInv, TypeOK
<1>4. CASE row[k].status # "running"
  <2>1. /\ UNCHANGED <<row, session, file, temp, mem, out, lost>> /\ Goto(r, "fail")
    BY <1>1, <1>k, <1>2, <1>4 DEF Complete, Store!Complete, Store!CompleteRow
  <2> QED BY <1>1, <1>3, <2>1, MovingIsSound DEF Labels, Active, Holding
<1>5. CASE row[k].status = "running"
  <2>1. /\ session' = [session EXCEPT ![r] = Store!Idle]
        /\ mem' = [mem EXCEPT ![r] =
                     IF out[r].move = Answer THEN mem[r] ELSE Append(mem[r], out[r].move)]
        /\ Goto(r, IF out[r].move = Answer THEN "done" ELSE "claim")
    BY <1>k, <1>1, <1>5 DEF Complete, Store!Complete
  <2>2. /\ row' \in [Keys -> Store!Rows] /\ row'[k].status = "complete"
        /\ \A j \in Keys \ {k} : row'[j] = row[j]
    BY <1>1, <1>2, <1>5, CompletedRow DEF IInv, TypeOK
  <2>3. /\ \A j \in Keys :
             row'[j] # row[j] => Store!Busy(r) /\ j = session[r].item /\ row[j].status = "running"
        /\ \A j \in Keys : row'[j].status = "complete" => Completed(j) \/ file[j] # Nothing
    BY <1>1, <1>5, <2>2 DEF Completed
  <2>4. PICK s \in EpisodeStates : s = mem[r] /\ StateIsSound(s) /\ k = KeyOf(s)
    BY <1>k, MemoryOf
  <2>5. CASE IsTerminal(s)
    <3>1. out[r].move = Answer /\ k = AnswerKey
      BY <1>1, <2>4, <2>5, KeyIsFree DEF LegalMoves
    <3>2. mem' = mem /\ Goto(r, "done")
      BY <2>1, <3>1 DEF IInv, TypeOK
    <3>3. StateIsSound(mem[r])'
      BY <1>1, <2>3, <3>2, MemoryStays
    <3>4. /\ mem' \in [Runners -> EpisodeStates] /\ IsTerminal(mem'[r])
          /\ Completed(AnswerKey)' /\ \A q \in Runners \ {r} : mem'[q] = mem[q]
      BY <2>2, <2>4, <2>5, <3>1, <3>2 DEF IInv, TypeOK, Completed, AnswerKey
    <3> QED BY <1>1, <1>3, <2>1, <2>2, <2>3, <3>2, <3>3, <3>4, LettingGoIsSound
            DEF Labels, Active, Holding
  <2>6. CASE ~IsTerminal(s)
    <3>1. /\ k = Len(s) /\ k \in 0..MaxTransitions - 1 /\ Len(s) # MaxTransitions
          /\ MaxTransitions \in Nat
      BY <2>4, <2>6, KeyIsFree, StatesAreShort
    <3>2. PICK m \in AllMoves : m = out[r].move /\ m \in Chosen(s) /\ m # Answer
      BY <1>1, <2>4, <2>6, MovesAssumption DEF LegalMoves, Chosen, AllMoves, STOP, Answer
    <3>3. mem' = [mem EXCEPT ![r] = Append(s, m)] /\ Goto(r, "claim")
      BY <2>1, <2>4, <3>2
    <3>4. Kept(k + 1) => k \notin lost
      BY <3>1 DEF Kept
    <3>5. /\ StateIsSound(s)' /\ Completed(Len(s))' /\ UNCHANGED file
          /\ (Kept(Len(s) + 1) => file[Len(s)].move = m)'
      <4>1. StateIsSound(s)'
        <5>1. Monotone
          BY <1>1, <2>3 DEF Monotone, Completed
        <5> QED BY <2>4, <5>1, StateStays
      <4>2. Kept(k + 1)' => file'[k].move = m
        BY <1>1, <3>2, <3>4 DEF Kept
      <4>3. (Kept(Len(s) + 1) => file[Len(s)].move = m)'
        BY <3>1, <4>2
      <4> QED BY <1>1, <2>2, <3>1, <4>1, <4>3 DEF Completed
    <3>6. Append(s, m) \in EpisodeStates /\ StateIsSound(Append(s, m))'
      BY <2>6, <3>1, <3>2, <3>5, StateGrowsAfter
    <3>7. /\ mem' \in [Runners -> EpisodeStates] /\ mem'[r] = Append(s, m)
          /\ \A q \in Runners \ {r} : mem'[q] = mem[q]
      BY <3>3, <3>6 DEF IInv, TypeOK
    <3>8. StateIsSound(mem[r])'
      BY <3>6, <3>7
    <3> QED BY <1>1, <1>3, <2>1, <2>2, <2>3, <3>3, <3>7, <3>8, LettingGoIsSound
            DEF Labels, Active, Holding
  <2> QED BY <2>5, <2>6
<1> QED BY <1>4, <1>5

\* An operator who puts back what is running: whoever was at work on it has lost it, and
\* nobody else is affected.
LEMMA ReclaimIsSound ==
  ASSUME IInv, Reclaim
  PROVE  IInv'
<1>1. /\ Store!Pending /\ UNCHANGED <<file, temp, pc, mem, out>> /\ faults' \in 0..MaxFaults
      /\ lost' = lost \cup AtWork /\ AtWork \subseteq Keys
  BY FaultsAreBounded DEF Reclaim, ReclaimOrphans, ReclaimLive, AtWork, files
<1>2. /\ row' \in [Keys -> Store!Rows] /\ UNCHANGED session
      /\ \A k \in Keys : row[k].status # "running" => row'[k] = row[k]
      /\ \A k \in Keys : row[k].status = "running" => row'[k].status = "pending"
  BY <1>1, SweptRows DEF IInv, TypeOK
<1>3. TypeOK' /\ OneHolder'
  BY <1>1, <1>2 DEF IInv, TypeOK, OneHolder, Store!TypeOK, Store!Busy
<1>4. \A k \in Keys : Completed(k)' <=> Completed(k)
  BY <1>2 DEF Completed
<1>5. Monotone
  BY <1>1, <1>4 DEF Monotone, Completed
<1>6. FilesAreSound'
  BY <1>1, <1>4, <1>5, FilesStay DEF FilesAreSound, Completed
<1>7. ASSUME NEW r \in Runners
      PROVE  RunnerIsSound(r)'
  <2>1. PICK k \in Keys : k = NextKey(r) /\ k = NextKey(r)'
    BY <1>1, MemoryOf DEF NextKey, AnswerKey
  <2>2. PICK s \in EpisodeStates : s = mem[r] /\ StateIsSound(s)
    BY MemoryOf
  <2>3. StateIsSound(s)'
    BY <1>5, <2>2, StateStays
  <2>4. (Store!Busy(r)' <=> Store!Busy(r)) /\ RunnerIsSound(r)
    BY <1>2 DEF Store!Busy, IInv
  <2>5. Store!Busy(r) => k \in lost'
    <3>1. Store!Busy(r) /\ k \notin lost => k \in AtWork
      BY <2>1, <2>4 DEF RunnerIsSound, AtWork
    <3> QED BY <1>1, <3>1
  <2>6. pc'[r] = "rejected" => ~Kept(Len(mem[r]))'
    <3>1. ~Kept(Len(s)) => ~Kept(Len(s))'
      BY <1>5 DEF Kept, Monotone
    <3> QED BY <1>1, <2>2, <2>4, <3>1 DEF RunnerIsSound
  <2>7. /\ pc'[r] = "done" => IsTerminal(mem'[r]) /\ Completed(AnswerKey)'
    <3>1. AnswerKey \in Keys
      BY RunAssumption DEF AnswerKey, Keys
    <3> QED BY <1>1, <1>4, <2>4, <3>1 DEF RunnerIsSound, AnswerKey
  <2>8. pc[r] \in {"replace", "complete"} => Store!Busy(r)
    BY <2>4 DEF RunnerIsSound, Holding
  <2> QED BY <1>1, <1>2, <2>1, <2>2, <2>3, <2>4, <2>5, <2>6, <2>7, <2>8
          DEF RunnerIsSound, LegalMoves, Chosen
<1> QED BY <1>3, <1>6, <1>7 DEF IInv

-----------------------------------------------------------------------------
LEMMA InitIsSound ==
  ASSUME Init
  PROVE  IInv
<1>1. <<>> \in EpisodeStates /\ Len(<<>>) = 0 /\ StateIsSound(<<>>)
  BY NothingIsAnEpisode
<1>2. Store!NoRow \in Store!Rows /\ Store!Idle \in Store!Sessions
  <2>1. 0 \in 0..0 /\ 0 \in 0..MaxFaults + 1 /\ "none" \in Store!Statuses
    BY RunAssumption DEF Store!Statuses
  <2>2. Store!NoRow \in Store!Rows
    BY <2>1 DEF Store!NoRow, Store!Rows, Store!NoOutput
  <2> QED BY <2>2 DEF Store!Sessions
<1>3. TypeOK
  <2>1. 0 \in 0..MaxFaults
    BY RunAssumption
  <2>2. Store!TypeOK
    BY <1>2 DEF Init, Store!Init, Store!TypeOK
  <2> QED BY <1>1, <2>1, <2>2 DEF Init, TypeOK, Artifacts, Labels
<1>4. FilesAreSound
  BY DEF Init, Store!Init, Completed, Store!NoRow, FilesAreSound, ArtifactIsSound
<1>5. ASSUME NEW r \in Runners
      PROVE  RunnerIsSound(r)
  <2>1. mem[r] = <<>> /\ pc[r] = "off" /\ ~Store!Busy(r)
    BY DEF Init, Store!Init, Store!Busy
  <2> QED BY <1>1, <2>1 DEF RunnerIsSound, Holding
<1>6. OneHolder
  BY DEF OneHolder, Init, Store!Init, Store!Busy
<1> QED BY <1>3, <1>4, <1>5, <1>6 DEF IInv

LEMMA NextIsSound ==
  ASSUME IInv, [Next]_vars
  PROVE  IInv'
<1>1. CASE Reclaim
  BY <1>1, ReclaimIsSound
<1>2. ASSUME NEW r \in Runners,
             Start(r) \/ Work(r) \/ ClaimLost(r) \/ Raise(r) \/ Crash(r)
      PROVE  IInv'
  BY <1>2, StartIsSound, RestoreIsSound, LoadAnswerIsSound, ClaimIsSound,
     RefusedAndRaisedAreSound, ActIsSound, WriteIsSound, ReplaceIsSound, CompleteIsSound,
     FailIsSound, CrashIsSound DEF Work
<1>3. CASE UNCHANGED vars
  <2>1. /\ UNCHANGED <<row, session, file, temp, pc, mem, out, lost>>
        /\ TypeOK' /\ OneHolder'
    BY <1>3 DEF vars, files, IInv, TypeOK, OneHolder, Store!TypeOK, Store!Busy
  <2>2. Monotone
    BY <2>1 DEF Monotone, Completed
  <2>3. FilesAreSound'
    BY <2>1, <2>2, FilesStay DEF FilesAreSound, Completed
  <2>4. ASSUME NEW r \in Runners PROVE RunnerIsSound(r)'
    <3>1. StateIsSound(mem[r])'
      BY <2>1, MemoryStays
    <3>3. /\ Store!Busy(r)' <=> Store!Busy(r)
          /\ NextKey(r)' = NextKey(r) /\ Completed(AnswerKey)' = Completed(AnswerKey)
      BY <2>1 DEF Store!Busy, NextKey, Completed, AnswerKey, Kept
    <3>4. Kept(Len(mem[r]))' <=> Kept(Len(mem[r]))
      BY <2>1 DEF Kept
    <3> QED BY <2>1, <3>1, <3>3, <3>4 DEF IInv, RunnerIsSound, LegalMoves, Chosen
  <2> QED BY <2>1, <2>3, <2>4 DEF IInv
<1> QED BY <1>1, <1>2, <1>3 DEF Next

\* However runs of one id are interrupted, rerun, interleaved and robbed of their items: the
\* store, the files and every process agree on the moves made so far, as far as no item was
\* taken from a worker at work on it (runner.py:45-107).
THEOREM Invariance == Spec => []IInv
<1>1. Init => IInv
  BY InitIsSound
<1>2. IInv /\ [Next]_vars => IInv'
  BY NextIsSound
<1> QED BY <1>1, <1>2, PTL DEF Spec

-----------------------------------------------------------------------------
\* The artifacts of the completed items are there without a gap, each of a state that has
\* not stopped and the answer to one that has; and up to the first item that was taken from
\* a worker at work on it they are one legal episode, each beginning where the ones before
\* it lead (runner.py:45-70, 80-107).
THEOREM RunsAreReplayable == Spec => []RunIsReplayable
<1>1. IInv => RunIsReplayable
  <2> SUFFICES ASSUME IInv PROVE CompletedItemsChain
    BY DEF IInv, RunIsReplayable
  <2>0. MaxTransitions \in Nat /\ AnswerKey = MaxTransitions /\ Keys = 0..MaxTransitions
    BY RunAssumption DEF AnswerKey, Keys
  <2>1. ASSUME NEW k \in Keys, Completed(k)
        PROVE  /\ file[k] # Nothing /\ StateIsSound(file[k].state)
               /\ KeyOf(file[k].state) = k /\ file[k].state \in EpisodeStates
    BY <2>1 DEF IInv, FilesAreSound, ArtifactIsSound, TypeOK, Artifacts
  <2>2. ASSUME NEW k \in 0..MaxTransitions - 1, Completed(k)
        PROVE  /\ \A j \in 0..k : Completed(j) /\ file[j] # Nothing
               /\ Len(file[k].state) = k /\ ~IsTerminal(file[k].state)
               /\ Kept(k) => file[k].state = Chain(k)
    <3>1. k \in Keys /\ k # AnswerKey
      BY <2>0
    <3>2. ~IsTerminal(file[k].state) /\ Len(file[k].state) = k
      BY <2>1, <2>2, <3>1, KeyIsFree
    <3>3. /\ \A j \in 0..k - 1 : Completed(j)
          /\ Kept(k) => file[k].state = Chain(k)
      BY <2>1, <2>2, <3>1, <3>2 DEF StateIsSound
    <3>4. \A j \in 0..k : Completed(j) /\ j \in Keys
      BY <2>0, <2>2, <3>3
    <3> QED BY <2>1, <3>2, <3>3, <3>4
  <2>3. ASSUME Completed(AnswerKey)
        PROVE  \E k \in 1..MaxTransitions :
                 /\ Completed(k - 1)
                 /\ Len(file[AnswerKey].state) = k /\ IsTerminal(file[AnswerKey].state)
                 /\ Kept(k) => file[AnswerKey].state = Chain(k)
    <3>1. AnswerKey \in Keys
      BY <2>0
    <3>2. PICK s \in EpisodeStates :
            s = file[AnswerKey].state /\ StateIsSound(s) /\ KeyOf(s) = AnswerKey
      BY <2>1, <2>3, <3>1
    <3>3. PICK k \in 1..MaxTransitions : k = Len(s) /\ IsTerminal(s)
      BY <3>2, KeyIsFree
    <3>4. k - 1 \in 0..k - 1
      BY <2>0
    <3> QED BY <3>2, <3>3, <3>4 DEF StateIsSound
  <2> QED BY <2>2, <2>3 DEF CompletedItemsChain
<1> QED BY <1>1, Invariance, PTL

\* No rerun is refused by what earlier runs of the id left behind: not by a gap or a
\* transition that does not replay, nor by an answer to another state, unless one of the
\* transitions it restored was taken from a worker at work on it (runner.py:45-58, 62-70).
THEOREM RerunsAreNeverRejected == Spec => []RerunIsNeverRejected
<1>1. IInv => RerunIsNeverRejected
  BY DEF IInv, RunnerIsSound, RerunIsNeverRejected
<1> QED BY <1>1, Invariance, PTL

\* What any run returns has stopped, all of it is complete, and it is the episode that is on
\* disk, with its answer, unless a transition of it was taken from a worker at work on it;
\* so two runs that return return the same moves (runner.py:40-78).
THEOREM ResultsAreDurable == Spec => []ResultIsDurable
<1>1. IInv => ResultIsDurable
  <2> SUFFICES ASSUME IInv, NEW r \in Runners, pc[r] = "done"
               PROVE  /\ IsTerminal(mem[r]) /\ Len(mem[r]) <= MaxTransitions
                      /\ Completed(AnswerKey) /\ \A j \in 0..Len(mem[r]) - 1 : Completed(j)
                      /\ Kept(Len(mem[r])) =>
                           mem[r] = Chain(Len(mem[r])) /\ file[AnswerKey].state = mem[r]
    BY DEF ResultIsDurable
  <2>1. /\ IsTerminal(mem[r]) /\ Completed(AnswerKey) /\ AnswerKey \in Keys
        /\ mem[r] \in EpisodeStates /\ StateIsSound(mem[r])
    BY MemoryOf, RunAssumption DEF IInv, RunnerIsSound, AnswerKey, Keys
  <2>2. PICK s \in EpisodeStates :
          s = file[AnswerKey].state /\ StateIsSound(s) /\ KeyOf(s) = AnswerKey
    BY <2>1 DEF IInv, FilesAreSound, ArtifactIsSound, TypeOK, Artifacts
  <2>3. IsTerminal(s)
    BY <2>2, KeyIsFree
  <2>4. Kept(Len(mem[r])) => s = mem[r]
    BY <2>1, <2>2, <2>3, OneEnd
  <2>5. Len(mem[r]) <= MaxTransitions
    BY <2>1, StatesAreShort
  <2> QED BY <2>1, <2>2, <2>4, <2>5 DEF StateIsSound
<1> QED BY <1>1, Invariance, PTL
=============================================================================
