---------------------------- MODULE StorageProofs ---------------------------
(***************************************************************************)
(* Theorems about storage/run_store.py.  First the claim lock, for any number *)
(* of callers and processes: each rests on LockIInv of ClaimLock, the labels *)
(* at which a caller owns the thread lock of its process, the flock and an *)
(* open handle.  Then the table, for any items, workers, lease and number of *)
(* attempts: IInv of RunStore says that no session is ahead of its row; a  *)
(* claim raises the row's attempt above every session's, so the attempt it *)
(* hands out is new.                                                       *)
(***************************************************************************)
EXTENDS ClaimLock, RunStore, TLAPS

\* The initial state satisfies the inductive invariant.
LEMMA LockStarts == LockInit => LockIInv
  BY ThreadsAssumption DEF LockInit, LockIInv, LockTypeOK, Ownership, Labels, Inside,
     Outside, Waiting, Leaving, OwnsThreadLock, Errors

\* A step of one caller preserves the types.
LEMMA CallerTypes ==
  ASSUME LockTypeOK, NEW t \in Threads,
         Call(t) \/ DeadlinePasses(t) \/ Wait(t) \/ LeaveBody(t) \/ CleanUp(t)
  PROVE  LockTypeOK'
<1> USE ThreadsAssumption
<1> USE DEF LockTypeOK, Labels, Inside, Outside, Waiting, Leaving, Errors, Goto, Raise, Forget
<1>1. CASE Call(t)              BY <1>1 DEF Call
<1>2. CASE DeadlinePasses(t)    BY <1>2 DEF DeadlinePasses
<1>3. CASE AcquireThreadLock(t) BY <1>3 DEF AcquireThreadLock
<1>4. CASE ThreadLockTimeout(t) BY <1>4 DEF ThreadLockTimeout
<1>5. CASE OpenHandle(t)        BY <1>5 DEF OpenHandle
<1>6. CASE LockFile(t)          BY <1>6 DEF LockFile
<1>7. CASE LockFileFails(t)     BY <1>7 DEF LockFileFails
<1>8. CASE Retry(t)             BY <1>8 DEF Retry
<1>9. CASE GiveUp(t)            BY <1>9 DEF GiveUp
<1>10. CASE LeaveBody(t)        BY <1>10 DEF LeaveBody
<1>11. CASE Unlock(t)
  <2>1. CASE fileLock = t  BY <1>11, <2>1 DEF Unlock
  <2>2. CASE fileLock # t  BY <1>11, <2>2 DEF Unlock
  <2> QED BY <2>1, <2>2
<1>12. CASE Close(t)            BY <1>12 DEF Close
<1>13. CASE Release(t)          BY <1>13 DEF Release
<1> QED
  BY <1>1, <1>2, <1>3, <1>4, <1>5, <1>6, <1>7, <1>8, <1>9, <1>10, <1>11,
     <1>12, <1>13 DEF Wait, CleanUp

\* A step of one caller preserves the ownership of both locks.
LEMMA CallerOwnership ==
  ASSUME LockTypeOK, Ownership, NEW t \in Threads,
         Call(t) \/ DeadlinePasses(t) \/ Wait(t) \/ LeaveBody(t) \/ CleanUp(t)
  PROVE  Ownership'
<1> USE ThreadsAssumption
<1> USE DEF LockTypeOK, Ownership, Inside, Waiting, Leaving, OwnsThreadLock, Goto, Raise
<1>1. CASE Call(t)              BY <1>1 DEF Call
<1>2. CASE DeadlinePasses(t)    BY <1>2 DEF DeadlinePasses
<1>3. CASE AcquireThreadLock(t) BY <1>3 DEF AcquireThreadLock
<1>4. CASE ThreadLockTimeout(t) BY <1>4 DEF ThreadLockTimeout
<1>5. CASE OpenHandle(t)        BY <1>5 DEF OpenHandle
<1>6. CASE LockFile(t)          BY <1>6 DEF LockFile
<1>7. CASE LockFileFails(t)     BY <1>7 DEF LockFileFails
<1>8. CASE Retry(t)             BY <1>8 DEF Retry
<1>9. CASE GiveUp(t)            BY <1>9 DEF GiveUp
<1>10. CASE LeaveBody(t)        BY <1>10 DEF LeaveBody
<1>11. CASE Unlock(t)
  <2>1. fileLock' = fileLock \/ (fileLock = t /\ fileLock' = NoThread)
    BY <1>11 DEF Unlock
  <2>2. /\ pc' = [pc EXCEPT ![t] = "close"] /\ pc[t] = "unlock"
        /\ threadLock' = threadLock /\ handle' = handle
    BY <1>11 DEF Unlock
  <2> QED BY <2>1, <2>2
<1>12. CASE Close(t)
  <2>1. /\ pc' = [pc EXCEPT ![t] = "release"] /\ pc[t] = "close"
        /\ threadLock' = threadLock /\ handle' = handle \ {t}
        /\ fileLock' = IF fileLock = t THEN NoThread ELSE fileLock
    BY <1>12 DEF Close
  <2> QED BY <2>1
<1>13. CASE Release(t)
  <2>1. /\ pc' \in [Threads -> Labels] /\ pc[t] = "release"
        /\ pc'[t] \in {"returned", "timeout", "error"}
        /\ \A u \in Threads \ {t} : pc'[u] = pc[u]
    BY <1>13 DEF Release, Labels, Outside, Errors
  <2>2. /\ threadLock' = [threadLock EXCEPT ![ProcessOf[t]] = NoThread]
        /\ fileLock' = fileLock /\ handle' = handle
    BY <1>13 DEF Release
  <2> QED BY <2>1, <2>2
<1> QED
  BY <1>1, <1>2, <1>3, <1>4, <1>5, <1>6, <1>7, <1>8, <1>9, <1>10, <1>11,
     <1>12, <1>13 DEF Wait, CleanUp

\* The death or the return of a process preserves both.
LEMMA ProcessStep ==
  ASSUME LockIInv, NEW p \in Processes, ProcessDies(p) \/ Restart(p)
  PROVE  LockIInv'
<1> USE ThreadsAssumption DEF LockIInv
<1>1. CASE ProcessDies(p)
  <2>1. LockTypeOK'
    BY <1>1 DEF ProcessDies, LockTypeOK, Labels, Inside, Outside, Errors, Forget
  <2>2. \A t \in Threads : ProcessOf[t] = p =>
          pc'[t] = "dead" /\ threadLock'[ProcessOf[t]] # t
            /\ fileLock' # t /\ t \notin handle'
    BY <1>1 DEF ProcessDies, LockTypeOK
  <2>3. \A t \in Threads : ProcessOf[t] # p =>
          /\ pc'[t] = pc[t]
          /\ threadLock'[ProcessOf[t]] = threadLock[ProcessOf[t]]
          /\ fileLock' = t => fileLock = t
          /\ fileLock = t => fileLock' = t
          /\ t \in handle' <=> t \in handle
    BY <1>1 DEF ProcessDies, LockTypeOK
  <2>4. \A q \in Processes : threadLock'[q] \in Threads => threadLock'[q] = threadLock[q]
    BY <1>1 DEF ProcessDies, LockTypeOK
  <2>5. Ownership'
    BY <2>2, <2>3, <2>4 DEF Ownership, OwnsThreadLock, Inside, Waiting, Leaving
  <2> QED BY <2>1, <2>5
<1>2. CASE Restart(p)
  <2>1. LockTypeOK'
    BY <1>2 DEF Restart, LockTypeOK, Labels, Inside, Outside
  <2>2. \E u \in Threads : ProcessOf[u] = p /\ pc[u] = "dead"
    BY <1>2 DEF Restart
  <2>3. /\ \A u \in Threads : pc'[u] = IF ProcessOf[u] = p THEN "idle" ELSE pc[u]
        /\ threadLock' = threadLock /\ fileLock' = fileLock /\ handle' = handle
    BY <1>2 DEF Restart
  <2>4. \A u \in Threads : ProcessOf[u] = p =>
          pc[u] = "dead" /\ threadLock[ProcessOf[u]] # u /\ fileLock # u /\ u \notin handle
    BY <2>2 DEF Ownership, OwnsThreadLock, Inside, Waiting, Leaving
  <2>5. \A u \in Threads : ProcessOf[u] # p => pc'[u] = pc[u]
    BY <2>3
  <2>6. Ownership'
    BY <2>3, <2>4, <2>5 DEF Ownership, OwnsThreadLock, Inside, Waiting, Leaving
  <2> QED BY <2>1, <2>6
<1> QED BY <1>1, <1>2

\* Every step preserves the inductive invariant.
LEMMA LockGoesOn == LockIInv /\ [LockNext]_lockVars => LockIInv'
<1> SUFFICES ASSUME LockIInv, [LockNext]_lockVars PROVE LockIInv'
  OBVIOUS
<1>1. CASE UNCHANGED lockVars
  BY <1>1 DEF lockVars, LockIInv, LockTypeOK, Ownership
<1>2. CASE LockNext
  BY <1>2, CallerTypes, CallerOwnership, ProcessStep DEF LockNext, LockIInv
<1> QED BY <1>1, <1>2

\* The inductive invariant holds in every reachable state.
THEOREM LockInvariance == LockSpec => []LockIInv
  BY LockStarts, LockGoesOn, PTL DEF LockSpec

\* The variables of the lock keep their types (run_store.py:48-100).
THEOREM LockTypeCorrect == LockSpec => []LockTypeOK
<1>1. LockIInv => LockTypeOK BY DEF LockIInv
<1> QED BY <1>1, LockInvariance, PTL

\* Two callers are never in the body of claim at once, for any number of
\* threads, processes, crashes and failed clean-ups.
THEOREM Exclusion == LockSpec => []MutualExclusion
<1>1. LockIInv => MutualExclusion BY DEF LockIInv, LockTypeOK, Ownership, MutualExclusion
<1> QED BY <1>1, LockInvariance, PTL

\* A caller that is out of _claim_file_lock has left no lock and no handle.
THEOREM NoLeak == LockSpec => []NothingLeaks
<1>1. LockIInv => NothingLeaks
  BY DEF LockIInv, LockTypeOK, Ownership, NothingLeaks, OwnsThreadLock, Inside, Outside,
         Waiting, Leaving
<1> QED BY <1>1, LockInvariance, PTL

-----------------------------------------------------------------------------
\* Initially no body is running.
LEMMA AbstractInit == LockInit => Abstract!Init
  BY DEF LockInit, Abstract!Init, Running

\* A part of a set of at most one element is all of it, or none.
LEMMA PartOfAtMostOne ==
  ASSUME NEW S, NEW R, S \subseteq R, \A t, u \in R : t = u
  PROVE  S = R \/ (R # {} /\ S = {})
<1>1. CASE S = {}
  BY <1>1
<1>2. CASE S # {}
  <2>1. PICK t \in S : TRUE
    BY <1>2
  <2>2. \A u \in R : u \in S
    BY <2>1
  <2> QED BY <2>2
<1> QED BY <1>1, <1>2

\* A step lets one body in when none is running, ends the one that runs, or
\* leaves the running bodies alone.
LEMMA AbstractStep == LockIInv /\ [LockNext]_lockVars => [Abstract!Next]_Running
<1> SUFFICES ASSUME LockIInv, [LockNext]_lockVars PROVE [Abstract!Next]_Running
  OBVIOUS
<1> USE ThreadsAssumption DEF LockIInv, LockTypeOK
<1>0. \A t, u \in Running : t = u /\ fileLock = t
  BY DEF Ownership, Running
<1>1. CASE UNCHANGED lockVars
  BY <1>1 DEF lockVars, Running
<1>2. ASSUME NEW t \in Threads,
             Call(t) \/ DeadlinePasses(t) \/ Wait(t) \/ LeaveBody(t) \/ CleanUp(t)
      PROVE  [Abstract!Next]_Running
  <2>1. CASE LockFile(t)
    <3>1. Running = {}
      BY <1>0, <2>1 DEF LockFile, Running
    <3>2. Running' = {t}
      BY <2>1, <3>1 DEF LockFile, Running, Goto
    <3> QED BY <3>1, <3>2 DEF Abstract!Next, Abstract!Enter
  <2>2. CASE LeaveBody(t)
    <3>1. t \in Running /\ t \notin Running' /\ Running' \subseteq Running
      BY <2>2 DEF LeaveBody, Running, Goto, Raise
    <3>2. Running # {} /\ Running' = {}
      BY ONLY <1>0, <3>1
    <3> QED BY <3>2 DEF Abstract!Next, Abstract!Leave
  <2>3. ASSUME pc[t] # "body", NEW l, l # "body", pc' = pc \/ Goto(t, l)
        PROVE  Running' = Running
    BY <2>3 DEF Running, Goto
  <2>4. CASE Call(t) \/ DeadlinePasses(t) \/ Retry(t) \/ Unlock(t) \/ Close(t)
    BY <2>3, <2>4 DEF Call, DeadlinePasses, Retry, Unlock, Close, Waiting
  <2>5. CASE AcquireThreadLock(t) \/ ThreadLockTimeout(t) \/ LockFileFails(t)
    BY <2>3, <2>5 DEF AcquireThreadLock, ThreadLockTimeout, LockFileFails
  <2>6. CASE OpenHandle(t) \/ GiveUp(t)
    BY <2>3, <2>6 DEF OpenHandle, GiveUp, Raise
  <2>7. CASE Release(t)
    BY <2>3, <2>7 DEF Release, Errors
  <2> QED BY <1>2, <2>1, <2>2, <2>4, <2>5, <2>6, <2>7 DEF Wait, CleanUp
<1>3. ASSUME NEW p \in Processes, ProcessDies(p) \/ Restart(p)
      PROVE  [Abstract!Next]_Running
  <2>1. Running' \subseteq Running
    BY <1>3 DEF ProcessDies, Restart, Running
  <2>2. Running' = Running \/ (Running # {} /\ Running' = {})
    BY ONLY <1>0, <2>1, PartOfAtMostOne
  <2> QED BY <2>2 DEF Abstract!Next, Abstract!Leave
<1> QED BY <1>1, <1>2, <1>3 DEF LockNext

\* The two-level lock implements the abstract one: bodies run one at a time.
THEOREM LockRefinement == LockSpec => Implements
<1>1. LockSpec => [][Abstract!Next]_Running
  BY LockInvariance, AbstractStep, PTL DEF LockSpec
<1> QED BY <1>1, AbstractInit, PTL DEF LockSpec, Implements, Abstract!Spec

-----------------------------------------------------------------------------
\* A record or session of the right type has fields of the right types.
LEMMA RowFields ==
  ASSUME TypeOK, NEW i \in Items
  PROVE  /\ row[i].status \in Statuses
         /\ row[i].attempt \in 0..MaxAttempt
         /\ row[i].worker \in Workers \cup {NoWorker}
         /\ row[i].error \in {NoError, "error"}
         /\ row[i].output \in 0..MaxAttempt
         /\ row[i].age \in 0..Lease
  BY DEF TypeOK, Rows

LEMMA RowType ==
  ASSUME TypeOK, NEW i \in Items
  PROVE  row[i] \in Rows /\ 0 \in 0..Lease
  BY StoreAssumption DEF TypeOK

LEMMA SessionFields ==
  ASSUME TypeOK, NEW w \in Workers, Busy(w)
  PROVE  /\ session[w].item \in Items
         /\ session[w].attempt \in 1..MaxAttempt
         /\ session[w].age \in 0..Lease
  BY DEF TypeOK, Sessions, Busy

\* The initial state satisfies the inductive invariant.
LEMMA InitIInv == Init => IInv
  BY StoreAssumption DEF Init, IInv, TypeOK, SessionsBehindRows,
     OneHolderPerAttempt, Busy, Rows, Sessions, NoRow, Statuses, NoOutput

\* The row that a claim leaves, and what it leaves alone.
LEMMA ClaimedRow ==
  ASSUME TypeOK, NEW i \in Items, NEW w \in Workers, Claimable(i), ClaimRow(i, w)
  PROVE  /\ row' \in [Items -> Rows]
         /\ row'[i].status = "running"
         /\ row'[i].attempt = row[i].attempt + 1
         /\ row'[i].attempt \in 1..MaxAttempt
         /\ \A j \in Items \ {i} : row'[j] = row[j]
<1> USE StoreAssumption DEF TypeOK, Rows, Statuses, Claimable, ClaimRow
<1>1. row[i].attempt + 1 \in 1..MaxAttempt
  BY RowFields
<1> DEFINE new == [row[i] EXCEPT !.status = "running", !.attempt = @ + 1,
                                 !.worker = w, !.error = NoError, !.age = 0]
<1>2. new \in Rows
  BY <1>1, RowFields
<1>3. row' = [row EXCEPT ![i] = new]
  OBVIOUS
<1> QED BY <1>1, <1>2, <1>3

\* What each way to write one row leaves of the table.
LEMMA CompletedRow ==
  ASSUME TypeOK, NEW i \in Items, NEW n \in 1..MaxAttempt, CompleteRow(i, n)
  PROVE  /\ row' \in [Items -> Rows]
         /\ row'[i].attempt = row[i].attempt
         /\ row[i].status = "running" =>
              /\ row'[i].status = "complete" /\ row'[i].output = n
              /\ row'[i].worker = row[i].worker /\ row'[i].error = row[i].error
         /\ row[i].status # "running" => row'[i] = row[i]
         /\ \A j \in Items \ {i} : row'[j] = row[j]
<1> USE StoreAssumption DEF TypeOK, CompleteRow
<1>1. CASE row[i].status = "running"
  <2> DEFINE new == [row[i] EXCEPT !.status = "complete", !.output = n]
  <2>0. n \in 0..MaxAttempt
    OBVIOUS
  <2>1. new \in Rows
    <3>1. row[i] \in Rows
      BY RowType
    <3> QED BY <2>0, <3>1 DEF Rows, Statuses
  <2>2. row' = [row EXCEPT ![i] = new]
    BY <1>1
  <2> QED BY <1>1, <2>1, <2>2 DEF Rows
<1>2. CASE row[i].status # "running"
  BY <1>2
<1> QED BY <1>1, <1>2

LEMMA FailedRow ==
  ASSUME TypeOK, NEW i \in Items, FailRow(i)
  PROVE  /\ row' \in [Items -> Rows]
         /\ row'[i].attempt = row[i].attempt
         /\ row[i].status = "running" =>
              /\ row'[i].status = "failed" /\ row'[i].error = "error"
              /\ row'[i].worker = row[i].worker /\ row'[i].output = row[i].output
         /\ row[i].status # "running" => row'[i] = row[i]
         /\ \A j \in Items \ {i} : row'[j] = row[j]
<1> USE StoreAssumption DEF TypeOK, FailRow
<1>1. CASE row[i].status = "running"
  <2> DEFINE new == [row[i] EXCEPT !.status = "failed", !.error = "error"]
  <2>1. new \in Rows
    BY RowType DEF Rows, Statuses
  <2>2. row' = [row EXCEPT ![i] = new]
    BY <1>1
  <2> QED BY <1>1, <2>1, <2>2 DEF Rows
<1>2. CASE row[i].status # "running"
  BY <1>2
<1> QED BY <1>1, <1>2

LEMMA SweptRows ==
  ASSUME TypeOK, Pending
  PROVE  /\ row' \in [Items -> Rows]
         /\ \A i \in Items :
              /\ Expired(i) =>
                   /\ row'[i].status = "pending" /\ row'[i].worker = NoWorker
                   /\ row'[i].attempt = row[i].attempt
                   /\ row'[i].error = row[i].error /\ row'[i].output = row[i].output
              /\ ~Expired(i) => row'[i] = row[i]
<1> USE StoreAssumption DEF TypeOK, Pending
<1>1. ASSUME NEW i \in Items
      PROVE  [row[i] EXCEPT !.status = "pending", !.worker = NoWorker, !.age = 0] \in Rows
  BY RowType DEF Rows, Statuses
<1> QED BY <1>1 DEF Rows

LEMMA AgedRows ==
  ASSUME TypeOK, Tick
  PROVE  /\ row' \in [Items -> Rows]
         /\ session' \in [Workers -> Sessions]
         /\ \A i \in Items :
              /\ row'[i].status = row[i].status /\ row'[i].attempt = row[i].attempt
              /\ row'[i].worker = row[i].worker
              /\ row'[i].error = row[i].error /\ row'[i].output = row[i].output
              /\ row[i].status # "running" => row'[i] = row[i]
         /\ \A w \in Workers :
              /\ Busy(w)' <=> Busy(w)
              /\ Busy(w) => /\ session'[w].item = session[w].item
                            /\ session'[w].attempt = session[w].attempt
<1> USE StoreAssumption
<1>0. ASSUME NEW a \in 0..Lease PROVE Older(a) \in 0..Lease
  BY DEF Older
<1>1. ASSUME NEW i \in Items
      PROVE  [row[i] EXCEPT !.age = Older(@)] \in Rows
  BY <1>0, RowFields DEF Rows, TypeOK
<1>2. ASSUME NEW w \in Workers, Busy(w)
      PROVE  [session[w] EXCEPT !.age = Older(@)] \in Sessions \ {Idle}
  <2>1. session[w] \in [item : Items, attempt : 1..MaxAttempt, age : 0..Lease]
    BY <1>2 DEF TypeOK, Sessions, Busy
  <2> DEFINE new == [session[w] EXCEPT !.age = Older(@)]
  <2>2. new \in [item : Items, attempt : 1..MaxAttempt, age : 0..Lease]
    BY <1>0, <2>1
  <2>3. "age" \in DOMAIN new /\ "age" \notin DOMAIN Idle
    BY <2>2 DEF Idle
  <2> QED BY <2>2, <2>3 DEF Sessions
<1>3. row' \in [Items -> Rows]
  BY <1>1 DEF TypeOK, Tick
<1>4. session' \in [Workers -> Sessions]
  BY <1>2 DEF TypeOK, Tick, Sessions
<1>5. \A i \in Items :
        /\ row'[i].status = row[i].status /\ row'[i].attempt = row[i].attempt
        /\ row'[i].worker = row[i].worker
        /\ row'[i].error = row[i].error /\ row'[i].output = row[i].output
        /\ row[i].status # "running" => row'[i] = row[i]
  BY DEF TypeOK, Tick, Rows
<1>6. \A w \in Workers :
        /\ Busy(w)' <=> Busy(w)
        /\ Busy(w) => /\ session'[w].item = session[w].item
                      /\ session'[w].attempt = session[w].attempt
  BY <1>2 DEF TypeOK, Tick, Sessions, Busy
<1> QED BY <1>3, <1>4, <1>5, <1>6

\* No operation lowers an attempt or makes a row disappear; a session at the
\* row's new attempt is that of the one worker whose claim made it.
LEMMA NextIInv == IInv /\ [Next]_vars => IInv'
<1> SUFFICES ASSUME IInv, [Next]_vars PROVE IInv'
  OBVIOUS
<1>0. TypeOK /\ SessionsBehindRows /\ OneHolderPerAttempt
  BY DEF IInv
<1> USE <1>0, StoreAssumption
<1>1. CASE UNCHANGED vars
  BY <1>1 DEF vars, IInv, TypeOK, SessionsBehindRows, OneHolderPerAttempt, Busy
<1>2. ASSUME NEW w \in Workers, NEW i \in Items, Claim(w, i)
      PROVE  IInv'
  <2>1. /\ row' \in [Items -> Rows]
        /\ row'[i].status = "running" /\ row'[i].attempt = row[i].attempt + 1
        /\ row'[i].attempt \in 1..MaxAttempt
        /\ \A j \in Items \ {i} : row'[j] = row[j]
    BY <1>2, ClaimedRow DEF Claim
  <2>2. session' = [session EXCEPT ![w] = [item |-> i, attempt |-> row'[i].attempt, age |-> 0]]
    BY <1>2 DEF Claim
  <2>3. session'[w] = [item |-> i, attempt |-> row'[i].attempt, age |-> 0]
        /\ session'[w] \in Sessions
    BY <2>1, <2>2 DEF TypeOK, Sessions
  <2>4. TypeOK'
    BY <2>1, <2>2, <2>3 DEF TypeOK
  <2>5. \A v \in Workers \ {w} : session'[v] = session[v]
    BY <2>2 DEF TypeOK
  <2>6. ASSUME NEW v \in Workers \ {w}, Busy(v)
        PROVE  /\ session[v].item \in Items
               /\ row'[session[v].item].status # "none"
               /\ session[v].attempt <= row'[session[v].item].attempt
               /\ session[v].item = i => session[v].attempt < row'[i].attempt
    BY <2>1, <2>6, SessionFields, RowFields DEF SessionsBehindRows
  <2>7. SessionsBehindRows'
    BY <2>1, <2>3, <2>5, <2>6 DEF SessionsBehindRows, Busy
  <2>8. OneHolderPerAttempt'
    <3> SUFFICES ASSUME NEW u \in Workers, NEW v \in Workers, u # v,
                        Busy(u)', Busy(v)', session'[u].item = session'[v].item,
                        session'[u].attempt = session'[v].attempt
                 PROVE  FALSE
      BY DEF OneHolderPerAttempt
    <3>1. CASE u # w /\ v # w
      BY <2>5, <3>1 DEF OneHolderPerAttempt, Busy
    <3>2. CASE u = w
      BY <2>1, <2>3, <2>5, <2>6, <3>2, SessionFields DEF Busy
    <3>3. CASE v = w
      BY <2>1, <2>3, <2>5, <2>6, <3>3, SessionFields DEF Busy
    <3> QED BY <3>1, <3>2, <3>3
  <2> QED BY <2>4, <2>7, <2>8 DEF IInv
<1>3. ASSUME NEW w \in Workers, NEW i \in Items, ClaimLost(w, i)
      PROVE  IInv'
  <2>1. /\ row' \in [Items -> Rows]
        /\ row'[i].status = "running" /\ row'[i].attempt = row[i].attempt + 1
        /\ \A j \in Items \ {i} : row'[j] = row[j]
        /\ session' = session
    BY <1>3, ClaimedRow DEF ClaimLost
  <2>2. SessionsBehindRows'
    BY <2>1, SessionFields, RowFields DEF SessionsBehindRows, Busy
  <2> QED BY <2>1, <2>2 DEF IInv, TypeOK, OneHolderPerAttempt, Busy
<1>4. ASSUME NEW w \in Workers, Complete(w) \/ Fail(w) \/ Crash(w)
      PROVE  IInv'
  <2>1. Busy(w) /\ (session' = [session EXCEPT ![w] = Idle] \/ session' = session)
    BY <1>4 DEF Complete, Fail, Crash
  <2>2. /\ row' \in [Items -> Rows]
        /\ \A i \in Items : /\ row'[i].attempt = row[i].attempt
                            /\ row[i].status # "none" => row'[i].status # "none"
    <3>1. CASE Complete(w)
      BY <3>1, <2>1, SessionFields, CompletedRow DEF Complete
    <3>2. CASE Fail(w)
      BY <3>2, <2>1, SessionFields, FailedRow DEF Fail
    <3>3. CASE Crash(w)
      BY <3>3 DEF Crash, TypeOK
    <3> QED BY <1>4, <3>1, <3>2, <3>3
  <2>3. \A v \in Workers : Busy(v)' => Busy(v) /\ session'[v] = session[v]
    BY <2>1 DEF Busy, TypeOK
  <2>4. TypeOK'
    BY <2>1, <2>2 DEF TypeOK, Sessions
  <2>5. SessionsBehindRows'
    BY <2>2, <2>3, SessionFields DEF SessionsBehindRows
  <2>6. OneHolderPerAttempt'
    BY <2>3 DEF OneHolderPerAttempt
  <2> QED BY <2>4, <2>5, <2>6 DEF IInv
<1>5. CASE Pending
  <2>1. row' \in [Items -> Rows] /\ session' = session
    BY <1>5, SweptRows DEF Pending
  <2>2. \A i \in Items : /\ row'[i].attempt = row[i].attempt
                         /\ row[i].status # "none" => row'[i].status # "none"
    BY <1>5, SweptRows
  <2>3. SessionsBehindRows'
    BY <2>1, <2>2, SessionFields DEF SessionsBehindRows, Busy
  <2> QED BY <2>1, <2>3 DEF IInv, TypeOK, OneHolderPerAttempt, Busy
<1>6. CASE Tick
  <2>1. TypeOK'
    BY <1>6, AgedRows DEF TypeOK
  <2>2. SessionsBehindRows'
    BY <1>6, AgedRows, SessionFields DEF SessionsBehindRows
  <2>3. OneHolderPerAttempt'
    BY <1>6, AgedRows DEF OneHolderPerAttempt
  <2> QED BY <2>1, <2>2, <2>3 DEF IInv
<1> QED BY <1>1, <1>2, <1>3, <1>4, <1>5, <1>6 DEF Next

\* The inductive invariant holds in every reachable state.
THEOREM Invariance == Spec => []IInv
  BY InitIInv, NextIInv, PTL DEF Spec

\* Rows and sessions keep their types.
THEOREM TypeCorrect == Spec => []TypeOK
<1>1. IInv => TypeOK BY DEF IInv
<1> QED BY <1>1, Invariance, PTL

\* Two workers never work on the same attempt of an item, for any number of
\* workers and whatever was reclaimed, failed, lost or completed late.
THEOREM ClaimsAreExclusive == Spec => []OneHolderPerAttempt
<1>1. IInv => OneHolderPerAttempt BY DEF IInv
<1> QED BY <1>1, Invariance, PTL

-----------------------------------------------------------------------------
\* No step touches a complete row.
LEMMA StepKeepsComplete ==
  ASSUME IInv, Next, NEW i \in Items, row[i].status = "complete"
  PROVE  row'[i] = row[i]
<1>0. TypeOK BY DEF IInv
<1> USE <1>0
<1>1. ASSUME NEW w \in Workers, NEW j \in Items, Claim(w, j) \/ ClaimLost(w, j)
      PROVE  row'[i] = row[i]
  <2>1. Claimable(j) /\ ClaimRow(j, w)
    BY <1>1 DEF Claim, ClaimLost
  <2>2. i # j
    BY <2>1 DEF Claimable
  <2> QED BY <2>1, <2>2, ClaimedRow
<1>2. ASSUME NEW w \in Workers, Complete(w)
      PROVE  row'[i] = row[i]
  BY <1>2, SessionFields, CompletedRow DEF Complete
<1>3. ASSUME NEW w \in Workers, Fail(w)
      PROVE  row'[i] = row[i]
  BY <1>3, SessionFields, FailedRow DEF Fail
<1>4. ASSUME NEW w \in Workers, Crash(w)
      PROVE  row'[i] = row[i]
  BY <1>4 DEF Crash
<1>5. CASE Pending
  BY <1>5, SweptRows DEF Expired
<1>6. CASE Tick
  BY <1>6, AgedRows
<1> QED BY <1>1, <1>2, <1>3, <1>4, <1>5, <1>6 DEF Next

\* A complete item is final, for any number of workers with stale sessions.
THEOREM CompletionIsFinal == Spec => CompleteIsFinal
<1>1. IInv /\ [Next]_vars =>
        [\A i \in Items : row[i].status = "complete" => row'[i] = row[i]]_vars
  BY StepKeepsComplete
<1> QED BY <1>1, Invariance, PTL DEF Spec, CompleteIsFinal

-----------------------------------------------------------------------------
\* Every operation leaves rows that readers can rely on.
LEMMA NextCoherent == IInv /\ RowsAreCoherent /\ [Next]_vars => RowsAreCoherent'
<1> SUFFICES ASSUME IInv, RowsAreCoherent, [Next]_vars PROVE RowsAreCoherent'
  OBVIOUS
<1>0. TypeOK BY DEF IInv
<1> USE <1>0
<1> DEFINE Coherent(r) ==
      /\ r.error # NoError <=> r.status = "failed"
      /\ r.output # NoOutput <=> r.status = "complete"
      /\ r.status \in {"none", "pending"} <=> r.worker = NoWorker
      /\ r.status # "none" /\ r.status # "pending" => r.attempt > 0
<1>1. \A i \in Items : Coherent(row[i])
  BY DEF RowsAreCoherent
<1> SUFFICES \A i \in Items : Coherent(row'[i])
  BY DEF RowsAreCoherent
<1>2. ASSUME NEW i \in Items, row'[i] = row[i] PROVE Coherent(row'[i])
  BY <1>1, <1>2
<1>3. CASE UNCHANGED vars
  BY <1>2, <1>3 DEF vars
<1>4. ASSUME NEW w \in Workers, NEW j \in Items, Claim(w, j) \/ ClaimLost(w, j)
      PROVE  \A i \in Items : Coherent(row'[i])
  <2>1. Claimable(j) /\ ClaimRow(j, w)
    BY <1>4 DEF Claim, ClaimLost
  <2>2. /\ row'[j].status = "running" /\ row'[j].attempt \in 1..MaxAttempt
        /\ \A i \in Items \ {j} : row'[i] = row[i]
    BY <2>1, ClaimedRow
  <2>3. row'[j].worker = w /\ row'[j].error = NoError /\ row'[j].output = row[j].output
    BY <2>1 DEF ClaimRow, TypeOK, Rows
  <2>4. row[j].output = NoOutput
    BY <1>1, <2>1 DEF Claimable
  <2>5. Coherent(row'[j])
    BY <2>2, <2>3, <2>4, WorkersAssumption, StoreAssumption
  <2> QED BY <1>2, <2>2, <2>5
<1>5. ASSUME NEW w \in Workers, Complete(w)
      PROVE  \A i \in Items : Coherent(row'[i])
  <2> DEFINE j == session[w].item
             n == session[w].attempt
  <2>1. j \in Items /\ n \in 1..MaxAttempt /\ CompleteRow(j, n)
    BY <1>5, SessionFields DEF Complete
  <2> HIDE DEF j, n
  <2>2. /\ row'[j].attempt = row[j].attempt
        /\ row[j].status = "running" =>
             /\ row'[j].status = "complete" /\ row'[j].output = n
             /\ row'[j].worker = row[j].worker /\ row'[j].error = row[j].error
        /\ row[j].status # "running" => row'[j] = row[j]
        /\ \A i \in Items \ {j} : row'[i] = row[i]
    BY <2>1, CompletedRow
  <2>3. n # NoOutput
    BY <2>1, StoreAssumption DEF NoOutput
  <2>4. Coherent(row'[j])
    BY <1>1, <2>1, <2>2, <2>3
  <2> QED BY <1>2, <2>2, <2>4
<1>6. ASSUME NEW w \in Workers, Fail(w)
      PROVE  \A i \in Items : Coherent(row'[i])
  <2> DEFINE j == session[w].item
  <2>1. j \in Items /\ FailRow(j)
    BY <1>6, SessionFields DEF Fail
  <2> HIDE DEF j
  <2>2. /\ row'[j].attempt = row[j].attempt
        /\ row[j].status = "running" =>
             /\ row'[j].status = "failed" /\ row'[j].error = "error"
             /\ row'[j].worker = row[j].worker /\ row'[j].output = row[j].output
        /\ row[j].status # "running" => row'[j] = row[j]
        /\ \A i \in Items \ {j} : row'[i] = row[i]
    BY <2>1, FailedRow
  <2>3. Coherent(row'[j])
    BY <1>1, <2>1, <2>2 DEF NoError
  <2> QED BY <1>2, <2>2, <2>3
<1>7. ASSUME NEW w \in Workers, Crash(w)
      PROVE  \A i \in Items : Coherent(row'[i])
  BY <1>2, <1>7 DEF Crash
<1>8. CASE Pending
  <2>1. ASSUME NEW i \in Items, Expired(i) PROVE Coherent(row'[i])
    BY <1>1, <1>8, <2>1, SweptRows DEF Expired
  <2>2. ASSUME NEW i \in Items, ~Expired(i) PROVE Coherent(row'[i])
    BY <1>2, <1>8, <2>2, SweptRows
  <2> QED BY <2>1, <2>2
<1>9. CASE Tick
  BY <1>1, <1>9, AgedRows
<1> QED BY <1>3, <1>4, <1>5, <1>6, <1>7, <1>8, <1>9 DEF Next

\* Errors, outputs and workers appear exactly in the rows they belong to.
THEOREM RowsStayCoherent == Spec => []RowsAreCoherent
<1>1. Init => RowsAreCoherent
  <2> SUFFICES ASSUME Init, NEW i \in Items
               PROVE  /\ row[i].error # NoError <=> row[i].status = "failed"
                      /\ row[i].output # NoOutput <=> row[i].status = "complete"
                      /\ row[i].status \in {"none", "pending"} <=> row[i].worker = NoWorker
                      /\ row[i].status # "none" /\ row[i].status # "pending"
                           => row[i].attempt > 0
    BY DEF RowsAreCoherent
  <2>1. row[i] = NoRow
    BY DEF Init
  <2> QED BY <2>1 DEF NoRow
<1> QED BY <1>1, NextCoherent, Invariance, PTL DEF Spec
=============================================================================
