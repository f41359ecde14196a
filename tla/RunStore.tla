------------------------------ MODULE RunStore ------------------------------
(***************************************************************************)
(* The table of resumable work items (storage/run_store.py, lines 101-137) *)
(* and the workers that use it.  Each operation is one DuckDB statement or *)
(* one transaction, hence one step; claim runs it under the lock that      *)
(* ClaimLock models.                                                       *)
(*                                                                         *)
(* What a worker knows of the item it works on is a session: the item, the *)
(* attempt its claim made and its age.  The store keeps no such thing: it  *)
(* updates any running row for whoever asks, which is what the properties  *)
(* below are about.  Time is the age of a running row, counted in ticks up *)
(* to the lease, since that comparison is all the code makes of it.        *)
(***************************************************************************)
EXTENDS Naturals

CONSTANTS Items, Workers,
          Lease,         \* lease_seconds, in ticks
          MaxAttempt     \* bound: claims of one item

ASSUME StoreAssumption ==
  /\ Lease \in Nat
  /\ MaxAttempt \in Nat \ {0}

VARIABLES
  row,       \* Items -> the row of the item
  session    \* Workers -> what the worker is working on

vars == <<row, session>>

Statuses == {"none", "pending", "running", "complete", "failed"}
NoWorker == "no worker"
NoError  == "no error"
NoOutput == 0

ASSUME WorkersAssumption == NoWorker \notin Workers

\* The columns: error stands for error_type and error_message, output for
\* output_uri (the attempt that produced the file it names), age for the time
\* since started_at.  "none" is a key without a row.
Rows == [status : Statuses, attempt : 0..MaxAttempt,
         worker : Workers \cup {NoWorker}, error : {NoError, "error"},
         output : 0..MaxAttempt, age : 0..Lease]

NoRow == [status |-> "none", attempt |-> 0, worker |-> NoWorker,
          error |-> NoError, output |-> NoOutput, age |-> 0]

Idle == [item |-> "no item"]
Sessions == [item : Items, attempt : 1..MaxAttempt, age : 0..Lease] \cup {Idle}
Busy(w) == session[w] # Idle

Init ==
  /\ row = [i \in Items |-> NoRow]
  /\ session = [w \in Workers |-> Idle]

-----------------------------------------------------------------------------
Claimable(i) ==
  /\ row[i].status \in {"none", "pending", "failed"}
  /\ row[i].attempt < MaxAttempt

\* Mutant of ClaimRow: started_at and the error columns are left as they were.
ClaimRowKeepsError(i, w) ==
  row' = [row EXCEPT ![i].status = "running", ![i].attempt = @ + 1, ![i].worker = w]

\* Mutant of ClaimRow: only the first claim counts as an attempt.
ClaimRowOneAttempt(i, w) ==
  row' = [row EXCEPT ![i].status = "running", ![i].attempt = 1,
                     ![i].worker = w, ![i].error = NoError, ![i].age = 0]

\* The claiming transaction: INSERT ... ON CONFLICT DO NOTHING, then the UPDATE
\* of a pending or failed row.  output_uri is not reset.
ClaimRow(i, w) ==
  row' = [row EXCEPT ![i].status = "running", ![i].attempt = @ + 1,
                     ![i].worker = w, ![i].error = NoError, ![i].age = 0]

\* claim returns True.
Claim(w, i) ==
  /\ ~Busy(w)
  /\ Claimable(i)
  /\ ClaimRow(i, w)
  /\ session' = [session EXCEPT ![w] = [item |-> i, attempt |-> row'[i].attempt, age |-> 0]]

\* The claim commits and the caller never learns of it: the clean-up of the
\* lock raised (ClaimLock: no exception in the body, "error" for the caller),
\* or the process died before the call returned.
ClaimLost(w, i) ==
  /\ ~Busy(w)
  /\ Claimable(i)
  /\ ClaimRow(i, w)
  /\ UNCHANGED session

\* Mutant of CompleteRow: the UPDATE does not look at the status.
CompleteAnyRow(i, n) ==
  row' = [row EXCEPT ![i].status = "complete", ![i].output = n]

\* The UPDATE of complete: it asks for a running row, not for the caller's
\* attempt.  When it finds none the caller gets ValueError.
CompleteRow(i, n) ==
  row' = IF row[i].status = "running"
           THEN [row EXCEPT ![i].status = "complete", ![i].output = n]
           ELSE row

\* A worker that produced its output calls complete.  When that raises it still
\* has its session: what it does next is to call fail.
Complete(w) ==
  /\ Busy(w)
  /\ CompleteRow(session[w].item, session[w].attempt)
  /\ session' = IF row[session[w].item].status = "running"
                  THEN [session EXCEPT ![w] = Idle] ELSE session

\* Mutant of FailRow: it sets a status that the table does not have.
FailRowUnknown(i) ==
  row' = IF row[i].status = "running"
           THEN [row EXCEPT ![i].status = "error", ![i].error = "error"]
           ELSE row

\* The UPDATE of fail: the same condition.
FailRow(i) ==
  row' = IF row[i].status = "running"
           THEN [row EXCEPT ![i].status = "failed", ![i].error = "error"]
           ELSE row

Fail(w) ==
  /\ Busy(w)
  /\ FailRow(session[w].item)
  /\ session' = [session EXCEPT ![w] = Idle]

\* A worker dies, or leaves without a word (an exception outside its try block).
Crash(w) ==
  /\ Busy(w)
  /\ session' = [session EXCEPT ![w] = Idle]
  /\ UNCHANGED row

\* Mutant of Expired: < where <= is meant, so that the age a row stays at when
\* nobody returns never counts as over.
ExpiredTooLate(i) == row[i].status = "running" /\ row[i].age > Lease

\* started_at <= now - lease_seconds
Expired(i) == row[i].status = "running" /\ row[i].age >= Lease

\* pending: every running row whose lease is over is put back.  The row keeps
\* its attempt; its worker may still be at work.
Pending ==
  /\ \E i \in Items : Expired(i)
  /\ row' = [i \in Items |->
               IF Expired(i) THEN [row[i] EXCEPT !.status = "pending",
                                                 !.worker = NoWorker, !.age = 0]
                             ELSE row[i]]
  /\ UNCHANGED session

\* Time passes for the running rows and for the workers.
Older(age) == IF age < Lease THEN age + 1 ELSE age

Tick ==
  /\ \/ \E i \in Items : row[i].status = "running" /\ row[i].age < Lease
     \/ \E w \in Workers : Busy(w) /\ session[w].age < Lease
  /\ row' = [i \in Items |->
               IF row[i].status = "running" THEN [row[i] EXCEPT !.age = Older(@)]
                                            ELSE row[i]]
  /\ session' = [w \in Workers |->
                   IF Busy(w) THEN [session[w] EXCEPT !.age = Older(@)] ELSE Idle]

Next ==
  \/ \E w \in Workers, i \in Items : Claim(w, i) \/ ClaimLost(w, i)
  \/ \E w \in Workers : Complete(w) \/ Fail(w) \/ Crash(w)
  \/ Pending
  \/ Tick

Spec == Init /\ [][Next]_vars

\* Time passes, and somebody keeps calling pending: the store leaves both to
\* its user.  Nothing is assumed of the workers.
FairSpec == Spec /\ WF_vars(Tick) /\ WF_vars(Pending)

-----------------------------------------------------------------------------
TypeOK ==
  /\ row \in [Items -> Rows]
  /\ session \in [Workers -> Sessions]

\* Two workers never work on the same attempt of an item: a claim wins alone,
\* whatever was reclaimed, failed or lost before it (run_store.py:110-118).
OneHolderPerAttempt ==
  \A v, w \in Workers :
    Busy(v) /\ Busy(w) /\ session[v].item = session[w].item
      /\ session[v].attempt = session[w].attempt => v = w

\* A complete item is final: no claim, failure, sweep or second completion by a
\* worker whose lease was taken away changes its row (run_store.py:117-129).
CompleteIsFinal ==
  [][\A i \in Items : row[i].status = "complete" => row'[i] = row[i]]_vars

\* What a reader of a row may rely on: only a failed item shows an error, only
\* a complete one an output, a waiting one belongs to nobody, and a running or
\* complete one names a worker and an attempt.
RowsAreCoherent ==
  \A i \in Items :
    /\ row[i].error # NoError <=> row[i].status = "failed"
    /\ row[i].output # NoOutput <=> row[i].status = "complete"
    /\ row[i].status \in {"none", "pending"} <=> row[i].worker = NoWorker
    /\ row[i].status # "none" /\ row[i].status # "pending" => row[i].attempt > 0

\* An attempt whose worker vanished, or never knew that it had one, does not
\* keep its item for ever (run_store.py:126-129).
AttemptsEnd ==
  \A i \in Items, n \in 1..MaxAttempt :
    row[i].status = "running" /\ row[i].attempt = n
      ~> row[i].status # "running" \/ row[i].attempt > n

-----------------------------------------------------------------------------
\* The inductive invariant: no session is ahead of its row, and one at the
\* row's own attempt came from the claim that made that attempt.
SessionsBehindRows ==
  \A w \in Workers : Busy(w) =>
    /\ row[session[w].item].status # "none"
    /\ session[w].attempt <= row[session[w].item].attempt

IInv == TypeOK /\ SessionsBehindRows /\ OneHolderPerAttempt
=============================================================================
