----------------------------- MODULE ClaimLock -----------------------------
(***************************************************************************)
(* The lock around RunStore.claim (storage/run_store.py, lines 13-100): a  *)
(* lock shared by the threads of one process, then a non-blocking flock on *)
(* a file shared by the processes, both bounded by one deadline, and a     *)
(* clean-up that must give back whatever had been taken on every path.     *)
(*                                                                         *)
(* A thread is one caller.  The deadline is a flag per caller that the     *)
(* passing of time raises: a caller never learns more about the clock than *)
(* `remaining <= 0`.  Names that every component has begin with Lock here, *)
(* as what is proved of the lock is proved beside the store's theorems.    *)
(***************************************************************************)
CONSTANTS Threads,    \* the callers
          Processes,  \* the processes they run in
          ProcessOf,  \* Threads -> Processes
          NoThread    \* a lock that nobody holds

ASSUME ThreadsAssumption ==
  /\ ProcessOf \in [Threads -> Processes]
  /\ NoThread \notin Threads

VARIABLES
  pc,           \* where each caller is in _claim_file_lock
  late,         \* is the caller's deadline behind it?
  threadLock,   \* _CLAIM_LOCKS[path] of each process: its owner
  fileLock,     \* the owner of the flock on the lock file
  handle,       \* the callers with an open handle on the lock file
  primary,      \* the exception that left the try block, if any
  cleanup       \* did the finally block meet an exception of its own?

lockVars == <<pc, late, threadLock, fileLock, handle, primary, cleanup>>

\* A caller that is outside: not called yet, returned, raised, or its process died.
Outside  == {"idle", "returned", "timeout", "error", "dead"}
Waiting  == {"acquire", "open", "try", "retry"}
Leaving  == {"unlock", "close", "release"}
Inside   == Waiting \cup {"body"} \cup Leaving
Errors   == {"none", "timeout", "error"}

LockInit ==
  /\ pc = [t \in Threads |-> "idle"]
  /\ late = [t \in Threads |-> FALSE]
  /\ threadLock = [p \in Processes |-> NoThread]
  /\ fileLock = NoThread
  /\ handle = {}
  /\ primary = [t \in Threads |-> "none"]
  /\ cleanup = [t \in Threads |-> FALSE]

Goto(t, label) == pc' = [pc EXCEPT ![t] = label]

\* The frames of the callers in T are gone, and their locals with them.
Forget(T) ==
  /\ late' = [t \in Threads |-> t \notin T /\ late[t]]
  /\ primary' = [t \in Threads |-> IF t \in T THEN "none" ELSE primary[t]]
  /\ cleanup' = [t \in Threads |-> t \notin T /\ cleanup[t]]

\* The exception e leaves the try block and the finally block starts.
Raise(t, e) == /\ primary' = [primary EXCEPT ![t] = e]
               /\ Goto(t, "unlock")

-----------------------------------------------------------------------------
\* The call: the deadline is taken and the path's lock of this process is
\* looked up (created on the first use, under _CLAIM_LOCKS_GUARD).
Call(t) ==
  /\ pc[t] \in {"idle", "returned", "timeout", "error"}
  /\ Goto(t, "acquire")
  /\ UNCHANGED <<late, threadLock, fileLock, handle, primary, cleanup>>

\* time.monotonic() passes the caller's deadline.
DeadlinePasses(t) ==
  /\ pc[t] \in Waiting
  /\ ~late[t]
  /\ late' = [late EXCEPT ![t] = TRUE]
  /\ UNCHANGED <<pc, threadLock, fileLock, handle, primary, cleanup>>

\* thread_lock.acquire(timeout=...) succeeds.
AcquireThreadLock(t) ==
  /\ pc[t] = "acquire"
  /\ threadLock[ProcessOf[t]] = NoThread
  /\ threadLock' = [threadLock EXCEPT ![ProcessOf[t]] = t]
  /\ Goto(t, "open")
  /\ UNCHANGED <<late, fileLock, handle, primary, cleanup>>

\* thread_lock.acquire(timeout=...) gives up: raised outside the try block, so
\* there is nothing to clean up.
ThreadLockTimeout(t) ==
  /\ pc[t] = "acquire"
  /\ late[t]
  /\ threadLock[ProcessOf[t]] # NoThread
  /\ Goto(t, "timeout")
  /\ Forget({t})
  /\ UNCHANGED <<threadLock, fileLock, handle>>

\* open(path, "a+b") and the first byte of a new lock file.  Either may raise:
\* open leaves no handle behind, write leaves an open one.
OpenHandle(t) ==
  /\ pc[t] = "open"
  /\ \/ /\ handle' = handle \cup {t}
        /\ Goto(t, "try")
        /\ UNCHANGED primary
     \/ /\ UNCHANGED handle
        /\ Raise(t, "error")
     \/ /\ handle' = handle \cup {t}
        /\ Raise(t, "error")
  /\ UNCHANGED <<late, threadLock, fileLock, cleanup>>

\* Mutant of LockFile: LOCK_SH instead of LOCK_EX.
LockFileShared(t) ==
  /\ pc[t] = "try"
  /\ fileLock' = t
  /\ Goto(t, "body")
  /\ UNCHANGED <<late, threadLock, handle, primary, cleanup>>

\* _try_lock_handle succeeds.
LockFile(t) ==
  /\ pc[t] = "try"
  /\ fileLock = NoThread
  /\ fileLock' = t
  /\ Goto(t, "body")
  /\ UNCHANGED <<late, threadLock, handle, primary, cleanup>>

\* _try_lock_handle raises OSError: another open handle has the flock, or the
\* call itself failed.  Both take the same branch.
LockFileFails(t) ==
  /\ pc[t] = "try"
  /\ Goto(t, "retry")
  /\ UNCHANGED <<late, threadLock, fileLock, handle, primary, cleanup>>

\* Mutant of Retry: the loop never looks at the deadline.
RetryForEver(t) ==
  /\ pc[t] = "retry"
  /\ Goto(t, "try")
  /\ UNCHANGED <<late, threadLock, fileLock, handle, primary, cleanup>>

\* remaining > 0: sleep and try once more; otherwise TimeoutError.
Retry(t) ==
  /\ pc[t] = "retry"
  /\ ~late[t]
  /\ Goto(t, "try")
  /\ UNCHANGED <<late, threadLock, fileLock, handle, primary, cleanup>>

\* Mutant of GiveUp: the TimeoutError of the file lock skips the clean-up.
GiveUpAtOnce(t) ==
  /\ pc[t] = "retry"
  /\ late[t]
  /\ Goto(t, "timeout")
  /\ UNCHANGED <<late, threadLock, fileLock, handle, primary, cleanup>>

GiveUp(t) ==
  /\ pc[t] = "retry"
  /\ late[t]
  /\ Raise(t, "timeout")
  /\ UNCHANGED <<late, threadLock, fileLock, handle, cleanup>>

\* The body of the with statement ends, normally or with an exception.
LeaveBody(t) ==
  /\ pc[t] = "body"
  /\ \E e \in {"none", "error"} : Raise(t, e)
  /\ UNCHANGED <<late, threadLock, fileLock, handle, cleanup>>

-----------------------------------------------------------------------------
\* finally: each step runs whatever the one before did; the first exception of
\* the clean-up is remembered.  A failing LOCK_UN leaves the flock in place.
Unlock(t) ==
  /\ pc[t] = "unlock"
  /\ Goto(t, "close")
  /\ IF fileLock = t
       THEN \/ fileLock' = NoThread /\ UNCHANGED cleanup
            \/ cleanup' = [cleanup EXCEPT ![t] = TRUE] /\ UNCHANGED fileLock
       ELSE UNCHANGED <<fileLock, cleanup>>
  /\ UNCHANGED <<late, threadLock, handle, primary>>

\* Mutant of Close: the handle is shared, and closing it drops the flock of
\* whoever has it.
CloseDropsAnyLock(t) ==
  /\ pc[t] = "close"
  /\ Goto(t, "release")
  /\ handle' = handle \ {t}
  /\ fileLock' = NoThread
  /\ UNCHANGED <<late, threadLock, primary, cleanup>>

\* handle.close(): even when it raises, the descriptor is gone, and the kernel
\* drops a flock with the last descriptor of its open file.
Close(t) ==
  /\ pc[t] = "close"
  /\ Goto(t, "release")
  /\ handle' = handle \ {t}
  /\ fileLock' = IF fileLock = t THEN NoThread ELSE fileLock
  /\ \/ UNCHANGED cleanup
     \/ t \in handle /\ cleanup' = [cleanup EXCEPT ![t] = TRUE]
  /\ UNCHANGED <<late, threadLock, primary>>

\* Mutant of Release: the caller is always told of the try block's exception,
\* even when there was none.
ReleaseRaisesNone(t) ==
  /\ pc[t] = "release"
  /\ threadLock' = [threadLock EXCEPT ![ProcessOf[t]] = NoThread]
  /\ Goto(t, primary[t])
  /\ Forget({t})
  /\ UNCHANGED <<fileLock, handle>>

\* thread_lock.release(), and what the caller is told: the exception of the
\* try block if there was one, else the exception of the clean-up.
Release(t) ==
  /\ pc[t] = "release"
  /\ threadLock' = [threadLock EXCEPT ![ProcessOf[t]] = NoThread]
  /\ Goto(t, CASE primary[t] # "none" -> primary[t]
               [] primary[t] = "none" /\ cleanup[t] -> "error"
               [] OTHER -> "returned")
  /\ Forget({t})
  /\ UNCHANGED <<fileLock, handle>>

\* A process dies: its threads, its thread lock and its descriptors with it.
ProcessDies(p) ==
  /\ \E t \in Threads : ProcessOf[t] = p /\ pc[t] \in Inside
  /\ pc' = [t \in Threads |-> IF ProcessOf[t] = p THEN "dead" ELSE pc[t]]
  /\ Forget({t \in Threads : ProcessOf[t] = p})
  /\ threadLock' = [threadLock EXCEPT ![p] = NoThread]
  /\ handle' = {t \in handle : ProcessOf[t] # p}
  /\ fileLock' = IF fileLock \in Threads /\ ProcessOf[fileLock] = p
                   THEN NoThread ELSE fileLock

Restart(p) ==
  /\ \E t \in Threads : ProcessOf[t] = p /\ pc[t] = "dead"
  /\ pc' = [t \in Threads |-> IF ProcessOf[t] = p THEN "idle" ELSE pc[t]]
  /\ UNCHANGED <<late, threadLock, fileLock, handle, primary, cleanup>>

\* What a caller does between the call and the body, and after the body.
Wait(t) ==
  \/ AcquireThreadLock(t) \/ ThreadLockTimeout(t) \/ OpenHandle(t)
  \/ LockFile(t) \/ LockFileFails(t) \/ Retry(t) \/ GiveUp(t)

CleanUp(t) == Unlock(t) \/ Close(t) \/ Release(t)

LockNext ==
  \/ \E t \in Threads :
       Call(t) \/ DeadlinePasses(t) \/ Wait(t) \/ LeaveBody(t) \/ CleanUp(t)
  \/ \E p \in Processes : ProcessDies(p) \/ Restart(p)

LockSpec == LockInit /\ [][LockNext]_lockVars

\* The threads are scheduled and the clock runs; nothing is assumed of the
\* body, which may hang, and nothing of crashes.
Fairness ==
  \A t \in Threads : WF_lockVars(Wait(t)) /\ WF_lockVars(CleanUp(t))
                     /\ WF_lockVars(DeadlinePasses(t))

LockFairSpec == LockSpec /\ Fairness

-----------------------------------------------------------------------------
Labels == Outside \cup Inside

LockTypeOK ==
  /\ pc \in [Threads -> Labels]
  /\ late \in [Threads -> BOOLEAN]
  /\ threadLock \in [Processes -> Threads \cup {NoThread}]
  /\ fileLock \in Threads \cup {NoThread}
  /\ handle \subseteq Threads
  /\ primary \in [Threads -> Errors]
  /\ cleanup \in [Threads -> BOOLEAN]

\* Two callers are never in the body of claim at once, whether they are threads
\* of one process or of two (run_store.py:49, 77).
MutualExclusion ==
  \A t, u \in Threads : pc[t] = "body" /\ pc[u] = "body" => t = u

\* A caller that is outside has left nothing behind: no thread lock, no flock
\* and no open handle, whichever exception of the body or of the clean-up it
\* left with (run_store.py:81-100).
NothingLeaks ==
  \A t \in Threads : pc[t] \in Outside =>
    /\ threadLock[ProcessOf[t]] # t
    /\ fileLock # t
    /\ t \notin handle

\* A caller never waits for ever, even when the holder of the lock hangs in its
\* body: it gets in, is told that it timed out, or its process dies
\* (run_store.py:54, 73-76).
NoCallerWaitsForEver ==
  \A t \in Threads : pc[t] \in Waiting ~> pc[t] \in Outside \cup {"body"}

-----------------------------------------------------------------------------
\* The inductive invariant: who owns what at each label, and that a process
\* dies as a whole.
OwnsThreadLock == Inside \ {"acquire"}

Ownership ==
  /\ \A t \in Threads : pc[t] \in OwnsThreadLock <=> threadLock[ProcessOf[t]] = t
  /\ \A p \in Processes : threadLock[p] \in Threads => ProcessOf[threadLock[p]] = p
  /\ \A t \in Threads : pc[t] = "body" => fileLock = t
  /\ \A t \in Threads : fileLock = t => pc[t] \in {"body", "unlock", "close"}
  /\ \A t \in Threads : t \in handle => pc[t] \in {"try", "retry", "body", "unlock", "close"}
  /\ \A t \in Threads : pc[t] \in {"try", "retry", "body"} => t \in handle
  /\ \A t, u \in Threads :
       ProcessOf[t] = ProcessOf[u] /\ pc[t] = "dead" => pc[u] = "dead"

LockIInv == LockTypeOK /\ Ownership

\* The lock as seen by the bodies it guards, in the abstract lock's terms.
Running == {t \in Threads : pc[t] = "body"}
Abstract == INSTANCE Mutex WITH running <- Running

\* The two-level lock implements the abstract one: a body starts only when no
\* other is running, through every timeout, failed clean-up and crash
\* (run_store.py:47-100).
Implements == Abstract!Spec
=============================================================================
