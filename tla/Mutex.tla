------------------------------- MODULE Mutex -------------------------------
(***************************************************************************)
(* What `with _claim_file_lock(path, timeout)` promises to the body of     *)
(* RunStore.claim: bodies run one at a time, whichever threads of          *)
(* whichever processes run them, and one that ends or dies makes room.     *)
(***************************************************************************)
CONSTANT Threads

VARIABLE running     \* the callers whose body is running

Init == running = {}

Enter(t) == running = {} /\ running' = {t}

Leave == running # {} /\ running' = {}

Next == Leave \/ \E t \in Threads : Enter(t)

Spec == Init /\ [][Next]_running
=============================================================================
