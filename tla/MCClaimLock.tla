---------------------------- MODULE MCClaimLock ----------------------------
(* Three callers in two processes: two contend for a thread lock, two for   *)
(* the flock.                                                               *)
EXTENDS ClaimLock, TLC
CONSTANTS t1, t2, t3, p1, p2

MCThreads   == {t1, t2, t3}
MCProcesses == {p1, p2}
MCProcessOf == (t1 :> p1) @@ (t2 :> p1) @@ (t3 :> p2)
=============================================================================
