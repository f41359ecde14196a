--------------------------- MODULE AtomicRegister ---------------------------
(***************************************************************************)
(* What GenerationStore promises: a register that a write changes at one   *)
(* moment between its call and its return.  A write that was given up, as  *)
(* it raised or its process died, took effect once or not at all, and takes *)
(* none afterwards.                                                        *)
(***************************************************************************)
CONSTANTS Writers, Values, Empty

VARIABLES value,     \* what a reader gets
          write      \* Writers -> the write at work, or how the last one ended

Ends == {"not called", "returned", "given up"}
Ended(how) == [at |-> how, value |-> Empty]
Writing(v) == [at |-> "called", value |-> v]
Taken(v)   == [at |-> "taken", value |-> v]

AInit == value = Empty /\ write = [w \in Writers |-> Ended("not called")]

ACall(w, v) ==
  /\ write[w].at \in Ends
  /\ write' = [write EXCEPT ![w] = Writing(v)]
  /\ UNCHANGED value

ATake(w) ==
  /\ write[w].at = "called"
  /\ value' = write[w].value
  /\ write' = [write EXCEPT ![w] = Taken(write[w].value)]

AReturn(w) ==
  /\ write[w].at = "taken"
  /\ write' = [write EXCEPT ![w] = Ended("returned")]
  /\ UNCHANGED value

AGiveUp(w) ==
  /\ write[w].at \notin Ends
  /\ write' = [write EXCEPT ![w] = Ended("given up")]
  /\ UNCHANGED value

ANext == \E w \in Writers :
  \/ \E v \in Values : ACall(w, v)
  \/ ATake(w) \/ AReturn(w) \/ AGiveUp(w)

ASpec == AInit /\ [][ANext]_<<value, write>>
=============================================================================
