------------------------- MODULE DaggerRoundsProofs -------------------------
(***************************************************************************)
(* Theorems about the rounds of a DAgger run, for any number of rounds and *)
(* of errors, deaths and power failures.  They rest on IInv of             *)
(* DaggerRounds: what was accepted or named by a pointer is already beyond *)
(* the reach of a power failure, and a generation is removed only while    *)
(* nothing rests on it.                                                    *)
(***************************************************************************)
EXTENDS DaggerRounds, TLAPS

\* The rounds are numbers, and neither nothing nor damage is a generation.
LEMMA Basics ==
  /\ MinRounds \in Nat /\ MaxRounds \in Nat /\ MaxFaults \in Nat
  /\ 2 <= MinRounds /\ MinRounds <= MaxRounds
  /\ Rounds \subseteq Nat /\ 1 \in Rounds /\ MaxRounds \in Rounds
  /\ \A r \in Rounds : 1 <= r /\ r <= MaxRounds /\ r \in Nat
  /\ \A r \in Nat : 1 <= r /\ r <= MaxRounds => r \in Rounds
  /\ Nothing # Damaged
  /\ Nothing \notin Generation /\ Damaged \notin Generation
  /\ Nothing \notin Pointer
  BY RoundsAssumption DEF Rounds

\* A round that is not the last has one after it, and all before it are rounds.
LEMMA Neighbours ==
  /\ \A r \in Rounds : r # MaxRounds => r + 1 \in Rounds
  /\ \A r \in Rounds : r # 1 => r - 1 \in Rounds
  /\ \A r, n \in Rounds : r <= n => r < n \/ r = n
  /\ \A n \in Rounds : \A r \in 1..n : r \in Rounds /\ (r < n \/ r = n)
  BY RoundsAssumption DEF Rounds

\* The initial state satisfies the inductive invariant.
LEMMA InitIInv == Init => IInv
<1> SUFFICES ASSUME Init PROVE IInv
  OBVIOUS
<1> USE Basics DEF Init
<1>1. TypeOK
  <2>1. kept \in [Rounds -> SUBSET Contents] /\ gens \in [Rounds -> Contents]
    BY DEF Contents
  <2>2. /\ \A r \in Rounds : gens[r] \in kept[r]
        /\ accepted \in [Rounds -> Generation \cup {Nothing}]
    OBVIOUS
  <2>3. ours \in BOOLEAN /\ pc \in Outside \cup Inside
    BY DEF Outside
  <2>5. faults \in 0..MaxFaults
    BY Basics
  <2>4. /\ pointer \in keptPointer /\ keptPointer \subseteq Pointer \cup {Nothing}
        /\ staging \subseteq Rounds /\ round \in Rounds
        /\ base \in Nat /\ trained \in Nat
        /\ work \in Generation \cup {Nothing}
    OBVIOUS
  <2> QED BY ONLY <2>1, <2>2, <2>3, <2>4, <2>5 DEF TypeOK, DiskTypes, RunTypes
<1>2. LastRoundStops
  BY DEF LastRoundStops
<1>3. AcceptedAreDurable
  BY DEF AcceptedAreDurable
<1>4. PointersAreSound
  BY DEF PointersAreSound
<1>5. RunIsSound
  BY DEF RunIsSound, AtWork, Inside, Publishing
<1> QED BY <1>1, <1>2, <1>3, <1>4, <1>5 DEF IInv

-----------------------------------------------------------------------------
\* Nothing rests on a round that is not whole on disk.
LEMMA NothingRestsOnIt ==
  ASSUME TypeOK, AcceptedAreDurable, PointersAreSound, gens[round] \notin Generation
  PROVE  RoundIsFree
<1> USE Basics
<1>1. accepted[round] = Nothing
  BY DEF TypeOK, DiskTypes, RunTypes, AcceptedAreDurable
<1>2. ASSUME NEW p \in keptPointer, p # Nothing PROVE p.round < round
  <2>1. p.round \in Rounds /\ AcceptedBefore(p.round) /\ Durable(p.round)
    BY <1>2 DEF PointersAreSound
  <2>2. round # p.round /\ ~(round < p.round)
    BY <2>1 DEF TypeOK, DiskTypes, RunTypes, AcceptedBefore, Durable, Continues
  <2>3. p.round \in Nat /\ round \in Nat
    BY <2>1 DEF TypeOK, DiskTypes, RunTypes
  <2> QED BY ONLY <2>2, <2>3
<1> QED BY <1>1, <1>2 DEF RoundIsFree

\* A change of the entry of a round that nothing rests on disturbs neither what
\* was accepted nor a pointer, nor the rounds before it.
LEMMA EntryIsHarmless ==
  ASSUME TypeOK, AcceptedAreDurable, PointersAreSound, RoundIsFree,
         AcceptedBefore(round),
         NEW c \in Contents, Entry(round, c),
         accepted' = accepted, keptPointer' = keptPointer, round' = round
  PROVE  /\ AcceptedAreDurable' /\ PointersAreSound' /\ RoundIsFree'
         /\ AcceptedBefore(round)' /\ SourceOf(round)' = SourceOf(round)
<1> USE Basics
<1>1. /\ gens' = [gens EXCEPT ![round] = c]
      /\ \A r \in Rounds : r # round => gens'[r] = gens[r] /\ kept'[r] = kept[r]
  BY DEF Entry, TypeOK, DiskTypes, RunTypes
<1>2. AcceptedAreDurable'
  BY <1>1 DEF AcceptedAreDurable, RoundIsFree
<1>3. \A r \in Rounds : r <= round => SourceOf(r)' = SourceOf(r)
  <2> SUFFICES ASSUME NEW r \in Rounds, r <= round PROVE SourceOf(r)' = SourceOf(r)
    OBVIOUS
  <2>1. r # 1 => r - 1 \in Rounds /\ r - 1 # round
    BY DEF TypeOK, DiskTypes, RunTypes
  <2> QED BY <1>1, <2>1 DEF SourceOf
<1>4. \A r \in Rounds : r < round =>
        /\ gens'[r] = gens[r] /\ (Durable(r) => Durable(r)')
  BY <1>1, <1>3 DEF Durable, Continues, TypeOK, RunTypes
<1>5. \A n \in Rounds : n <= round /\ AcceptedBefore(n) => AcceptedBefore(n)'
  BY <1>4 DEF AcceptedBefore, TypeOK, RunTypes
<1>6. PointersAreSound'
  <2> SUFFICES ASSUME NEW p \in keptPointer, p # Nothing
               PROVE  /\ p.round \in Rounds
                      /\ AcceptedBefore(p.round)'
                      /\ Durable(p.round)'
                      /\ gens'[p.round].id = p.id
    BY DEF PointersAreSound
  <2>1. /\ p.round \in Rounds /\ AcceptedBefore(p.round)
        /\ Durable(p.round) /\ gens[p.round].id = p.id
    BY DEF PointersAreSound
  <2>2. p.round < round
    BY DEF RoundIsFree
  <2> QED BY <2>1, <2>2, <1>4, <1>5 DEF TypeOK, DiskTypes, RunTypes
<1>7. RoundIsFree'
  BY DEF RoundIsFree
<1> QED BY <1>2, <1>3, <1>5, <1>6, <1>7 DEF TypeOK, DiskTypes, RunTypes

\* Neither an fsync of the directory nor a power failure disturbs what is
\* durable: either leaves of each entry one of the things that might be left.
LEMMA SettlingIsHarmless ==
  ASSUME TypeOK, LastRoundStops, AcceptedAreDurable, PointersAreSound,
         \A r \in Rounds : gens'[r] \in kept[r] /\ kept'[r] = {gens'[r]},
         accepted' = accepted, keptPointer' \subseteq keptPointer
  PROVE  /\ LastRoundStops' /\ AcceptedAreDurable' /\ PointersAreSound'
         /\ \A n \in Rounds : AcceptedBefore(n) =>
              AcceptedBefore(n)' /\ SourceOf(n)' = SourceOf(n)
<1> USE Basics
<1>1. LastRoundStops'
  BY DEF LastRoundStops
<1>2. AcceptedAreDurable'
  BY DEF AcceptedAreDurable
<1>3. \A r \in Rounds : Durable(r) => gens'[r] = gens[r]
  BY DEF Durable
<1>4. ASSUME NEW n \in Rounds, AcceptedBefore(n)
      PROVE  /\ SourceOf(n)' = SourceOf(n)
             /\ \A r \in Rounds : r < n => gens'[r] = gens[r] /\ SourceOf(r)' = SourceOf(r)
  <2>1. \A r \in Rounds : r < n => gens'[r] = gens[r]
    BY <1>3, <1>4 DEF AcceptedBefore
  <2>2. \A r \in Rounds : r # 1 /\ r <= n => r - 1 \in Rounds /\ r - 1 < n
    OBVIOUS
  <2>3. \A r \in Rounds : r <= n => SourceOf(r)' = SourceOf(r)
    BY <2>1, <2>2 DEF SourceOf
  <2> QED BY <2>1, <2>3
<1>5. ASSUME NEW n \in Rounds, AcceptedBefore(n) PROVE AcceptedBefore(n)'
  <2> SUFFICES ASSUME NEW r \in Rounds, r < n
               PROVE  Durable(r)' /\ accepted'[r] = gens'[r] /\ ~gens'[r].stopped
    BY DEF AcceptedBefore
  <2>1. Durable(r) /\ accepted[r] = gens[r] /\ ~gens[r].stopped
    BY <1>5 DEF AcceptedBefore
  <2>2. gens'[r] = gens[r] /\ SourceOf(r)' = SourceOf(r)
    BY <1>4, <1>5
  <2>3. Durable(r)'
    BY <2>1, <2>2 DEF Durable, Continues
  <2> QED BY <2>1, <2>2, <2>3
<1>6. ASSUME NEW n \in Rounds, AcceptedBefore(n), Durable(n) PROVE Durable(n)'
  BY <1>3, <1>4, <1>6 DEF Durable, Continues
<1>7. PointersAreSound'
  BY <1>3, <1>5, <1>6 DEF PointersAreSound
<1> QED BY <1>1, <1>2, <1>4, <1>5, <1>7

-----------------------------------------------------------------------------
\* Every step preserves the types of what is on disk.
LEMMA NextDiskTypes ==
  ASSUME IInv, Next
  PROVE  DiskTypes'
<1> USE Basics DEF DiskTypes
<1>0. DiskTypes /\ round \in Rounds /\ work \in Generation \cup {Nothing}
  BY DEF IInv, TypeOK, RunTypes
<1>1. CASE UNCHANGED <<gens, kept, pointer, keptPointer>> /\ staging' \subseteq Rounds
  BY <1>0, <1>1
<1>2. CASE Run \/ Begin \/ TrainFails
  <2>1. /\ UNCHANGED <<gens, kept, pointer, keptPointer>>
        /\ staging' \subseteq staging \cup {round}
    BY <1>2 DEF Run, Begin, TrainFails
  <2> QED BY <1>0, <1>1, <2>1
<1>3. CASE UNCHANGED disk
  BY <1>0, <1>1, <1>3 DEF disk
<1>4. ASSUME NEW c \in Contents, Entry(round, c), UNCHANGED <<pointer, keptPointer>>,
             staging' \subseteq staging
      PROVE  DiskTypes'
  <2>1. gens' \in [Rounds -> Contents] /\ kept' \in [Rounds -> SUBSET Contents]
    BY <1>0, <1>4 DEF Entry
  <2>2. \A r \in Rounds : gens'[r] \in kept'[r]
    BY <1>0, <1>4 DEF Entry
  <2> QED BY <1>0, <1>4, <2>1, <2>2
<1>5. CASE Rename
  <2>1. work \in Contents
    BY <1>0, <1>5 DEF Contents
  <2>2. /\ Entry(round, work) /\ UNCHANGED <<pointer, keptPointer>>
        /\ staging' \subseteq staging
    BY <1>5 DEF Rename
  <2> QED BY <1>4, <2>1, <2>2
<1>6. CASE BeginRemove \/ EndRemove
  <2>1. Nothing \in Contents /\ Damaged \in Contents
    BY DEF Contents
  <2>2. /\ Entry(round, Nothing) \/ Entry(round, Damaged)
        /\ UNCHANGED <<pointer, keptPointer>> /\ staging' \subseteq staging
    BY <1>6 DEF BeginRemove, EndRemove
  <2> QED BY <1>4, <2>1, <2>2
<1>7. CASE SyncGenerations
  <2>1. kept' \in [Rounds -> SUBSET Contents]
    BY <1>0, <1>7 DEF SyncGenerations
  <2> QED BY <1>0, <1>7, <2>1 DEF SyncGenerations
<1>8. CASE ReplacePointer
  <2>1. pointer' \in Pointer
    BY <1>0, <1>8 DEF ReplacePointer, IInv, RunIsSound, Publishing, Pointer, Generation
  <2> QED BY <1>0, <1>8, <2>1 DEF ReplacePointer
<1>9. CASE SyncRoot
  BY <1>0, <1>9 DEF SyncRoot
<1>10. CASE PowerFailure
  <2>1. PICK g \in [Rounds -> UNION {kept[r] : r \in Rounds}] :
          /\ \A r \in Rounds : g[r] \in kept[r]
          /\ gens' = g
          /\ kept' = [r \in Rounds |-> {g[r]}]
    BY <1>10 DEF PowerFailure
  <2>2. \A r \in Rounds : g[r] \in Contents
    BY <1>0, <2>1
  <2>3. gens' \in [Rounds -> Contents] /\ kept' \in [Rounds -> SUBSET Contents]
    BY <2>1, <2>2
  <2>4. \A r \in Rounds : gens'[r] \in kept'[r]
    BY <2>1
  <2>5. staging' \subseteq Rounds /\ pointer' \in keptPointer'
        /\ keptPointer' \subseteq keptPointer
    BY <1>0, <1>10 DEF PowerFailure
  <2> QED BY <1>0, <2>3, <2>4, <2>5
<1>11. CASE StartAfresh \/ Resume \/ LoadRefused \/ Republish \/ Train
  BY <1>3, <1>11 DEF StartAfresh, Resume, LoadRefused, Republish, Train
<1>12. CASE NotAttempted \/ ReplacePointerFails \/ SyncRootFails \/ RemoveFails \/ Crash
  BY <1>3, <1>12 DEF NotAttempted, ReplacePointerFails, SyncRootFails, RemoveFails,
     Crash, disk
<1> QED
  BY <1>2, <1>5, <1>6, <1>7, <1>8, <1>9, <1>10, <1>11, <1>12 DEF Next, Work, Raises

\* What acceptance does to the run: it returns, or goes on to the next round.
LEMMA AcceptTypes ==
  ASSUME IInv, pc = "sync root", Accept
  PROVE  /\ accepted' = [accepted EXCEPT ![round] = work]
         /\ accepted' \in [Rounds -> Generation \cup {Nothing}]
         /\ work \in Generation /\ base' = work.id /\ base' \in Nat
         /\ round' \in Rounds /\ work' = work /\ ours' = ours
         /\ \/ pc' = "returned"
            \/ pc' = "loop" /\ ~work.stopped /\ round' = round + 1
<1> USE Basics
<1>1. /\ work \in Generation /\ (round = MaxRounds => work.stopped)
      /\ round \in Rounds /\ accepted \in [Rounds -> Generation \cup {Nothing}]
  BY DEF IInv, TypeOK, RunTypes, RunIsSound, Publishing
<1>2. round # MaxRounds => round + 1 \in Rounds
  BY <1>1, Neighbours
<1>3. work.id \in Nat
  BY <1>1 DEF Generation
<1>4. accepted' \in [Rounds -> Generation \cup {Nothing}]
  BY <1>1 DEF Accept
<1> QED BY <1>1, <1>2, <1>3, <1>4 DEF Accept

\* The current pointer, when there is one, names a chain on disk.
LEMMA PointerIsSound ==
  ASSUME IInv, pointer # Nothing
  PROVE  /\ pointer.round \in Rounds /\ pointer.id \in Nat
         /\ AcceptedBefore(pointer.round) /\ Durable(pointer.round)
         /\ gens[pointer.round] \in Generation
         /\ gens[pointer.round].id = pointer.id
         /\ pointer.round = MaxRounds => gens[pointer.round].stopped
<1> USE Basics
<1>1. /\ pointer \in keptPointer /\ pointer \in Pointer
  BY DEF IInv, TypeOK, DiskTypes
<1>2. /\ pointer.round \in Rounds
      /\ AcceptedBefore(pointer.round) /\ Durable(pointer.round)
      /\ gens[pointer.round].id = pointer.id
  BY <1>1 DEF IInv, PointersAreSound
<1>3. gens[pointer.round] \in Generation
  BY <1>2 DEF Durable, Continues
<1>4. pointer.id \in Nat
  BY <1>1 DEF Pointer
<1>5. gens[pointer.round] \in kept[pointer.round]
  BY <1>2 DEF IInv, TypeOK, DiskTypes
<1> QED BY <1>2, <1>3, <1>4, <1>5 DEF IInv, LastRoundStops

\* Every step preserves the types of the run and of what was accepted.
LEMMA NextRunTypes ==
  ASSUME IInv, Next
  PROVE  RunTypes' /\ accepted' \in [Rounds -> Generation \cup {Nothing}]
<1> USE Basics DEF RunTypes
<1>0. RunTypes /\ accepted \in [Rounds -> Generation \cup {Nothing}]
  BY DEF IInv, TypeOK
<1>1. faults' = faults \/ Fault
  BY DEF Next, Work, Raises, Run, StartAfresh, Resume, LoadRefused, Republish,
     Begin, Train, Rename, SyncGenerations, ReplacePointer, SyncRoot, BeginRemove,
     EndRemove, TrainFails, NotAttempted, ReplacePointerFails, SyncRootFails,
     RemoveFails, Crash, PowerFailure
<1>2. faults' \in 0..MaxFaults
  BY <1>0, <1>1 DEF Fault
<1>3. ASSUME UNCHANGED <<memory, trained, accepted>>, pc' \in Outside \cup Inside
      PROVE  RunTypes' /\ accepted' \in [Rounds -> Generation \cup {Nothing}]
  BY <1>0, <1>2, <1>3 DEF memory
<1>4. CASE Run
  <2>1. /\ round' = 1 /\ base' = 0 /\ work' = Nothing /\ ours' = FALSE
        /\ trained' = trained /\ accepted' = accepted /\ pc' = "load"
    BY <1>4 DEF Run
  <2> QED BY <1>0, <1>2, <2>1 DEF Inside
<1>5. CASE Resume
  <2>1. /\ pointer.round \in Rounds /\ pointer.id \in Nat
        /\ pointer.round = MaxRounds => gens[pointer.round].stopped
    BY <1>5, PointerIsSound DEF Resume
  <2>2. /\ round' \in Rounds
        /\ pc' \in Outside \cup Inside
    <3>1. CASE gens[pointer.round].stopped
      <4>1. pc' = "returned" /\ round' \in {round, pointer.round}
        BY <1>5, <3>1 DEF Resume
      <4> QED BY <1>0, <2>1, <4>1 DEF Outside
    <3>2. CASE ~gens[pointer.round].stopped
      <4>1. pc' = "loop" /\ round' = pointer.round + 1
        BY <1>5, <3>2 DEF Resume
      <4>2. pointer.round + 1 \in Rounds
        BY <2>1, <3>2, Neighbours
      <4> QED BY <4>1, <4>2 DEF Inside
    <3> QED BY <3>1, <3>2
  <2>3. \A r \in Rounds : r <= pointer.round => gens[r] \in Generation
    <3>1. \A r \in Rounds : r <= pointer.round => r \in 1..pointer.round
      BY <2>1
    <3> QED BY <1>5, <3>1 DEF Resume, ChainTo, Continues
  <2>4. accepted' \in [Rounds -> Generation \cup {Nothing}]
    <3>1. \A r \in Rounds : (IF r <= pointer.round THEN gens[r] ELSE accepted[r])
                             \in Generation \cup {Nothing}
      BY <1>0, <2>3
    <3> QED BY <1>5, <3>1 DEF Resume
  <2>5. base' \in Nat /\ work' = work /\ ours' = ours /\ trained' = trained
    BY <1>5, <2>1 DEF Resume
  <2> QED BY <1>0, <1>2, <2>2, <2>4, <2>5
<1>6. CASE Republish
  <2>1. /\ work' \in Generation /\ ours' = FALSE /\ pc' = "sync"
        /\ UNCHANGED <<round, base, trained, accepted>>
    BY <1>6 DEF Republish, Continues
  <2> QED BY <1>0, <1>2, <2>1 DEF Inside
<1>7. CASE Train
  <2>1. /\ work' \in Generation /\ trained' \in Nat
    BY <1>0, <1>7 DEF Train, Generation
  <2>2. ours' = TRUE /\ pc' = "rename" /\ UNCHANGED <<round, base, accepted>>
    BY <1>7 DEF Train
  <2> QED BY <1>0, <1>2, <2>1, <2>2 DEF Inside
<1>8. CASE SyncRoot \/ (SyncRootFails /\ Accept)
  <2>1. pc = "sync root" /\ Accept /\ trained' = trained
    BY <1>8 DEF SyncRoot, SyncRootFails
  <2>2. pc' \in Outside \cup Inside
    BY <2>1, AcceptTypes DEF Outside, Inside
  <2> QED BY <1>0, <1>2, <2>1, <2>2, AcceptTypes
<1>9. CASE SyncRootFails /\ ~Accept
  BY <1>3, <1>9 DEF SyncRootFails, Outside
<1>10. CASE StartAfresh \/ LoadRefused \/ Begin \/ SyncGenerations \/ ReplacePointer
  BY <1>3, <1>10 DEF StartAfresh, LoadRefused, Begin, SyncGenerations,
     ReplacePointer, Outside, Inside
<1>11. CASE Rename \/ BeginRemove \/ EndRemove \/ NotAttempted
  BY <1>3, <1>11 DEF Rename, BeginRemove, EndRemove, NotAttempted, Outside, Inside
<1>12. CASE TrainFails \/ ReplacePointerFails \/ RemoveFails \/ Crash \/ PowerFailure
  BY <1>3, <1>12 DEF TrainFails, ReplacePointerFails, RemoveFails, Crash,
     PowerFailure, Outside
<1> QED
  BY <1>4, <1>5, <1>6, <1>7, <1>8, <1>9, <1>10, <1>11, <1>12 DEF Next, Work, Raises

\* Every step preserves the types.
LEMMA NextTypes == ASSUME IInv, Next PROVE TypeOK'
  BY NextDiskTypes, NextRunTypes DEF TypeOK

-----------------------------------------------------------------------------
DiskIsSound == LastRoundStops /\ AcceptedAreDurable /\ PointersAreSound

\* A step that leaves the entries and the pointer alone keeps the disk sound,
\* and what the run may rely on.
LEMMA DiskUntouched ==
  ASSUME DiskIsSound, UNCHANGED <<gens, kept, keptPointer, accepted>>
  PROVE  /\ DiskIsSound'
         /\ \A n :
              /\ SourceOf(n)' = SourceOf(n)
              /\ Durable(n) => Durable(n)'
              /\ AcceptedBefore(n) => AcceptedBefore(n)'
  BY DEF DiskIsSound, LastRoundStops, AcceptedAreDurable, PointersAreSound,
     AcceptedBefore, Durable, Continues, SourceOf

\* Steps of the run that neither publish nor accept.
LEMMA QuietSteps ==
  ASSUME IInv, UNCHANGED <<gens, kept, keptPointer, accepted>>,
         \/ Run \/ StartAfresh \/ LoadRefused \/ Republish \/ Begin \/ Train
         \/ TrainFails \/ NotAttempted \/ ReplacePointerFails \/ RemoveFails
         \/ Crash \/ (SyncRootFails /\ ~Accept)
  PROVE  DiskIsSound' /\ RunIsSound'
<1> USE Basics
<1>0. DiskIsSound
  BY DEF IInv, DiskIsSound
<1>1. DiskIsSound'
  BY <1>0, DiskUntouched
<1> SUFFICES RunIsSound'
  BY <1>1
<1>2. round' = round =>
        /\ SourceOf(round)' = SourceOf(round)
        /\ Durable(round) => Durable(round)'
        /\ AcceptedBefore(round) => AcceptedBefore(round)'
  BY DEF SourceOf, Durable, Continues, AcceptedBefore
<1>3. RunIsSound /\ round \in Rounds /\ gens \in [Rounds -> Contents]
  BY DEF IInv, TypeOK, RunTypes, DiskTypes
<1>4. CASE pc' \in Outside
  BY <1>4 DEF RunIsSound, Outside, AtWork, Inside, Publishing
<1>5. CASE Run
  BY <1>5 DEF Run, RunIsSound, AtWork, Inside, Publishing
<1>6. CASE StartAfresh
  <2>1. /\ pc = "load" /\ pc' = "loop"
        /\ round' = round /\ base' = base /\ round = 1 /\ base = 0
    BY <1>3, <1>6 DEF StartAfresh, memory, RunIsSound
  <2>2. AcceptedBefore(1) /\ SourceOf(1) = 0
    BY DEF AcceptedBefore, SourceOf
  <2> QED BY <1>2, <2>1, <2>2 DEF RunIsSound, AtWork, Inside, Publishing
<1>7. CASE Republish
  <2>1. /\ pc = "loop" /\ pc' = "sync" /\ work' = gens[round] /\ ours' = FALSE
        /\ round' = round /\ base' = base
        /\ gens[round] \in Generation /\ gens[round].source = base
    BY <1>7 DEF Republish, Continues
  <2>2. AcceptedBefore(round) /\ base = SourceOf(round)
    BY <1>3, <2>1 DEF RunIsSound, AtWork, Inside
  <2>3. round = MaxRounds => gens[round].stopped
    BY <2>1 DEF IInv, TypeOK, DiskTypes, LastRoundStops
  <2> QED BY <1>2, <2>1, <2>2, <2>3 DEF RunIsSound, AtWork, Inside, Publishing
<1>8. CASE Begin
  <2>1. /\ pc = "loop" /\ pc' = "train" /\ gens[round] = Nothing
        /\ UNCHANGED <<round, base, work, ours>>
    BY <1>8 DEF Begin, memory
  <2>2. AcceptedBefore(round) /\ base = SourceOf(round)
    BY <1>3, <2>1 DEF RunIsSound, AtWork, Inside
  <2> QED BY <1>2, <2>1, <2>2 DEF RunIsSound, AtWork, Inside, Publishing
<1>9. CASE Train
  <2>1. /\ pc = "train" /\ pc' = "rename" /\ UNCHANGED <<round, base>>
        /\ \E b \in BOOLEAN : /\ MayStop(b)
             /\ work' = [id |-> trained + 1, source |-> base, stopped |-> b]
    BY <1>9 DEF Train
  <2>2. work'.source = base /\ (round = MaxRounds => work'.stopped)
    BY <2>1 DEF MayStop
  <2>3. work' \in Generation
    BY <2>1 DEF Generation, IInv, TypeOK, RunTypes
  <2>4. AcceptedBefore(round) /\ base = SourceOf(round) /\ gens[round] = Nothing
    BY <1>3, <2>1 DEF RunIsSound, AtWork, Inside
  <2> QED BY <1>2, <2>1, <2>2, <2>3, <2>4 DEF RunIsSound, AtWork, Inside, Publishing
<1>10. CASE NotAttempted /\ ours
  <2>1. /\ pc \in {"sync", "point"} /\ pc' = "remove" /\ ours
        /\ UNCHANGED <<round, base, work, ours>>
    BY <1>10 DEF NotAttempted, memory
  <2>2. AcceptedBefore(round) /\ base = SourceOf(round) /\ RoundIsFree
    BY <1>3, <2>1 DEF RunIsSound, AtWork, Inside
  <2>3. RoundIsFree'
    BY <2>1, <2>2 DEF RoundIsFree
  <2> QED BY <1>2, <2>1, <2>2, <2>3 DEF RunIsSound, AtWork, Inside, Publishing
<1>11. CASE NotAttempted /\ ~ours
  BY <1>4, <1>11 DEF NotAttempted, Outside
<1>12. CASE LoadRefused \/ TrainFails \/ ReplacePointerFails \/ RemoveFails \/ Crash
  BY <1>4, <1>12 DEF LoadRefused, TrainFails, ReplacePointerFails, RemoveFails,
     Crash, Outside
<1>13. CASE SyncRootFails /\ ~Accept
  BY <1>4, <1>13 DEF SyncRootFails, Outside
<1> QED BY <1>5, <1>6, <1>7, <1>8, <1>9, <1>10, <1>11, <1>12, <1>13

\* The entry of the round at work appears, is damaged, or is gone.
LEMMA EntrySteps ==
  ASSUME IInv, Rename \/ BeginRemove \/ EndRemove
  PROVE  DiskIsSound' /\ RunIsSound'
<1> USE Basics
<1>0. /\ TypeOK /\ AcceptedAreDurable /\ PointersAreSound
      /\ RunIsSound /\ LastRoundStops
      /\ round \in Rounds /\ gens \in [Rounds -> Contents]
      /\ kept \in [Rounds -> SUBSET Contents]
  BY DEF IInv, TypeOK, RunTypes, DiskTypes
<1>1. /\ UNCHANGED <<keptPointer, accepted, round, base, work, ours>>
      /\ pc \in {"rename", "remove", "removing"}
  BY DEF Rename, BeginRemove, EndRemove, memory
<1>2. AcceptedBefore(round) /\ base = SourceOf(round)
  BY <1>0, <1>1 DEF RunIsSound, AtWork, Inside
<1>3. RoundIsFree
  <2>1. CASE pc = "rename"
    <3>1. gens[round] \notin Generation
      BY <1>0, <2>1 DEF RunIsSound
    <3> QED BY <1>0, <3>1, NothingRestsOnIt
  <2>2. CASE pc # "rename"
    BY <1>0, <1>1, <2>2 DEF RunIsSound
  <2> QED BY <2>1, <2>2
<1>4. PICK c \in Contents :
        /\ Entry(round, c)
        /\ c \in Generation => Rename /\ c = work
        /\ Rename => c = work
  <2>1. CASE Rename
    <3>1. work \in Contents
      BY <1>0, <2>1 DEF Rename, RunIsSound, Contents
    <3> QED BY <2>1, <3>1 DEF Rename
  <2>2. CASE BeginRemove
    <3>1. Damaged \in Contents
      BY DEF Contents
    <3>2. ~Rename
      BY <2>2 DEF BeginRemove, Rename
    <3> QED BY <2>2, <3>1, <3>2 DEF BeginRemove
  <2>3. CASE EndRemove
    <3>1. Nothing \in Contents
      BY DEF Contents
    <3>2. ~Rename
      BY <2>3 DEF EndRemove, Rename
    <3> QED BY <2>3, <3>1, <3>2 DEF EndRemove
  <2> QED BY <2>1, <2>2, <2>3
<1>5. /\ AcceptedAreDurable' /\ PointersAreSound' /\ RoundIsFree'
      /\ AcceptedBefore(round)' /\ SourceOf(round)' = SourceOf(round)
  BY <1>0, <1>1, <1>2, <1>3, <1>4, EntryIsHarmless
<1>6. LastRoundStops'
  <2>1. kept'[MaxRounds] \subseteq kept[MaxRounds] \cup (IF round = MaxRounds THEN {c} ELSE {})
    BY <1>0, <1>4 DEF Entry
  <2>2. c \in Generation /\ round = MaxRounds => c.stopped
    BY <1>0, <1>4 DEF Rename, RunIsSound
  <2> QED BY <1>0, <2>1, <2>2 DEF LastRoundStops
<1>7. gens'[round] = c
  BY <1>0, <1>4 DEF Entry
<1>8. RunIsSound'
  <2>1. CASE Rename
    <3>1. pc' \in {"sync", "remove"}
      BY <2>1 DEF Rename
    <3>2. /\ work \in Generation /\ work.source = base
          /\ round = MaxRounds => work.stopped
      BY <1>0, <2>1 DEF Rename, RunIsSound
    <3> QED BY <1>1, <1>2, <1>4, <1>5, <1>7, <2>1, <3>1, <3>2
            DEF RunIsSound, AtWork, Inside, Publishing
  <2>2. CASE BeginRemove
    <3>1. pc' = "removing"
      BY <2>2 DEF BeginRemove
    <3> QED BY <1>1, <1>2, <1>5, <3>1 DEF RunIsSound, AtWork, Inside, Publishing
  <2>3. CASE EndRemove
    <3>1. pc' = "raised"
      BY <2>3 DEF EndRemove
    <3> QED BY <3>1 DEF RunIsSound, AtWork, Inside, Publishing
  <2> QED BY <2>1, <2>2, <2>3
<1> QED BY <1>5, <1>6, <1>8 DEF DiskIsSound

\* The directory is fsynced, or the power fails.
LEMMA SettlingSteps ==
  ASSUME IInv, SyncGenerations \/ PowerFailure
  PROVE  DiskIsSound' /\ RunIsSound'
<1> USE Basics
<1>0. /\ TypeOK /\ AcceptedAreDurable /\ PointersAreSound
      /\ RunIsSound /\ LastRoundStops /\ round \in Rounds
      /\ gens \in [Rounds -> Contents] /\ \A r \in Rounds : gens[r] \in kept[r]
      /\ pointer \in keptPointer
  BY DEF IInv, TypeOK, RunTypes, DiskTypes
<1>1. /\ \A r \in Rounds : gens'[r] \in kept[r] /\ kept'[r] = {gens'[r]}
      /\ accepted' = accepted /\ keptPointer' \subseteq keptPointer
  <2>1. CASE SyncGenerations
    BY <1>0, <2>1 DEF SyncGenerations
  <2>2. CASE PowerFailure
    BY <2>2 DEF PowerFailure
  <2> QED BY <2>1, <2>2
<1>2. /\ LastRoundStops' /\ AcceptedAreDurable' /\ PointersAreSound'
      /\ \A n \in Rounds : AcceptedBefore(n) =>
           AcceptedBefore(n)' /\ SourceOf(n)' = SourceOf(n)
  BY <1>0, <1>1, SettlingIsHarmless
<1>3. CASE PowerFailure
  <2>1. pc' = "idle"
    BY <1>3 DEF PowerFailure
  <2> QED BY <1>2, <2>1 DEF DiskIsSound, RunIsSound, AtWork, Inside, Publishing
<1>4. CASE SyncGenerations
  <2>1. /\ pc = "sync" /\ pc' = "point" /\ gens' = gens
        /\ UNCHANGED <<keptPointer, accepted, round, base, work, ours>>
    BY <1>4 DEF SyncGenerations, memory
  <2>2. /\ AcceptedBefore(round) /\ base = SourceOf(round)
        /\ gens[round] = work /\ work \in Generation /\ work.source = base
        /\ round = MaxRounds => work.stopped
        /\ ours => RoundIsFree
    BY <1>0, <2>1 DEF RunIsSound, AtWork, Inside, Publishing
  <2>3. AcceptedBefore(round)' /\ SourceOf(round)' = SourceOf(round)
    <3>1. PICK n \in Rounds : n = round
      BY <1>0
    <3>2. AcceptedBefore(n)' /\ SourceOf(n)' = SourceOf(n)
      BY <1>2, <2>2, <3>1
    <3>3. round' = n
      BY <2>1, <3>1
    <3> QED BY <3>1, <3>2, <3>3 DEF AcceptedBefore, SourceOf
  <2>4. Durable(round)'
    BY <1>0, <1>1, <2>1, <2>2, <2>3 DEF Durable, Continues
  <2>5. ours => RoundIsFree'
    BY <2>1, <2>2 DEF RoundIsFree
  <2>6. RunIsSound'
    BY <2>1, <2>2, <2>3, <2>4, <2>5 DEF RunIsSound, AtWork, Inside, Publishing
  <2> QED BY <1>2, <2>6 DEF DiskIsSound
<1> QED BY <1>3, <1>4

\* The pointer moves to the round at work, which is durable by then.
LEMMA PointerStep ==
  ASSUME IInv, ReplacePointer
  PROVE  DiskIsSound' /\ RunIsSound'
<1> USE Basics
<1>1. /\ pc = "point" /\ pc' = "sync root"
      /\ pointer' = [round |-> round, id |-> work.id]
      /\ keptPointer' = keptPointer \cup {pointer'}
      /\ UNCHANGED <<gens, kept, accepted, round, base, work, ours>>
  BY DEF ReplacePointer, memory
<1>2. /\ AcceptedBefore(round) /\ base = SourceOf(round) /\ Durable(round)
      /\ gens[round] = work /\ work \in Generation /\ work.source = base
      /\ round = MaxRounds => work.stopped
      /\ round \in Rounds
  BY <1>1 DEF IInv, TypeOK, RunTypes, RunIsSound, AtWork, Inside, Publishing
<1>3. /\ AcceptedBefore(round)' /\ Durable(round)' /\ SourceOf(round)' = SourceOf(round)
  BY <1>1, <1>2 DEF AcceptedBefore, Durable, Continues, SourceOf
<1>4. LastRoundStops' /\ AcceptedAreDurable'
  BY <1>1 DEF IInv, LastRoundStops, AcceptedAreDurable
<1>5. PointersAreSound'
  <2> SUFFICES ASSUME NEW p \in keptPointer', p # Nothing
               PROVE  /\ p.round \in Rounds
                      /\ AcceptedBefore(p.round)'
                      /\ Durable(p.round)'
                      /\ gens'[p.round].id = p.id
    BY DEF PointersAreSound
  <2>1. CASE p \in keptPointer
    <3>1. /\ p.round \in Rounds /\ gens[p.round].id = p.id
          /\ AcceptedBefore(p.round) /\ Durable(p.round)
      BY <2>1 DEF IInv, PointersAreSound
    <3>2. gens' = gens /\ kept' = kept /\ accepted' = accepted
      BY <1>1
    <3> QED BY <3>1, <3>2 DEF AcceptedBefore, Durable, Continues, SourceOf
  <2>2. CASE p = pointer'
    <3>1. p.round = round /\ p.id = work.id
      BY <1>1, <2>2
    <3>2. gens' = gens /\ kept' = kept /\ accepted' = accepted
      BY <1>1
    <3> QED BY <1>2, <3>1, <3>2 DEF AcceptedBefore, Durable, Continues, SourceOf
  <2> QED BY <1>1, <2>1, <2>2
<1>6. RunIsSound'
  BY <1>1, <1>2, <1>3 DEF RunIsSound, AtWork, Inside, Publishing
<1> QED BY <1>4, <1>5, <1>6 DEF DiskIsSound

-----------------------------------------------------------------------------
\* Round n is accepted as it is on disk, after all the rounds before it.
Accepts(n) ==
  /\ n \in Rounds /\ AcceptedBefore(n) /\ Durable(n)
  /\ accepted' = [accepted EXCEPT ![n] = gens[n]]
  /\ UNCHANGED <<gens, kept>>

\* The round at work is accepted once it is published.
LEMMA AcceptAccepts ==
  ASSUME IInv, pc = "sync root", Accept, UNCHANGED <<gens, kept>>
  PROVE  Accepts(round) /\ gens[round] = work
<1>1. /\ AcceptedBefore(round) /\ Durable(round) /\ gens[round] = work
      /\ round \in Rounds
  BY DEF IInv, TypeOK, RunTypes, RunIsSound, AtWork, Inside, Publishing
<1> QED BY <1>1 DEF Accept, Accepts

\* A run that resumes accepts the round of the pointer: it had accepted the rest.
LEMMA ResumeAccepts ==
  ASSUME IInv, Resume
  PROVE  Accepts(pointer.round)
<1> USE Basics
<1>1. /\ pointer.round \in Rounds /\ AcceptedBefore(pointer.round)
      /\ Durable(pointer.round)
  BY PointerIsSound DEF Resume
<1>2. accepted' = [r \in Rounds |-> IF r <= pointer.round THEN gens[r] ELSE accepted[r]]
  BY DEF Resume
<1>3. \A r \in Rounds : r <= pointer.round /\ r # pointer.round => accepted[r] = gens[r]
  BY <1>1, Neighbours DEF AcceptedBefore
<1>4. accepted \in [Rounds -> Generation \cup {Nothing}]
  BY DEF IInv, TypeOK
<1>5. accepted' = [r \in Rounds |-> IF r = pointer.round THEN gens[r] ELSE accepted[r]]
  BY <1>1, <1>2, <1>3, <1>4
<1>6. accepted' = [accepted EXCEPT ![pointer.round] = gens[pointer.round]]
  BY <1>1, <1>4, <1>5
<1>7. UNCHANGED <<gens, kept>>
  BY DEF Resume, disk
<1> QED BY <1>1, <1>6, <1>7 DEF Accepts

\* Acceptance keeps the disk sound, and the next round may rely on it.
LEMMA AcceptanceIsSound ==
  ASSUME IInv, NEW n \in Rounds, Accepts(n), keptPointer' \subseteq keptPointer
  PROVE  /\ DiskIsSound'
         /\ ~gens[n].stopped => AcceptedBefore(n + 1)' /\ SourceOf(n + 1)' = gens[n].id
<1> USE Basics
<1>1. /\ \A r \in Rounds : accepted'[r] = IF r = n THEN gens[n] ELSE accepted[r]
      /\ gens' = gens /\ kept' = kept
      /\ AcceptedBefore(n) /\ Durable(n)
  BY DEF Accepts, IInv, TypeOK
<1>2. \A r \in Rounds : Durable(r) => Durable(r)'
  BY <1>1 DEF Durable, Continues, SourceOf
<1>3. \A m \in Rounds : AcceptedBefore(m) => AcceptedBefore(m)'
  BY <1>1, <1>2 DEF AcceptedBefore
<1>4. LastRoundStops'
  BY <1>1 DEF IInv, LastRoundStops
<1>5. AcceptedAreDurable'
  BY <1>1 DEF IInv, AcceptedAreDurable, Durable
<1>6. PointersAreSound'
  BY <1>1, <1>2, <1>3 DEF IInv, PointersAreSound
<1>7. ASSUME ~gens[n].stopped
      PROVE  AcceptedBefore(n + 1)' /\ SourceOf(n + 1)' = gens[n].id
  <2>1. SourceOf(n + 1)' = gens[n].id
    BY <1>1 DEF SourceOf
  <2>2. \A r \in Rounds : r < n + 1 => r < n \/ r = n
    OBVIOUS
  <2>3. AcceptedBefore(n + 1)'
    BY <1>1, <1>2, <1>7, <2>2 DEF AcceptedBefore
  <2> QED BY <2>1, <2>3
<1> QED BY <1>4, <1>5, <1>6, <1>7 DEF DiskIsSound

\* A round is accepted, and the run returns or goes on.
LEMMA AcceptanceSteps ==
  ASSUME IInv, Resume \/ SyncRoot \/ (SyncRootFails /\ Accept)
  PROVE  DiskIsSound' /\ RunIsSound'
<1> USE Basics
<1>1. CASE Resume
  <2>1. /\ pointer.round \in Rounds /\ Accepts(pointer.round)
        /\ keptPointer' \subseteq keptPointer
        /\ gens[pointer.round].id = pointer.id
    BY <1>1, ResumeAccepts, PointerIsSound DEF Resume, disk
  <2> PICK n \in Rounds : n = pointer.round
    BY <2>1
  <2>2. /\ DiskIsSound'
        /\ ~gens[n].stopped =>
             AcceptedBefore(n + 1)' /\ SourceOf(n + 1)' = gens[n].id
    BY <2>1, AcceptanceIsSound
  <2>3. CASE gens[n].stopped
    <3>1. pc' = "returned"
      BY <1>1, <2>3 DEF Resume
    <3> QED BY <2>2, <3>1 DEF RunIsSound, AtWork, Inside, Publishing
  <2>4. CASE ~gens[n].stopped
    <3>1. pc' = "loop" /\ round' = n + 1 /\ base' = pointer.id
      BY <1>1, <2>4 DEF Resume
    <3>2. AcceptedBefore(round)' /\ base' = SourceOf(round)'
      BY <2>1, <2>2, <2>4, <3>1 DEF AcceptedBefore, SourceOf
    <3> QED BY <2>2, <3>1, <3>2 DEF RunIsSound, AtWork, Inside, Publishing
  <2> QED BY <2>3, <2>4
<1>2. CASE SyncRoot \/ (SyncRootFails /\ Accept)
  <2>1. /\ pc = "sync root" /\ Accept /\ UNCHANGED <<gens, kept>>
        /\ keptPointer' \subseteq keptPointer
    BY <1>2 DEF SyncRoot, SyncRootFails, disk, IInv, TypeOK, DiskTypes
  <2>2. /\ round \in Rounds /\ Accepts(round) /\ gens[round] = work
    BY <2>1, AcceptAccepts DEF Accepts
  <2> PICK n \in Rounds : n = round
    BY <2>2
  <2>3. /\ DiskIsSound'
        /\ ~gens[n].stopped =>
             AcceptedBefore(n + 1)' /\ SourceOf(n + 1)' = gens[n].id
    BY <2>1, <2>2, AcceptanceIsSound
  <2>4. /\ base' = work.id
        /\ \/ pc' = "returned"
           \/ pc' = "loop" /\ ~work.stopped /\ round' = round + 1
    BY <2>1, AcceptTypes
  <2>5. CASE pc' = "returned"
    BY <2>3, <2>5 DEF RunIsSound, AtWork, Inside, Publishing
  <2>6. CASE pc' = "loop" /\ ~work.stopped /\ round' = round + 1
    <3>1. AcceptedBefore(round)' /\ base' = SourceOf(round)'
      BY <2>2, <2>3, <2>4, <2>6 DEF AcceptedBefore, SourceOf
    <3> QED BY <2>3, <2>6, <3>1 DEF RunIsSound, AtWork, Inside, Publishing
  <2> QED BY <2>4, <2>5, <2>6
<1> QED BY <1>1, <1>2

\* Every step preserves the inductive invariant.
LEMMA NextIInv == IInv /\ [Next]_vars => IInv'
<1> SUFFICES ASSUME IInv, [Next]_vars PROVE IInv'
  OBVIOUS
<1>1. CASE UNCHANGED vars
  <2>1. /\ UNCHANGED <<gens, kept, pointer, keptPointer, staging, pc, accepted>>
        /\ UNCHANGED <<round, base, work, ours, trained, faults>>
    BY <1>1 DEF vars, disk, memory
  <2>2. TypeOK'
    BY <2>1 DEF IInv, TypeOK, DiskTypes, RunTypes
  <2>3. DiskIsSound'
    BY <2>1, DiskUntouched DEF IInv, DiskIsSound
  <2>4. RunIsSound'
    BY <2>1 DEF IInv, RunIsSound, RoundIsFree, AcceptedBefore, Durable, Continues,
       SourceOf
  <2> QED BY <2>2, <2>3, <2>4 DEF IInv, DiskIsSound
<1>2. CASE Next
  <2>1. TypeOK'
    BY <1>2, NextTypes
  <2>2. CASE Resume \/ SyncRoot \/ (SyncRootFails /\ Accept)
    BY <2>1, <2>2, AcceptanceSteps DEF IInv, DiskIsSound
  <2>3. CASE Rename \/ BeginRemove \/ EndRemove
    BY <2>1, <2>3, EntrySteps DEF IInv, DiskIsSound
  <2>4. CASE SyncGenerations \/ PowerFailure
    BY <2>1, <2>4, SettlingSteps DEF IInv, DiskIsSound
  <2>5. CASE ReplacePointer
    BY <2>1, <2>5, PointerStep DEF IInv, DiskIsSound
  <2>6. CASE \/ Run \/ StartAfresh \/ LoadRefused \/ Republish \/ Begin \/ Train
             \/ TrainFails \/ NotAttempted \/ ReplacePointerFails \/ RemoveFails
             \/ Crash \/ (SyncRootFails /\ ~Accept)
    <3>1. UNCHANGED <<gens, kept, keptPointer, accepted>>
      BY <2>6 DEF Run, StartAfresh, LoadRefused, Republish, Begin, Train,
         TrainFails, NotAttempted, ReplacePointerFails, RemoveFails, Crash,
         SyncRootFails, disk
    <3> QED BY <2>1, <2>6, <3>1, QuietSteps DEF IInv, DiskIsSound
  <2> QED BY <1>2, <2>2, <2>3, <2>4, <2>5, <2>6 DEF Next, Work, Raises
<1> QED BY <1>1, <1>2

\* The inductive invariant holds in every reachable state.
THEOREM Invariance == Spec => []IInv
  BY InitIInv, NextIInv, PTL DEF Spec

\* The store and the run keep their types, and no run goes past max_rounds
\* (dagger_workflow.py:1044, 1298).
THEOREM TypeCorrect == Spec => []TypeOK
<1>1. IInv => TypeOK BY DEF IInv
<1> QED BY <1>1, Invariance, PTL

\* What a run built on or returned is never taken back, by however many errors,
\* deaths and power failures (dagger_workflow.py:851-909).
THEOREM AcceptedAreKept == Spec => []AcceptedRoundsAreKept
<1>1. IInv => AcceptedRoundsAreKept
  BY DEF IInv, AcceptedAreDurable, AcceptedRoundsAreKept
<1> QED BY <1>1, Invariance, PTL

\* The current pointer always names a chain of whole generations.
THEOREM PointerChain == Spec => []PointerNamesAChain
<1>1. IInv => PointerNamesAChain
  <2> SUFFICES ASSUME IInv, pointer # Nothing PROVE ChainTo(pointer)
    BY DEF PointerNamesAChain
  <2>1. /\ pointer.round \in Rounds
        /\ AcceptedBefore(pointer.round) /\ Durable(pointer.round)
        /\ gens[pointer.round].id = pointer.id
    BY PointerIsSound
  <2>2. \A r \in 1..pointer.round : r \in Rounds /\ (r < pointer.round \/ r = pointer.round)
    BY <2>1, Neighbours
  <2>3. \A r \in 1..pointer.round : Continues(r, SourceOf(r))
    BY <2>1, <2>2 DEF AcceptedBefore, Durable
  <2> QED BY <2>1, <2>3 DEF ChainTo
<1> QED BY <1>1, Invariance, PTL

-----------------------------------------------------------------------------
\* Initially nothing was accepted.
LEMMA LogInit == Init => Log!Init
  BY DEF Init, Log!Init, Log!Rounds, Rounds

\* An acceptance appends to the log, or accepts what is in it already.
LEMMA AcceptanceIsLogged ==
  ASSUME IInv, NEW n \in Rounds, Accepts(n)
  PROVE  [Log!Next]_accepted
<1> USE Basics
<1>1. /\ accepted \in [Rounds -> Generation \cup {Nothing}]
      /\ accepted' = [accepted EXCEPT ![n] = gens[n]]
      /\ gens[n] \in Generation /\ gens[n].source = SourceOf(n)
      /\ AcceptedBefore(n)
  BY DEF IInv, TypeOK, Accepts, Durable, Continues
<1>2. CASE accepted[n] # Nothing
  <2>1. accepted[n] = gens[n]
    BY <1>2 DEF IInv, AcceptedAreDurable
  <2> QED BY <1>1, <2>1
<1>3. CASE accepted[n] = Nothing
  <2>1. n # 1 => /\ n - 1 \in Rounds /\ accepted[n - 1] = gens[n - 1]
                 /\ gens[n - 1] \in Generation /\ ~gens[n - 1].stopped
    BY <1>1, Neighbours DEF AcceptedBefore, Durable, Continues
  <2>2. gens[n].source = Log!Source(n)
    BY <1>1, <2>1 DEF Log!Source, SourceOf
  <2>3. accepted'[n] = gens[n] /\ accepted'[n] # Nothing
    BY <1>1
  <2>4. Log!Accept(n, accepted'[n])
    BY <1>1, <1>3, <2>1, <2>2, <2>3 DEF Log!Accept
  <2>5. n \in Log!Rounds
    BY DEF Log!Rounds, Rounds
  <2> QED BY <2>3, <2>4, <2>5 DEF Log!Next
<1> QED BY <1>2, <1>3

\* A step accepts one round, or leaves the accepted ones alone.
LEMMA LogStep == IInv /\ [Next]_vars => [Log!Next]_accepted
<1> SUFFICES ASSUME IInv, [Next]_vars PROVE [Log!Next]_accepted
  OBVIOUS
<1>1. CASE Resume
  <2>1. pointer.round \in Rounds /\ Accepts(pointer.round)
    BY <1>1, ResumeAccepts DEF Accepts
  <2> QED BY <2>1, AcceptanceIsLogged
<1>2. CASE SyncRoot \/ (SyncRootFails /\ Accept)
  <2>1. pc = "sync root" /\ Accept /\ UNCHANGED <<gens, kept>>
    BY <1>2 DEF SyncRoot, SyncRootFails, disk
  <2>2. round \in Rounds /\ Accepts(round)
    BY <2>1, AcceptAccepts DEF Accepts
  <2> QED BY <2>2, AcceptanceIsLogged
<1>3. CASE accepted' = accepted
  BY <1>3
<1>4. CASE UNCHANGED vars
  BY <1>3, <1>4 DEF vars
<1>5. CASE \/ Run \/ StartAfresh \/ LoadRefused \/ Republish \/ Begin \/ Train
           \/ Rename \/ SyncGenerations \/ ReplacePointer \/ BeginRemove \/ EndRemove
  BY <1>3, <1>5 DEF Run, StartAfresh, LoadRefused, Republish, Begin, Train, Rename,
     SyncGenerations, ReplacePointer, BeginRemove, EndRemove
<1>6. CASE \/ TrainFails \/ NotAttempted \/ ReplacePointerFails \/ RemoveFails
           \/ Crash \/ PowerFailure \/ (SyncRootFails /\ ~Accept)
  BY <1>3, <1>6 DEF TrainFails, NotAttempted, ReplacePointerFails, RemoveFails,
     Crash, PowerFailure, SyncRootFails
<1> QED BY <1>1, <1>2, <1>4, <1>5, <1>6 DEF Next, Work, Raises

\* The rounds that the runs accept are an append-only, linked log that a stop
\* closes, for any number of rounds, runs and faults.
THEOREM LogRefinement == Spec => Implements
<1>1. Spec => [][Log!Next]_accepted
  BY Invariance, LogStep, PTL DEF Spec
<1> QED BY <1>1, LogInit, PTL DEF Spec, Implements, Log!Spec
=============================================================================
