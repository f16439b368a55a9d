------------------------ MODULE RoomAuthorityProofs ------------------------
(***************************************************************************)
(* Theorems about the authority over a room, for any number of processes,  *)
(* any faults, any journal length and any bounds.                          *)
(***************************************************************************)
EXTENDS RoomAuthority, SequenceTheorems, TLAPS

\* A delta is sent only by a writer that has a base to start it from
\* (persistEnvelope, runtime.ts:2405-2440).
AppendHasBase ==
    \A p \in Process :
        write[p] # None /\ write[p].phase = "append" => base[p] # None

\* What the constructor of the store assigns is well-typed
\* (runtime.ts:2004-2047).
LEMMA InitTypeOK == Init => TypeOK
BY EpochAssumption, BoundAssumption
   DEF Init, TypeOK, Epoch, Tick, Role, NoStatus, Status

\* A candidateStatus that is not ready yet has the type of a status
\* (runtime.ts:2030-2037).
LEMMA NoStatusIsStatus == NoStatus \in Status
BY EpochAssumption, BoundAssumption DEF NoStatus, Status, Epoch, Tick

\* statusForEnvelope makes a status of every envelope (candidate.ts:443-455).
LEMMA StatusOfIsStatus ==
    ASSUME NEW c \in Checkpoint, NEW ready \in BOOLEAN
    PROVE  StatusOf(c, ready) \in Status
BY DEF StatusOf, Status, Checkpoint

\* Whatever a process was doing, its exit (gameProcess.ts:242-251) leaves
\* well-typed memory.
LEMMA ExitKeepsTypeOK ==
    ASSUME TypeOK, NEW p \in Process, Exit(p),
           lease' \in Process \cup {None}, faults' \subseteq Fault,
           UNCHANGED <<term, granted, storeVars>>
    PROVE  TypeOK'
<1>1. role' \in [Process -> Role]
  BY DEF TypeOK, Exit, Role
<1>2. /\ epoch' \in [Process -> Epoch]
      /\ tick' \in [Process -> Tick]
  BY EpochAssumption, BoundAssumption DEF TypeOK, Exit, Epoch, Tick
<1>3. /\ game' \in [Process -> SUBSET Input]
      /\ running' \subseteq Process
      /\ attached' \subseteq Process
      /\ armed' \subseteq Process
  BY DEF TypeOK, Exit
<1>4. /\ write' \in [Process -> Write \cup {None}]
      /\ saved' \in [Process -> Checkpoint \cup {None}]
      /\ base' \in [Process -> Checkpoint \cup {None}]
      /\ authority' \in [Process -> Checkpoint \cup {None}]
      /\ seeding' \in [Process -> Seed \cup {None}]
      /\ takeover' \in [Process -> Status \cup {None}]
      /\ promotion' \in [Process -> Promotion \cup {None}]
  BY DEF TypeOK, Exit
<1>5. status' \in [Process -> Status]
  BY NoStatusIsStatus DEF TypeOK, Exit
<1> QED BY <1>1, <1>2, <1>3, <1>4, <1>5 DEF TypeOK, storeVars

\* The scripts' writes leave well-typed keys and writer (runtime.ts:2391-2440).
LEMMA SettledKeepsTypes ==
    ASSUME TypeOK, NEW p \in Process, write[p] # None,
           \/ Failed(p)
           \/ Persisted(p)
           \/ /\ write' = [write EXCEPT ![p].phase = "append"]
              /\ UNCHANGED <<base, saved>>
    PROVE  /\ write' \in [Process -> Write \cup {None}]
           /\ saved' \in [Process -> Checkpoint \cup {None}]
           /\ base' \in [Process -> Checkpoint \cup {None}]
<1>1. write[p] \in Write
  BY DEF TypeOK
<1>2. CASE Failed(p)
  BY <1>2 DEF TypeOK, Failed
<1>3. CASE Persisted(p)
  BY <1>1, <1>3 DEF TypeOK, Persisted, Write
<1>4. CASE write' = [write EXCEPT ![p].phase = "append"]
  BY <1>1, <1>2, <1>3, <1>4 DEF TypeOK, Write
<1> QED BY <1>2, <1>3, <1>4

\* XADD MAXLEN leaves an end of the longer journal (journal.ts:194-227).
LEMMA AppendedIsJournal ==
    ASSUME journal \in Seq(Delta), NEW d \in Delta
    PROVE  /\ Appended(d) \in Seq(Delta)
           /\ \E n \in 1..Len(journal) + 1 :
                 Appended(d) = SubSeq(Append(journal, d), n, Len(journal) + 1)
<1> DEFINE longer == Append(journal, d)
<1>1. longer \in Seq(Delta) /\ longer # <<>> /\ Len(longer) = Len(journal) + 1
  BY AppendProperties
<1>2. Len(journal) \in Nat
  OBVIOUS
<1>3. CASE Len(longer) <= MaxJournal
  <2>1. Appended(d) = longer
    BY <1>3 DEF Appended
  <2>2. longer = SubSeq(longer, 1, Len(journal) + 1)
    BY <1>1, SubSeqFull
  <2> QED BY <1>1, <1>2, <2>1, <2>2
<1>4. CASE ~(Len(longer) <= MaxJournal)
  <2>1. Appended(d) = Tail(longer)
    BY <1>4 DEF Appended
  <2>2. Tail(longer) \in Seq(Delta)
    BY <1>1, HeadTailProperties
  <2>3. Tail(longer) = SubSeq(longer, 2, Len(journal) + 1)
    BY <1>1, TailIsSubSeq
  <2>4. 2 \in 1..Len(journal) + 1
    BY <1>1, <1>2, <1>4, BoundAssumption
  <2> QED BY <2>1, <2>2, <2>3, <2>4
<1> QED BY <1>3, <1>4

\* Every handler of a process leaves well-typed memory and keys.  An append
\* needs its base: that is what AppendHasBase is for (journal.ts:194-227).
LEMMA StepKeepsTypeOK ==
    ASSUME TypeOK, AppendHasBase, NEW p \in Process, Step(p)
    PROVE  TypeOK'
<1> USE EpochAssumption, BoundAssumption
    DEF TypeOK, Role, gameVars, writerVars, candidateVars, claimVars,
       leaseVars, storeVars
<1>1. CASE StartAcquires(p)
  BY <1>1 DEF StartAcquires, AcquireLease
<1>2. CASE StartJoins(p)
  BY <1>2 DEF StartJoins
<1>3. CASE StartGivesUp(p)
  BY <1>3, ExitKeepsTypeOK DEF StartGivesUp
<1>4. CASE LoadActive(p)
  BY <1>4 DEF LoadActive, Snapshot, Checkpoint
<1>5. CASE LoadCandidate(p)
  <2>1. CASE snapshot = None
    BY <1>5, <2>1 DEF LoadCandidate
  <2>2. CASE snapshot # None
    <3>1. snapshot.content \in Checkpoint
      BY <2>2 DEF Snapshot
    <3>2. snapshot.content.state \in SUBSET Input
      BY <3>1 DEF Checkpoint
    <3>3. StatusOf(snapshot.content, TRUE) \in Status
      BY <3>1, StatusOfIsStatus
    <3>4. /\ game' = [game EXCEPT ![p] = snapshot.content.state]
          /\ base' = [base EXCEPT ![p] = snapshot.content]
          /\ authority' = [authority EXCEPT ![p] = snapshot.content]
          /\ status' = [status EXCEPT ![p] = StatusOf(snapshot.content, TRUE)]
      BY <1>5, <2>2 DEF LoadCandidate
    <3>5. /\ game' \in [Process -> SUBSET Input]
          /\ base' \in [Process -> Checkpoint \cup {None}]
          /\ authority' \in [Process -> Checkpoint \cup {None}]
          /\ status' \in [Process -> Status]
      BY <3>1, <3>2, <3>3, <3>4
    <3> QED BY <1>5, <2>2, <3>5 DEF LoadCandidate
  <2> QED BY <2>1, <2>2
<1>6. CASE RefreshFails(p)
  BY <1>6, ExitKeepsTypeOK DEF RefreshFails
<1>7. CASE Dies(p)
  BY <1>7, ExitKeepsTypeOK DEF Dies, Happens
<1>8. CASE ResetClearsSnapshot(p)
  BY <1>8 DEF ResetClearsSnapshot, Paused
<1>9. CASE ResetClearsJournal(p)
  BY <1>9 DEF ResetClearsJournal
<1>10. CASE StopBegins(p)
  BY <1>10 DEF StopBegins, Paused
<1>11. CASE StopReleases(p)
  BY <1>11, ExitKeepsTypeOK DEF StopReleases, LeaseWithout
<1>12. CASE \E i \in Input : ProcessInput(p, i)
  BY <1>12 DEF ProcessInput
<1>13. CASE Disconnect(p)
  BY <1>13 DEF Disconnect
<1>14. CASE SaveBegins(p)
  BY <1>14 DEF SaveBegins, Write, Checkpoint, Tick
<1>15. CASE SetSnapshot(p)
  <2>1. /\ write' \in [Process -> Write \cup {None}]
        /\ saved' \in [Process -> Checkpoint \cup {None}]
        /\ base' \in [Process -> Checkpoint \cup {None}]
    BY <1>15, SettledKeepsTypes DEF SetSnapshot
  <2>2. snapshot' \in Snapshot \cup {None}
    BY <1>15 DEF SetSnapshot, Snapshot, Write
  <2> QED BY <1>15, <2>1, <2>2 DEF SetSnapshot
<1>16. CASE SetWithoutDelta(p)
  BY <1>16 DEF SetWithoutDelta, Persisted, Happens, Snapshot, Write
<1>17. CASE WriteTimesOut(p)
  BY <1>17 DEF WriteTimesOut, Happens, Write
<1>18. CASE ReplyLost(p)
  BY <1>18 DEF ReplyLost, Failed, Happens, Snapshot, Write
<1>19. CASE SeedWaits(p)
  BY <1>19, NoStatusIsStatus DEF SeedWaits, SeedEnds, Happens
<1>20. CASE SeedBlocks(p)
  BY <1>20 DEF SeedBlocks, SeedEnds, Happens, StatusOf, Status, Checkpoint
<1>21. CASE SeedApplies(p)
  BY <1>21 DEF SeedApplies, SeedEnds, Happens, StatusOf, Status, Checkpoint
<1>22. CASE SeedRefused(p)
  BY <1>22 DEF SeedRefused, SeedEnds, Happens, StatusOf, Status, Checkpoint
<1>23. CASE TakesOver(p)
  <2>1. takeover[p] \in Status /\ epoch[p] \in Epoch
    BY <1>23 DEF TakesOver
  <2>2. Later(epoch[p], takeover[p].epoch) + 1 \in Epoch
    BY <1>23, <2>1 DEF TakesOver, Later, Status, Epoch
  <2> QED BY <1>23, <2>1, <2>2, NoStatusIsStatus
          DEF TakesOver, BecomesActive, AcquireLease, Status
<1>24. CASE TakeoverWaits(p)
  BY <1>24 DEF TakeoverWaits, Rearmed
<1>25. CASE ReleaseDeletes(p)
  BY <1>25 DEF ReleaseDeletes, Checksum, LeaseWithout, Status
<1>26. CASE ReleaseEnds(p)
  BY <1>26 DEF ReleaseEnds
<1>27. CASE AppendDelta(p)
  <2>1. /\ write' \in [Process -> Write \cup {None}]
        /\ saved' \in [Process -> Checkpoint \cup {None}]
        /\ base' \in [Process -> Checkpoint \cup {None}]
    BY <1>27, SettledKeepsTypes DEF AppendDelta
  <2>2. journal' \in Seq(Delta)
    <3>1. CASE UNCHANGED journal
      BY <3>1
    <3>2. CASE journal' = Appended([base |-> base[p],
                                    target |-> write[p].content,
                                    term |-> granted[p]])
      <4>1. [base |-> base[p], target |-> write[p].content,
             term |-> granted[p]] \in Delta
        BY <1>27 DEF AppendDelta, Delta, Write, AppendHasBase
      <4> QED BY <3>2, <4>1, AppendedIsJournal
    <3> QED BY <1>27, <3>1, <3>2 DEF AppendDelta
  <2> QED BY <1>27, <2>1, <2>2 DEF AppendDelta
<1>28. CASE TakeoverBegins(p) \/ TakeoverFails(p)
  BY <1>28 DEF TakeoverBegins, TakeoverFails, Rearmed
<1>29. CASE Promote(p)
  <2>1. promotion[p] \in Promotion
    BY <1>29 DEF Promote, PromotionIsNext
  <2> QED BY <1>29, <2>1, NoStatusIsStatus
          DEF Promote, BecomesActive, AcquireLease, Promotion
<1>32. CASE PromoteFails(p)
  <2>1. promotion[p] \in Promotion /\ status[p] \in Status
    BY <1>32 DEF PromoteFails, PromotionIsNext
  <2> QED BY <1>32, <2>1 DEF PromoteFails, Promotion, Status
<1>33. ASSUME PromoteBegins(p, status[p].epoch, status[p].checksum)
       PROVE  TypeOK'
  <2>1. /\ status[p].epoch \in Epoch
        /\ status[p].checksum \in Checkpoint
        /\ status[p].epoch + 1 \in Epoch
    BY <1>33 DEF PromoteBegins, MayPromote, Status, Epoch
  <2> QED BY <1>33, <2>1 DEF PromoteBegins, Promotion
<1>30. ASSUME NEW e, NEW c, ReleaseBegins(p, e, c)
       PROVE  TypeOK'
  BY <1>30 DEF ReleaseBegins
<1>31. ASSUME NEW q \in Process, SeedFrom(p, q)
       PROVE  TypeOK'
  <2>1. HandoffStatus(q) \in Status
    BY DEF HandoffStatus, Status, Serving, Checksum
  <2>2. seeding' \in [Process -> Seed \cup {None}]
    BY <1>31, <2>1 DEF SeedFrom, SeedBegins, Seed, Status, Snapshot
  <2> QED BY <1>31, <2>2 DEF SeedFrom, SeedBegins
<1> QED
  BY <1>1, <1>2, <1>3, <1>4, <1>5, <1>6, <1>7, <1>8, <1>9, <1>10, <1>11,
     <1>12, <1>13, <1>14, <1>15, <1>16, <1>17, <1>18, <1>19, <1>20, <1>21,
     <1>22, <1>23, <1>24, <1>25, <1>26, <1>27, <1>28, <1>29, <1>30, <1>31,
     <1>32, <1>33
     DEF Step, Lifecycle, Gameplay, Saving, Seeding, Claiming, Orchestration,
         Releasing, ReleaseFor, Status

----------------------------------------------------------------------------
(* The inductive invariant.                                                *)

\* The lease was granted to its holder in the present term, so that the
\* holder's writes carry it.
HolderIsGranted == lease \in Process => granted[lease] = term

\* A process has no player before its game is loaded.
LoaderHasNoPlayer ==
    \A p \in Process : role[p] \in {"new", "loading", "joining"} =>
        p \notin attached

IInv ==
    /\ TypeOK
    /\ AppendHasBase
    /\ HolderIsGranted
    /\ LoaderHasNoPlayer
    /\ AuthorityIsLeased

\* The roles in which a process considers itself the room's Active.
Leaseholder == {"loading", "active", "flushing", "resetting", "stopping"}

\* What a step of p can do to the lease: p gets it when nobody has it, gives it
\* up with its role, or leaves it alone; and p becomes a leaseholder only by
\* getting the lease (acquireLease, runtime.ts:2483-2494).
LEMMA StepOnLease ==
    ASSUME TypeOK, NEW p \in Process, Step(p)
    PROVE  /\ \A q \in Process \ {p} : role'[q] = role[q]
           /\ faults \subseteq faults'
           /\ \/ AcquireLease(p)
              \/ /\ lease' = LeaseWithout(p)
                 /\ role'[p] \notin Leaseholder
                 /\ UNCHANGED <<term, granted>>
              \/ /\ role'[p] \in Leaseholder => role[p] \in Leaseholder
                 /\ UNCHANGED leaseVars
<1> USE DEF TypeOK, Leaseholder, leaseVars
<1>1. CASE Lifecycle(p)
  BY <1>1 DEF Lifecycle, StartAcquires, StartJoins, StartGivesUp, LoadActive,
     LoadCandidate, RefreshFails, Dies, ResetClearsSnapshot,
     ResetClearsJournal, StopBegins, StopReleases, Exit, Happens
<1>2. CASE Gameplay(p)
  BY <1>2 DEF Gameplay, ProcessInput, Disconnect
<1>3. CASE Saving(p)
  BY <1>3 DEF Saving, SaveBegins, SetSnapshot, SetWithoutDelta, AppendDelta,
     WriteTimesOut, ReplyLost, Happens
<1>4. CASE Seeding(p)
  BY <1>4 DEF Seeding, SeedWaits, SeedBlocks, SeedApplies, SeedRefused,
     SeedEnds, Happens
<1>5. CASE Claiming(p)
  BY <1>5 DEF Claiming, TakeoverBegins, TakesOver, TakeoverFails,
         TakeoverWaits, Promote, PromoteFails, BecomesActive
<1>6. CASE Orchestration(p)
  BY <1>6 DEF Orchestration, ReleaseFor, ReleaseBegins, SeedFrom, SeedBegins,
     PromoteBegins
<1>7. CASE Releasing(p)
  BY <1>7 DEF Releasing, ReleaseDeletes, ReleaseEnds
<1> QED BY <1>1, <1>2, <1>3, <1>4, <1>5, <1>6, <1>7 DEF Step

\* What a step of p can do to the writers: only p's own changes, and an append
\* begins from the base it has and ends before that base is dropped
\* (persistEnvelope, runtime.ts:2405-2440).
LEMMA StepKeepsAppendHasBase ==
    ASSUME TypeOK, AppendHasBase, NEW p \in Process, Step(p)
    PROVE  AppendHasBase'
<1> USE DEF TypeOK, AppendHasBase, gameVars, writerVars
<1>1. CASE Lifecycle(p)
  <2>1. CASE \/ StartAcquires(p) \/ StartJoins(p) \/ ResetClearsSnapshot(p)
             \/ ResetClearsJournal(p) \/ StopBegins(p)
    BY <2>1 DEF StartAcquires, StartJoins, ResetClearsSnapshot,
       ResetClearsJournal, StopBegins
  <2>2. CASE Exit(p)
    BY <2>2 DEF Exit
  <2>3. CASE LoadActive(p) \/ LoadCandidate(p)
    <3>1. UNCHANGED write
      BY <2>3 DEF LoadActive, LoadCandidate
    <3>2. snapshot # None => snapshot.content \in Checkpoint
      BY DEF Snapshot
    <3>3. base' = base \/ \E c \in Checkpoint : base' = [base EXCEPT ![p] = c]
      BY <2>3, <3>2 DEF LoadActive, LoadCandidate
    <3> QED BY <3>1, <3>3, NoneAssumption
  <2> QED BY <1>1, <2>1, <2>2, <2>3
          DEF Lifecycle, StartGivesUp, RefreshFails, Dies, StopReleases
<1>2. CASE Gameplay(p)
  BY <1>2 DEF Gameplay, ProcessInput, Disconnect
<1>3. CASE Saving(p)
  <2>1. write[p] # None => write[p] \in Write
    OBVIOUS
  <2>2. CASE SaveBegins(p)
    BY <2>2 DEF SaveBegins
  <2>3. CASE SetSnapshot(p)
    BY <2>1, <2>3 DEF SetSnapshot, Failed, Persisted, HasDelta, Write
  <2>4. CASE SetWithoutDelta(p) \/ AppendDelta(p) \/ ReplyLost(p)
    BY <2>4 DEF SetWithoutDelta, AppendDelta, ReplyLost, Failed, Persisted
  <2>5. CASE WriteTimesOut(p)
    BY <2>1, <2>5 DEF WriteTimesOut, Write
  <2> QED BY <1>3, <2>2, <2>3, <2>4, <2>5 DEF Saving
<1>4. CASE Seeding(p)
  <2>1. UNCHANGED write
    BY <1>4 DEF Seeding, SeedWaits, SeedBlocks, SeedApplies, SeedRefused,
       SeedEnds
  <2>2. base' = base \/ \E c \in Checkpoint : base' = [base EXCEPT ![p] = c]
    BY <1>4 DEF Seeding, SeedWaits, SeedBlocks, SeedApplies, SeedRefused
  <2> QED BY <2>1, <2>2, NoneAssumption
<1>5. CASE Claiming(p)
  BY <1>5 DEF Claiming, TakeoverBegins, TakesOver, TakeoverFails,
         TakeoverWaits, Promote, PromoteFails
<1>6. CASE Orchestration(p)
  BY <1>6 DEF Orchestration, ReleaseFor, ReleaseBegins, SeedFrom, SeedBegins,
     PromoteBegins
<1>7. CASE Releasing(p)
  BY <1>7 DEF Releasing, ReleaseDeletes, ReleaseEnds
<1> QED BY <1>1, <1>2, <1>3, <1>4, <1>5, <1>6, <1>7 DEF Step

\* What a step of p can do to the players: they join a process whose game is
\* loaded, and while one is connected to p its game only grows
\* (applyCandidateEnvelope, runtime.ts:2589-2598).
LEMMA StepOnGame ==
    ASSUME TypeOK, LoaderHasNoPlayer, NEW p \in Process, Step(p)
    PROVE  /\ LoaderHasNoPlayer'
           /\ \A q \in Process :
                 q \in attached /\ q \in attached' => game[q] \subseteq game'[q]
<1> USE DEF TypeOK, LoaderHasNoPlayer, gameVars
<1>1. CASE Lifecycle(p)
  BY <1>1 DEF Lifecycle, StartAcquires, StartJoins, StartGivesUp, LoadActive,
     LoadCandidate, RefreshFails, Dies, ResetClearsSnapshot,
     ResetClearsJournal, StopBegins, StopReleases, Exit
<1>2. CASE Gameplay(p)
  BY <1>2 DEF Gameplay, ProcessInput, Disconnect, AcceptsInput, Serving
<1>3. CASE Saving(p)
  BY <1>3 DEF Saving, SaveBegins, SetSnapshot, SetWithoutDelta, AppendDelta,
     WriteTimesOut, ReplyLost
<1>4. CASE Seeding(p)
  BY <1>4 DEF Seeding, SeedWaits, SeedBlocks, SeedApplies, SeedRefused,
     SeedEnds, MayApply
<1>5. CASE Claiming(p)
  BY <1>5 DEF Claiming, TakeoverBegins, TakesOver, TakeoverFails,
         TakeoverWaits, Promote, PromoteFails, BecomesActive
<1>6. CASE Orchestration(p)
  BY <1>6 DEF Orchestration, ReleaseFor, ReleaseBegins, SeedFrom, SeedBegins,
     PromoteBegins
<1>7. CASE Releasing(p)
  BY <1>7 DEF Releasing, ReleaseDeletes, ReleaseEnds
<1> QED BY <1>1, <1>2, <1>3, <1>4, <1>5, <1>6, <1>7 DEF Step

\* The invariant holds when the room's first process starts
\* (runtime.ts:2004-2047).
LEMMA InitIInv == Init => IInv
<1> SUFFICES ASSUME Init PROVE IInv
  OBVIOUS
<1>1. TypeOK
  BY InitTypeOK
<1>2. AppendHasBase /\ LoaderHasNoPlayer /\ AuthorityIsLeased
  BY DEF Init, AppendHasBase, LoaderHasNoPlayer, AuthorityIsLeased
<1>3. HolderIsGranted
  BY NoneAssumption DEF Init, HolderIsGranted
<1> QED BY <1>1, <1>2, <1>3 DEF IInv

\* Every step keeps the invariant, the expiry of the lease (its PX,
\* runtime.ts:2483-2494) included.
LEMMA NextIInv == IInv /\ [Next]_vars => IInv'
<1> SUFFICES ASSUME IInv, [Next]_vars PROVE IInv'
  OBVIOUS
<1> USE DEF IInv
<1>1. ASSUME NEW p \in Process, Step(p)
      PROVE  IInv'
  <2>1. TypeOK' /\ AppendHasBase' /\ LoaderHasNoPlayer'
    BY <1>1, StepKeepsTypeOK, StepKeepsAppendHasBase, StepOnGame
  <2>2. HolderIsGranted' /\ AuthorityIsLeased'
    <3>1. CASE AcquireLease(p)
      BY <1>1, <3>1, StepOnLease, NoneAssumption
         DEF AcquireLease, HolderIsGranted, AuthorityIsLeased, TypeOK
    <3>2. CASE /\ lease' = LeaseWithout(p)
               /\ role'[p] \notin Leaseholder
               /\ UNCHANGED <<term, granted>>
      BY <1>1, <3>2, StepOnLease, NoneAssumption
         DEF LeaseWithout, Leaseholder, HolderIsGranted, AuthorityIsLeased
    <3>3. CASE /\ role'[p] \in Leaseholder => role[p] \in Leaseholder
               /\ UNCHANGED leaseVars
      BY <1>1, <3>3, StepOnLease
         DEF leaseVars, Leaseholder, HolderIsGranted, AuthorityIsLeased
    <3> QED BY <1>1, <3>1, <3>2, <3>3, StepOnLease
  <2> QED BY <2>1, <2>2
<1>2. CASE LeaseExpires
  <2>1. TypeOK'
    BY <1>2 DEF LeaseExpires, Happens, TypeOK, gameVars, writerVars,
       candidateVars, claimVars, storeVars
  <2>2. AppendHasBase' /\ LoaderHasNoPlayer'
    BY <1>2 DEF LeaseExpires, AppendHasBase, LoaderHasNoPlayer, gameVars,
       writerVars
  <2>3. HolderIsGranted' /\ AuthorityIsLeased'
    BY <1>2, NoneAssumption
       DEF LeaseExpires, Happens, HolderIsGranted, AuthorityIsLeased, TypeOK
  <2> QED BY <2>1, <2>2, <2>3
<1>3. CASE UNCHANGED vars
  BY <1>3 DEF vars, gameVars, writerVars, candidateVars, claimVars, leaseVars,
     storeVars,
     TypeOK, AppendHasBase, HolderIsGranted, LoaderHasNoPlayer,
     AuthorityIsLeased
<1> QED BY <1>1, <1>2, <1>3 DEF Next

\* The invariant of every run of the room, with or without fairness
\* (runtime.ts:2004-2649).
LEMMA SpecIInv == Spec => []IInv
BY InitIInv, NextIInv, PTL DEF Spec

----------------------------------------------------------------------------
(* The theorems.                                                           *)

\* Every state variable keeps its type, whatever faults happen.
THEOREM TypeOKAlways == Spec => []TypeOK
BY SpecIInv, PTL DEF IInv

\* While no process stalls, whoever considers itself the room's Active holds
\* the lease (refresh and release, runtime.ts:2291-2348, 2483-2517).
THEOREM AuthorityIsLeasedAlways == Spec => []AuthorityIsLeased
BY SpecIInv, PTL DEF IInv

\* No seed, however late, takes away what connected players have done
\* (applyCandidateEnvelope, runtime.ts:2589-2598).
THEOREM ConnectedGameGrowsAlways == Spec => ConnectedGameGrows
<1> DEFINE Grows == \A p \in Process :
                       p \in attached /\ p \in attached' =>
                           game[p] \subseteq game'[p]
<1>1. IInv /\ [Next]_vars => Grows
  <2> SUFFICES ASSUME IInv, [Next]_vars PROVE Grows
    OBVIOUS
  <2>1. ASSUME NEW p \in Process, Step(p) PROVE Grows
    BY <2>1, StepOnGame DEF IInv
  <2>2. CASE LeaseExpires \/ UNCHANGED vars
    BY <2>2 DEF LeaseExpires, vars, gameVars
  <2> QED BY <2>1, <2>2 DEF Next
<1>2. IInv /\ [Next]_vars => [Grows]_vars
  BY <1>1
<1>3. Spec => [][Grows]_vars
  BY <1>2, SpecIInv, PTL DEF Spec
<1> QED BY <1>3 DEF ConnectedGameGrows

\* A writer's fenced scripts are writes of the present term (runtime.ts:549-556
\* and 2391-2440, journal.ts:194-227).
LEMMA SavingIsFenced ==
    ASSUME IInv, NEW p \in Process, Saving(p)
    PROVE  [Store!Next]_(Store!vars)
<1> USE DEF IInv, TypeOK, Store!vars, Fenced, leaseVars, storeVars
<1>1. UNCHANGED <<lease, term>>
  BY DEF Saving, SaveBegins, SetSnapshot, SetWithoutDelta, AppendDelta,
     WriteTimesOut, ReplyLost
<1>2. lease = p => lease # None /\ granted[p] = term
  BY NoneAssumption DEF HolderIsGranted
<1>3. write[p] # None => write[p].content \in Checkpoint
  BY DEF Write
<1>4. CASE SaveBegins(p) \/ WriteTimesOut(p)
  BY <1>4 DEF SaveBegins, WriteTimesOut
<1>5. CASE SetSnapshot(p) \/ SetWithoutDelta(p) \/ ReplyLost(p)
  <2>1. CASE UNCHANGED snapshot
    BY <1>1, <1>5, <2>1 DEF SetSnapshot, SetWithoutDelta, ReplyLost
  <2>2. CASE ~UNCHANGED snapshot
    <3>1. /\ snapshot' = [content |-> write[p].content, term |-> term]
          /\ write[p].content \in Checkpoint
          /\ lease # None
          /\ UNCHANGED <<lease, term, journal>>
      BY <1>1, <1>2, <1>3, <1>5, <2>2
         DEF SetSnapshot, SetWithoutDelta, ReplyLost
    <3>2. Store!Put(write[p].content)
      BY <3>1 DEF Store!Put
    <3> QED BY <3>1, <3>2 DEF Store!Next
  <2> QED BY <2>1, <2>2
<1>6. CASE AppendDelta(p)
  <2>1. CASE UNCHANGED journal
    BY <1>1, <1>6, <2>1 DEF AppendDelta
  <2>2. CASE ~UNCHANGED journal
    <3> DEFINE d == [base |-> base[p], target |-> write[p].content,
                     term |-> term]
    <3>1. /\ journal' = Appended(d)
          /\ lease # None
          /\ UNCHANGED <<lease, term, snapshot>>
      BY <1>1, <1>2, <1>6, <2>2 DEF AppendDelta
    <3>2. base[p] \in Checkpoint /\ write[p].content \in Checkpoint
      BY <1>3, <1>6 DEF AppendDelta, AppendHasBase
    <3>3. d \in Delta
      BY <3>2 DEF Delta
    <3>4. PICK n \in 1..Len(journal) + 1 :
             journal' = SubSeq(Append(journal, d), n, Len(journal) + 1)
      BY <3>1, <3>3, AppendedIsJournal
    <3>5. Store!Extend
      BY <3>1, <3>2, <3>4 DEF Store!Extend
    <3> QED BY <3>5 DEF Store!Next
  <2> QED BY <2>1, <2>2
<1> QED BY <1>4, <1>5, <1>6 DEF Saving

\* The process's lease operations are those of the store, and a reset erases
\* what the lease's holder owns (runtime.ts:2457-2494).
LEMMA OthersAreFenced ==
    ASSUME IInv, NEW p \in Process, Step(p), ~Saving(p)
    PROVE  [Store!Next]_(Store!vars)
<1> USE DEF Store!vars, leaseVars, storeVars
<1>1. CASE ResetClearsSnapshot(p)
  <2>1. Store!EraseSnapshot
    BY <1>1, NoneAssumption DEF ResetClearsSnapshot, Fenced, Store!EraseSnapshot
  <2> QED BY <2>1 DEF Store!Next
<1>2. CASE ResetClearsJournal(p)
  <2>1. Store!EraseJournal
    BY <1>2, NoneAssumption DEF ResetClearsJournal, Fenced, Store!EraseJournal
  <2> QED BY <2>1 DEF Store!Next
<1>3. CASE ~ResetClearsSnapshot(p) /\ ~ResetClearsJournal(p)
  <2>1. UNCHANGED storeVars
    <3>1. CASE Lifecycle(p)
      BY <1>3, <3>1 DEF Lifecycle, StartAcquires, StartJoins, StartGivesUp,
         LoadActive, LoadCandidate, RefreshFails, Dies, StopBegins,
         StopReleases
    <3>2. CASE Gameplay(p)
      BY <3>2 DEF Gameplay, ProcessInput, Disconnect
    <3>3. CASE Seeding(p)
      BY <3>3 DEF Seeding, SeedWaits, SeedBlocks, SeedApplies, SeedRefused,
         SeedEnds
    <3>4. CASE Claiming(p)
      BY <3>4 DEF Claiming, TakeoverBegins, TakesOver, TakeoverFails,
         TakeoverWaits, Promote, PromoteFails
    <3>5. CASE Orchestration(p)
      BY <3>5 DEF Orchestration, ReleaseFor, ReleaseBegins, SeedFrom,
         SeedBegins, PromoteBegins
    <3>6. CASE Releasing(p)
      BY <3>6 DEF Releasing, ReleaseDeletes, ReleaseEnds
    <3> QED BY <3>1, <3>2, <3>3, <3>4, <3>5, <3>6 DEF Step
  <2>2. CASE AcquireLease(p)
    <3>1. Store!Grant(p)
      BY <2>1, <2>2 DEF AcquireLease, Store!Grant
    <3> QED BY <3>1 DEF Store!Next
  <2>3. CASE lease' = LeaseWithout(p) /\ UNCHANGED <<term, granted>>
    <3>1. Store!Vacate \/ UNCHANGED Store!vars
      BY <2>1, <2>3 DEF LeaseWithout, Store!Vacate
    <3> QED BY <3>1 DEF Store!Next
  <2>4. CASE UNCHANGED leaseVars
    BY <2>1, <2>4
  <2> QED BY <2>2, <2>3, <2>4, StepOnLease DEF IInv
<1> QED BY <1>1, <1>2, <1>3

\* The room's keys are those of the abstract store, in every run: whatever a
\* process that has lost its lease still has in flight changes nothing.
THEOREM StoreIsFencedAlways == Spec => StoreIsFenced
<1>1. Init => Store!Init
  BY DEF Init, Store!Init
<1>2. IInv /\ [Next]_vars => [Store!Next]_(Store!vars)
  <2> SUFFICES ASSUME IInv, [Next]_vars PROVE [Store!Next]_(Store!vars)
    OBVIOUS
  <2>1. ASSUME NEW p \in Process, Step(p) PROVE [Store!Next]_(Store!vars)
    BY <2>1, SavingIsFenced, OthersAreFenced
  <2>2. CASE LeaseExpires
    <3>1. Store!Vacate
      BY <2>2 DEF LeaseExpires, storeVars, Store!Vacate
    <3> QED BY <3>1 DEF Store!Next
  <2>3. CASE UNCHANGED vars
    BY <2>3 DEF vars, leaseVars, storeVars, Store!vars
  <2> QED BY <2>1, <2>2, <2>3 DEF Next
<1>3. Spec => Store!Spec
  BY <1>1, <1>2, SpecIInv, PTL DEF Spec, Store!Spec
<1> QED BY <1>3 DEF StoreIsFenced

----------------------------------------------------------------------------
(* The game loop and the reset: ActiveRuns and ResetDiscardsGame.          *)

\* A ready Candidate's game loop runs, and goes on while the Candidate awaits
\* the lease to take over; a process that has loaded nothing is not ready.
Runs ==
    "late_seed" \notin faults =>
        \A p \in Process :
            /\ role[p] \in {"active", "flushing", "releasing"} => p \in running
            /\ takeover[p] # None => role[p] = "candidate" /\ p \in running
            /\ role[p] = "candidate" /\ status[p].ready => p \in running
            /\ role[p] \in {"new", "joining"} => ~status[p].ready

\* A reset has paused its game and flushed its writer, and no seed of it is
\* under way; nobody has written since, unless the lease is gone.
ResettingIsIdle ==
    \A p \in Process : role[p] = "resetting" =>
        /\ write[p] = None
        /\ seeding[p] = None
        /\ p \notin running
        /\ lease = p => snapshot = None

\* Every step of a process keeps Runs (opsiaReady, runtime.ts:2055-2200 and
\* 2518-2640).
LEMMA StepKeepsRuns ==
    ASSUME TypeOK, Runs, NEW p \in Process, Step(p)
    PROVE  Runs'
<1> USE DEF TypeOK, Runs
<1>1. CASE Lifecycle(p)
  <2>1. CASE Exit(p)
    <3>1. faults \subseteq faults'
      BY <1>1 DEF Lifecycle, StartAcquires, StartJoins, StartGivesUp,
         LoadActive, LoadCandidate, RefreshFails, Dies, ResetClearsSnapshot,
         ResetClearsJournal, StopBegins, StopReleases, Happens
    <3> QED BY <2>1, <3>1 DEF Exit
  <2>2. CASE LoadCandidate(p)
    <3>1. CASE snapshot = None
      BY <2>2, <3>1 DEF LoadCandidate, claimVars
    <3>2. CASE snapshot # None
      BY <2>2, <3>2 DEF LoadCandidate, claimVars
    <3> QED BY <3>1, <3>2
  <2>3. CASE LoadActive(p)
    BY <2>3 DEF LoadActive, candidateVars, claimVars
  <2>4. CASE \/ StartAcquires(p) \/ StartJoins(p) \/ ResetClearsSnapshot(p)
             \/ ResetClearsJournal(p) \/ StopBegins(p)
    BY <2>4 DEF StartAcquires, StartJoins, ResetClearsSnapshot,
       ResetClearsJournal, StopBegins, Paused, candidateVars, claimVars
  <2> QED BY <1>1, <2>1, <2>2, <2>3, <2>4
          DEF Lifecycle, StartGivesUp, RefreshFails, Dies, StopReleases
<1>2. CASE Gameplay(p)
  BY <1>2 DEF Gameplay, ProcessInput, Disconnect, candidateVars, claimVars
<1>3. CASE Saving(p)
  BY <1>3 DEF Saving, SaveBegins, SetSnapshot, SetWithoutDelta, AppendDelta,
     WriteTimesOut, ReplyLost, Happens, candidateVars, claimVars
<1>4. CASE Seeding(p)
  <2> SUFFICES ASSUME "late_seed" \notin faults' PROVE Runs'
    OBVIOUS
  <2>1. /\ role[p] = "candidate" /\ takeover[p] = None
        /\ UNCHANGED <<role, faults, takeover>>
        /\ \/ running' = running \cup {p}
           \/ running' = running \ {p} /\ ~status'[p].ready
        /\ \A q \in Process \ {p} : status'[q] = status[q]
    BY <1>4 DEF Seeding, SeedWaits, SeedBlocks, SeedApplies, SeedRefused,
       SeedEnds, IsLate, Happens, StatusOf, NoStatus, claimVars
  <2> QED BY <2>1
<1>5. CASE Claiming(p)
  <2>1. CASE TakeoverBegins(p) \/ TakeoverFails(p) \/ TakeoverWaits(p)
    BY <2>1 DEF TakeoverBegins, TakeoverFails, TakeoverWaits, ReadyToTakeOver,
       claimVars
  <2>2. CASE TakesOver(p)
    BY <2>2 DEF TakesOver, BecomesActive
  <2>3. CASE Promote(p)
    BY <2>3 DEF Promote, PromotionIsNext, BecomesActive
  <2>4. CASE PromoteFails(p)
    BY <2>4 DEF PromoteFails
  <2> QED BY <1>5, <2>1, <2>2, <2>3, <2>4 DEF Claiming
<1>6. CASE Orchestration(p)
  BY <1>6 DEF Orchestration, ReleaseFor, ReleaseBegins, SeedFrom, SeedBegins,
     PromoteBegins, candidateVars, claimVars
<1>7. CASE Releasing(p)
  BY <1>7 DEF Releasing, ReleaseDeletes, ReleaseEnds, candidateVars, claimVars
<1> QED BY <1>1, <1>2, <1>3, <1>4, <1>5, <1>6, <1>7 DEF Step

\* Every step of a process keeps ResettingIsIdle (resetOpsia,
\* gameProcess.ts:180-235).
LEMMA StepKeepsResettingIsIdle ==
    ASSUME TypeOK, ResettingIsIdle, NEW p \in Process, Step(p)
    PROVE  ResettingIsIdle'
<1> USE NoneAssumption DEF TypeOK, ResettingIsIdle
<1>1. CASE Lifecycle(p)
  <2>1. CASE Exit(p)
    <3>1. UNCHANGED snapshot /\ (UNCHANGED lease \/ lease' = None)
      BY <1>1, <2>1 DEF Lifecycle, StartAcquires, StartJoins, StartGivesUp,
         LoadActive, LoadCandidate, RefreshFails, Dies, ResetClearsSnapshot,
         ResetClearsJournal, StopBegins, StopReleases, Exit, LeaseWithout,
         leaseVars, storeVars
    <3> QED BY <2>1, <3>1 DEF Exit
  <2>2. CASE ResetClearsSnapshot(p)
    BY <2>2 DEF ResetClearsSnapshot, Paused, Flushed, ReadsDone, writerVars,
       candidateVars, leaseVars
  <2>3. CASE LoadActive(p) \/ LoadCandidate(p)
    <3>1. /\ role' = [role EXCEPT ![p] = "active"] \/
             role' = [role EXCEPT ![p] = "candidate"]
          /\ running' \subseteq running \cup {p}
          /\ UNCHANGED <<write, seeding, lease, snapshot>>
      BY <2>3 DEF LoadActive, LoadCandidate, candidateVars, leaseVars, storeVars
    <3> QED BY <3>1
  <2>4. CASE StartAcquires(p) \/ StartJoins(p) \/ ResetClearsJournal(p)
             \/ StopBegins(p)
    BY <2>4 DEF StartAcquires, AcquireLease, StartJoins, ResetClearsJournal,
       StopBegins, Paused, writerVars, candidateVars, leaseVars, storeVars
  <2> QED BY <1>1, <2>1, <2>2, <2>3, <2>4
          DEF Lifecycle, StartGivesUp, RefreshFails, Dies, StopReleases
<1>2. CASE Gameplay(p)
  BY <1>2 DEF Gameplay, ProcessInput, Disconnect, writerVars, candidateVars,
     leaseVars, storeVars
<1>3. CASE Saving(p)
  <2>1. CASE SaveBegins(p)
    BY <2>1 DEF SaveBegins, candidateVars, leaseVars, storeVars
  <2>2. CASE ~SaveBegins(p)
    <3>1. /\ write[p] # None
          /\ \A q \in Process \ {p} : write'[q] = write[q]
          /\ UNCHANGED <<role, running, seeding, lease>>
          /\ UNCHANGED snapshot \/ lease = p
      BY <1>3, <2>2 DEF Saving, SetSnapshot, SetWithoutDelta, AppendDelta,
         WriteTimesOut, ReplyLost, Failed, Persisted, Fenced, candidateVars,
         leaseVars, storeVars
    <3> QED BY <3>1
  <2> QED BY <2>1, <2>2
<1>4. CASE Seeding(p)
  <2>1. SeedEnds(p, TRUE) \/ SeedEnds(p, FALSE)
    BY <1>4 DEF Seeding, SeedWaits, SeedBlocks, SeedApplies, SeedRefused
  <2>2. /\ seeding[p] # None
        /\ seeding' = [seeding EXCEPT ![p] = None]
        /\ running' \subseteq running \cup {p}
        /\ UNCHANGED <<role, write, lease, snapshot>>
    BY <2>1 DEF SeedEnds, leaseVars, storeVars
  <2> QED BY <2>2
<1>5. CASE Claiming(p)
  BY <1>5 DEF Claiming, TakeoverBegins, TakesOver, TakeoverFails,
         TakeoverWaits, Promote, PromoteFails, BecomesActive, AcquireLease,
     writerVars, leaseVars, storeVars
<1>6. CASE Orchestration(p)
  BY <1>6 DEF Orchestration, ReleaseFor, ReleaseBegins, SeedFrom, SeedBegins,
     PromoteBegins, MayPromote,
     writerVars, candidateVars, leaseVars, storeVars
<1>7. CASE Releasing(p)
  BY <1>7 DEF Releasing, ReleaseDeletes, ReleaseEnds, LeaseWithout, writerVars,
     candidateVars, leaseVars, storeVars
<1> QED BY <1>1, <1>2, <1>3, <1>4, <1>5, <1>6, <1>7 DEF Step

\* Both hold in every state (runtime.ts:2004-2649).
LEMMA RunsAlways == Spec => [](Runs /\ ResettingIsIdle)
<1>1. Init => Runs /\ ResettingIsIdle
  BY DEF Init, Runs, ResettingIsIdle, NoStatus
<1>2. IInv /\ Runs /\ ResettingIsIdle /\ [Next]_vars
        => (Runs /\ ResettingIsIdle)'
  <2> SUFFICES ASSUME IInv, Runs, ResettingIsIdle, [Next]_vars
               PROVE  Runs' /\ ResettingIsIdle'
    OBVIOUS
  <2>1. ASSUME NEW p \in Process, Step(p) PROVE Runs' /\ ResettingIsIdle'
    BY <2>1, StepKeepsRuns, StepKeepsResettingIsIdle DEF IInv
  <2>2. CASE LeaseExpires
    BY <2>2, NoneAssumption
       DEF LeaseExpires, Happens, Runs, ResettingIsIdle, writerVars,
           candidateVars, claimVars, storeVars
  <2>3. CASE UNCHANGED vars
    BY <2>3 DEF vars, Runs, ResettingIsIdle, writerVars, candidateVars,
       claimVars,
       leaseVars, storeVars
  <2> QED BY <2>1, <2>2, <2>3 DEF Next
<1> QED BY <1>1, <1>2, SpecIInv, PTL DEF Spec

\* The room's Active is not paused, unless a seed of it ended after it had sent
\* for the lease to take over, or after its promotion (seedInternal and
\* recoverAbandonedLease, runtime.ts:2518-2640).
THEOREM ActiveRunsAlways == Spec => []ActiveRuns
<1>1. Runs => ActiveRuns
  BY DEF Runs, ActiveRuns
<1> QED BY <1>1, RunsAlways, PTL

\* A reset leaves neither a snapshot nor a journal of the discarded game
\* (resetOpsia, gameProcess.ts:180-235), whatever else was under way.
THEOREM ResetDiscardsGameAlways == Spec => ResetDiscardsGame
<1> DEFINE Discards == \A p \in Process :
                          role[p] = "resetting" /\ role'[p] = "stopping"
                              => snapshot' = None /\ journal' = <<>>
<1>1. IInv /\ ResettingIsIdle /\ [Next]_vars => [Discards]_vars
  <2> SUFFICES ASSUME IInv, ResettingIsIdle, Next,
                      NEW p \in Process,
                      role[p] = "resetting", role'[p] = "stopping"
               PROVE  snapshot' = None /\ journal' = <<>>
    OBVIOUS
  <2>1. PICK q \in Process : Step(q)
    BY DEF Next, LeaseExpires
  <2>2. p = q
    BY <2>1, StepOnLease DEF IInv
  <2>3. ResetClearsJournal(p)
    <3> USE <2>1, <2>2 DEF IInv, TypeOK
    <3>1. CASE Lifecycle(p)
      BY <3>1 DEF Lifecycle, StartAcquires, StartJoins, StartGivesUp,
         LoadActive, LoadCandidate, RefreshFails, Dies, ResetClearsSnapshot,
         StopBegins, StopReleases, Exit
    <3>2. CASE Gameplay(p) \/ Saving(p) \/ Seeding(p) \/ Claiming(p)
      BY <3>2 DEF Gameplay, ProcessInput, Disconnect, Saving, SaveBegins,
         SetSnapshot, SetWithoutDelta, AppendDelta, WriteTimesOut, ReplyLost,
         Seeding, SeedWaits, SeedBlocks, SeedApplies, SeedRefused, SeedEnds,
         Claiming, TakeoverBegins, TakesOver, TakeoverFails,
         TakeoverWaits, Promote, PromoteFails, BecomesActive
    <3>3. CASE Orchestration(p) \/ Releasing(p)
      BY <3>3 DEF Orchestration, ReleaseFor, ReleaseBegins, SeedFrom,
         SeedBegins, PromoteBegins, MayPromote, Releasing,
         ReleaseDeletes, ReleaseEnds
    <3> QED BY <3>1, <3>2, <3>3 DEF Step
  <2> QED BY <2>3 DEF ResetClearsJournal, Fenced, ResettingIsIdle
<1>2. Spec => [][Discards]_vars
  BY <1>1, SpecIInv, RunsAlways, PTL DEF Spec
<1> QED BY <1>2 DEF ResetDiscardsGame

----------------------------------------------------------------------------
(* What a released Active has stored: ReleasedIsStored.                    *)

\* Terms are granted once each, and a snapshot was written in one of them.
GrantsAreTerms ==
    /\ \A p \in Process : granted[p] <= term
    /\ \A p, q \in Process : granted[p] = granted[q] => p = q \/ granted[p] = 0
    /\ lease # None => term # 0
    /\ snapshot # None => snapshot.term # 0 /\ snapshot.term <= term

\* The lease is that of a process that takes itself for the authority, or died.
LeaseIsHeld ==
    \A p \in Process : lease = p => role[p] \in Leaseholder \cup {"dead"}

\* A write is late only if it was slow; a release waits for no seed.
LateIsSlow ==
    \A p \in Process : write[p] # None /\ write[p].late => "slow_write" \in faults
ReleasingReadsNothing ==
    \A p \in Process : role[p] = "releasing" => seeding[p] = None

\* The faults after which the stored snapshot may be another one than its writer
\* believes.
Untold == {"stall", "slow_write", "lost_reply"}

\* The snapshot of the present holder is the last one that it has saved, or the
\* one whose delta is being appended; that of a released one is what it returns.
IsSaved(p) ==
    IF write[p] # None /\ write[p].phase = "append"
    THEN write[p].content = snapshot.content
    ELSE saved[p] = snapshot.content
StoredIsSaved ==
    faults \cap Untold = {} =>
        \A p \in Process :
            snapshot # None /\ snapshot.term = granted[p] =>
                /\ role[p] \in {"loading", "active", "flushing"} => IsSaved(p)
                /\ role[p] = "releasing" => status[p].checksum = snapshot.content

StoredInv ==
    /\ GrantsAreTerms
    /\ LeaseIsHeld
    /\ LateIsSlow
    /\ ReleasingReadsNothing
    /\ StoredIsSaved

\* The steps that are no writes leave the terms and the memory of the writer as
\* they are, but for a process that gets the lease and one that exits.
LEMMA OthersKeepStoredInv ==
    ASSUME IInv, StoredInv, NEW p \in Process, Step(p), ~Saving(p)
    PROVE  StoredInv'
<1> USE NoneAssumption DEF IInv, TypeOK, StoredInv, Leaseholder
<1>1. /\ \A q \in Process \ {p} : /\ role'[q] = role[q]
                                  /\ write'[q] = write[q]
                                  /\ saved'[q] = saved[q]
                                  /\ status'[q] = status[q]
                                  /\ seeding'[q] = seeding[q]
      /\ snapshot' = snapshot \/ snapshot' = None
      /\ faults \subseteq faults'
  <2>1. CASE Lifecycle(p)
    <3>1. CASE \/ StartGivesUp(p) \/ RefreshFails(p) \/ Dies(p)
               \/ StopReleases(p)
      BY <3>1 DEF StartGivesUp, RefreshFails, Dies, StopReleases, Exit,
         Happens, storeVars
    <3>2. CASE LoadActive(p) \/ LoadCandidate(p)
      BY <3>2 DEF LoadActive, LoadCandidate, candidateVars, storeVars
    <3>3. CASE \/ StartAcquires(p) \/ StartJoins(p) \/ ResetClearsSnapshot(p)
               \/ ResetClearsJournal(p) \/ StopBegins(p)
      BY <3>3 DEF StartAcquires, StartJoins, ResetClearsSnapshot,
         ResetClearsJournal, StopBegins, writerVars, candidateVars, storeVars
    <3> QED BY <2>1, <3>1, <3>2, <3>3 DEF Lifecycle
  <2>2. CASE Gameplay(p) \/ Claiming(p) \/ Releasing(p)
    BY <2>2 DEF Gameplay, ProcessInput, Disconnect, Claiming, TakeoverBegins,
       TakesOver, TakeoverFails,
         TakeoverWaits, Promote, PromoteFails, BecomesActive, Releasing,
         ReleaseDeletes, ReleaseEnds,
       writerVars, candidateVars, storeVars
  <2>3. CASE Seeding(p)
    <3>1. SeedEnds(p, TRUE) \/ SeedEnds(p, FALSE)
      BY <2>3 DEF Seeding, SeedWaits, SeedBlocks, SeedApplies, SeedRefused
    <3>2. \E x : status' = [status EXCEPT ![p] = x]
      BY <2>3 DEF Seeding, SeedWaits, SeedBlocks, SeedApplies, SeedRefused
    <3> QED BY <3>1, <3>2 DEF SeedEnds, Happens, storeVars
  <2>4. CASE Orchestration(p)
    BY <2>4 DEF Orchestration, ReleaseFor, ReleaseBegins, SeedFrom, SeedBegins,
       PromoteBegins, writerVars, candidateVars,
       storeVars
  <2> QED BY <2>1, <2>2, <2>3, <2>4 DEF Step
<1>2. \/ /\ AcquireLease(p)
         /\ role'[p] \in {"loading", "active"}
         /\ UNCHANGED <<write, seeding, snapshot>>
      \/ /\ role'[p] = "dead"
         /\ write'[p] = None
         /\ \/ lease' = LeaseWithout(p) /\ UNCHANGED <<term, granted>>
            \/ UNCHANGED leaseVars
      \/ /\ ReleaseDeletes(p)
         /\ UNCHANGED <<term, granted>>
      \/ /\ role'[p] \in {"joining", "candidate"}
         /\ lease = p => role[p] = role'[p]
         /\ role[p] # "loading"
         /\ UNCHANGED write
         /\ UNCHANGED leaseVars
      \/ /\ role[p] \in Leaseholder
         /\ role'[p] \in Leaseholder
         /\ role[p] \notin {"loading", "active", "flushing"}
              => role'[p] \notin {"loading", "active", "flushing"}
         /\ UNCHANGED <<write, saved, seeding, leaseVars>>
      \/ /\ role[p] = role'[p]
         /\ role[p] = "releasing" => UNCHANGED <<status, seeding>>
         /\ UNCHANGED <<write, saved, leaseVars>>
  <2>1. CASE Exit(p)
    <3>1. \/ lease' = LeaseWithout(p) /\ UNCHANGED <<term, granted>>
          \/ UNCHANGED leaseVars
      <4>1. CASE Lifecycle(p)
        BY <2>1, <4>1 DEF Lifecycle, StartAcquires, StartJoins, StartGivesUp,
           LoadActive, LoadCandidate, RefreshFails, Dies, ResetClearsSnapshot,
           ResetClearsJournal, StopBegins, StopReleases, Exit
      <4>2. CASE Gameplay(p) \/ Claiming(p) \/ Releasing(p) \/ Seeding(p)
        BY <2>1, <4>2 DEF Exit, Gameplay, ProcessInput, Disconnect, Claiming,
           TakeoverBegins, TakesOver, TakeoverFails, TakeoverWaits, Promote,
           PromoteFails, BecomesActive, Releasing, ReleaseDeletes,
           ReleaseEnds, Seeding, SeedWaits, SeedBlocks, SeedApplies,
           SeedRefused, SeedEnds
      <4>3. CASE Orchestration(p)
        BY <2>1, <4>3 DEF Exit, Orchestration, ReleaseFor, ReleaseBegins,
           SeedFrom, SeedBegins, PromoteBegins,
           MayPromote
      <4> QED BY <4>1, <4>2, <4>3 DEF Step
    <3> QED BY <2>1, <3>1 DEF Exit
  <2>2. CASE Lifecycle(p) /\ ~Exit(p)
    <3>1. CASE StartAcquires(p)
      BY <3>1 DEF StartAcquires, writerVars, candidateVars, storeVars
    <3>2. CASE StartJoins(p)
      BY <3>2 DEF StartJoins, writerVars, LeaseIsHeld
    <3>3. CASE LoadActive(p) \/ ResetClearsSnapshot(p)
               \/ ResetClearsJournal(p) \/ StopBegins(p)
      BY <3>3 DEF LoadActive, ResetClearsSnapshot, ResetClearsJournal,
         StopBegins, writerVars, candidateVars
    <3>4. CASE LoadCandidate(p)
      BY <3>4 DEF LoadCandidate, LeaseIsHeld
    <3> QED BY <2>2, <3>1, <3>2, <3>3, <3>4
            DEF Lifecycle, StartGivesUp, RefreshFails, Dies, StopReleases
  <2>3. CASE Gameplay(p)
    BY <2>3 DEF Gameplay, ProcessInput, Disconnect, writerVars, candidateVars
  <2>4. CASE Seeding(p)
    BY <2>4 DEF Seeding, SeedWaits, SeedBlocks, SeedApplies, SeedRefused,
       SeedEnds, ReleasingReadsNothing
  <2>5. CASE Claiming(p)
    BY <2>5 DEF Claiming, TakeoverBegins, TakesOver, TakeoverFails,
         TakeoverWaits, Promote, PromoteFails, BecomesActive, writerVars,
       storeVars
  <2>6. CASE Orchestration(p)
    BY <2>6 DEF Orchestration, ReleaseFor, ReleaseBegins, SeedFrom, SeedBegins,
       PromoteBegins, MayPromote, writerVars,
       candidateVars, storeVars
  <2>7. CASE Releasing(p)
    BY <2>7 DEF Releasing, ReleaseDeletes, ReleaseEnds, writerVars, LeaseIsHeld
  <2> QED BY <2>1, <2>2, <2>3, <2>4, <2>5, <2>6, <2>7 DEF Step
<1>3. GrantsAreTerms'
  <2>1. CASE AcquireLease(p)
    BY <1>1, <2>1 DEF AcquireLease, GrantsAreTerms, Snapshot
  <2>2. CASE lease' \in {lease, None} /\ UNCHANGED <<term, granted>>
    BY <1>1, <2>2 DEF GrantsAreTerms
  <2> QED BY <1>2, <2>1, <2>2 DEF LeaseWithout, ReleaseDeletes, leaseVars
<1>4. LeaseIsHeld'
  BY <1>1, <1>2 DEF LeaseIsHeld, AcquireLease, LeaseWithout, ReleaseDeletes,
     leaseVars
<1>5. LateIsSlow' /\ ReleasingReadsNothing'
  BY <1>1, <1>2 DEF LateIsSlow, ReleasingReadsNothing, ReleaseDeletes,
     ReadsDone, Flushed, writerVars
<1>6. StoredIsSaved'
  <2> SUFFICES ASSUME faults' \cap Untold = {}, NEW q \in Process,
                      snapshot' # None, snapshot'.term = granted'[q]
               PROVE  /\ role'[q] \in {"loading", "active", "flushing"}
                            => IsSaved(q)'
                      /\ role'[q] = "releasing" =>
                            status'[q].checksum = snapshot'.content
    BY DEF StoredIsSaved, IsSaved
  <2>1. snapshot' = snapshot /\ faults \cap Untold = {}
    BY <1>1
  <2>2. CASE AcquireLease(p)
    <3>1. q # p
      BY <2>1, <2>2 DEF AcquireLease, GrantsAreTerms, Snapshot
    <3> QED BY <1>1, <2>1, <2>2, <3>1 DEF AcquireLease, StoredIsSaved, IsSaved
  <2>3. CASE ~AcquireLease(p)
    <3>1. granted' = granted
      BY <1>2, <2>3 DEF leaseVars
    <3>2. CASE ReleaseDeletes(p)
      <4>1. q = p => status'[q].checksum = snapshot.content
        BY <2>1, <3>1, <3>2
           DEF ReleaseDeletes, Flushed, Checksum, StoredIsSaved, IsSaved,
              Snapshot
      <4> QED BY <1>1, <2>1, <3>1, <3>2, <4>1 DEF ReleaseDeletes,
      StoredIsSaved, IsSaved
    <3>3. CASE ~ReleaseDeletes(p)
      <4>1. CASE q # p
        BY <1>1, <2>1, <3>1, <4>1 DEF StoredIsSaved, IsSaved
      <4>2. CASE q = p /\ role'[p] \in {"loading", "active", "flushing"}
        <5>1. /\ role[p] \in {"loading", "active", "flushing"}
              /\ UNCHANGED <<write, saved>>
          BY <1>2, <2>3, <3>3, <4>2
        <5> QED BY <2>1, <3>1, <4>2, <5>1 DEF StoredIsSaved, IsSaved
      <4>3. CASE q = p /\ role'[p] = "releasing"
        <5>1. role[p] = "releasing" /\ UNCHANGED status
          BY <1>2, <2>3, <3>3, <4>3
        <5> QED BY <2>1, <3>1, <4>3, <5>1 DEF StoredIsSaved, IsSaved
      <4> QED BY <4>1, <4>2, <4>3
    <3> QED BY <3>2, <3>3
  <2> QED BY <2>2, <2>3
<1> QED BY <1>3, <1>4, <1>5, <1>6

\* A write that Redis executes is that of the lease's holder: it is remembered,
\* with the term in which it was granted the lease (execute and
\* persistEnvelope, snapshot.ts:484-539, runtime.ts:2391-2440).
LEMMA SavingKeepsStoredInv ==
    ASSUME IInv, StoredInv, NEW p \in Process, Saving(p)
    PROVE  StoredInv'
<1> USE NoneAssumption DEF IInv, TypeOK, StoredInv, Leaseholder
<1>1. /\ UNCHANGED <<role, status, seeding, lease, term, granted>>
      /\ \A q \in Process \ {p} : write'[q] = write[q] /\ saved'[q] = saved[q]
      /\ faults \subseteq faults'
  BY DEF Saving, SaveBegins, SetSnapshot, SetWithoutDelta, AppendDelta,
     WriteTimesOut, ReplyLost, Failed, Persisted, Happens, candidateVars,
     leaseVars
<1>2. write[p] # None => write[p] \in Write
  OBVIOUS
<1>3. \/ snapshot' = snapshot
      \/ /\ lease = p
         /\ write[p] # None
         /\ snapshot' = [content |-> write[p].content, term |-> term]
         /\ \/ write' = [write EXCEPT ![p].phase = "append"]
            \/ Persisted(p)
            \/ "lost_reply" \in faults'
  BY DEF Saving, SaveBegins, SetSnapshot, SetWithoutDelta, AppendDelta,
     WriteTimesOut, ReplyLost, Happens, Fenced, HolderIsGranted, storeVars
<1>4. GrantsAreTerms'
  BY <1>1, <1>3 DEF GrantsAreTerms
<1>5. LeaseIsHeld' /\ ReleasingReadsNothing'
  BY <1>1 DEF LeaseIsHeld, ReleasingReadsNothing
<1>6. LateIsSlow'
  <2>1. write'[p] # None /\ write'[p].late => "slow_write" \in faults'
    <3>1. CASE SaveBegins(p)
      <4>1. write'[p].late = FALSE
        BY <3>1 DEF SaveBegins
      <4> QED BY <4>1
    <3>2. CASE SetSnapshot(p)
      <4>1. \/ write' = [write EXCEPT ![p] = None]
            \/ write' = [write EXCEPT ![p].phase = "append"]
        BY <3>2 DEF SetSnapshot, Failed, Persisted
      <4>2. write[p] # None /\ write[p] \in Write
        BY <1>2, <3>2 DEF SetSnapshot
      <4>3. CASE write' = [write EXCEPT ![p].phase = "append"]
        <5>1. write'[p] = [write[p] EXCEPT !.phase = "append"]
          BY <4>3
        <5>2. write'[p].late = write[p].late
          BY <4>2, <5>1 DEF Write
        <5> QED BY <1>1, <4>2, <5>2 DEF LateIsSlow
      <4> QED BY <4>1, <4>3
    <3>3. CASE SetWithoutDelta(p) \/ AppendDelta(p) \/ ReplyLost(p)
      BY <3>3 DEF SetWithoutDelta, AppendDelta, ReplyLost, Failed, Persisted
    <3>4. CASE WriteTimesOut(p)
      BY <3>4 DEF WriteTimesOut, Happens
    <3> QED BY <3>1, <3>2, <3>3, <3>4 DEF Saving
  <2> QED BY <1>1, <2>1 DEF LateIsSlow
<1>7. StoredIsSaved'
  <2> SUFFICES ASSUME faults' \cap Untold = {}, NEW q \in Process,
                      snapshot' # None, snapshot'.term = granted'[q]
               PROVE  /\ role'[q] \in {"loading", "active", "flushing"}
                            => IsSaved(q)'
                      /\ role'[q] = "releasing" =>
                            status'[q].checksum = snapshot'.content
    BY DEF StoredIsSaved, IsSaved
  <2>1. faults \cap Untold = {} /\ "stall" \notin faults
    BY <1>1 DEF Untold
  <2>2. write[p] # None => ~write[p].late
    BY <1>1 DEF LateIsSlow, Untold
  <2>3. CASE snapshot' # snapshot
    <3>1. /\ lease = p
          /\ write[p] # None
          /\ snapshot' = [content |-> write[p].content, term |-> term]
          /\ \/ write' = [write EXCEPT ![p].phase = "append"]
             \/ Persisted(p)
      BY <1>3, <2>3 DEF Untold
    <3>2. q = p
      BY <1>1, <3>1 DEF HolderIsGranted, GrantsAreTerms
    <3>3. role[p] # "releasing"
      BY <3>1 DEF LeaseIsHeld
    <3>4. snapshot'.content = write[p].content
      BY <3>1
    <3>5. IsSaved(p)'
      <4>1. CASE Persisted(p)
        <5>1. saved'[p] = write[p].content /\ write'[p] = None
          BY <2>2, <3>1, <4>1 DEF Persisted
        <5> QED BY <3>4, <5>1 DEF IsSaved
      <4>2. CASE write' = [write EXCEPT ![p].phase = "append"]
        <5>1. write'[p] = [write[p] EXCEPT !.phase = "append"]
          BY <4>2
        <5>2. /\ write'[p] \in Write
              /\ write'[p].phase = "append"
              /\ write'[p].content = write[p].content
          BY <1>2, <3>1, <5>1 DEF Write
        <5> QED BY <3>4, <5>2 DEF IsSaved
      <4> QED BY <3>1, <4>1, <4>2
    <3> QED BY <1>1, <3>2, <3>3, <3>5
  <2>4. CASE snapshot' = snapshot
    <3>1. CASE q # p
      BY <1>1, <2>1, <2>4, <3>1 DEF StoredIsSaved, IsSaved
    <3>2. CASE q = p /\ role[p] \in {"loading", "active", "flushing"}
      <4>1. lease = p
        BY <2>1, <3>2 DEF AuthorityIsLeased
      <4>2. CASE AppendDelta(p)
        <5>1. Persisted(p)
          BY <4>1, <4>2 DEF AppendDelta, Fenced
        <5>2. saved'[p] = write[p].content
          BY <2>2, <4>2, <5>1 DEF Persisted, AppendDelta
        <5>3. write[p].content = snapshot.content /\ write'[p] = None
          BY <1>1, <2>1, <2>4, <3>2, <4>2, <5>1
             DEF StoredIsSaved, IsSaved, AppendDelta, Persisted
        <5> QED BY <1>1, <2>4, <3>2, <4>2, <5>2, <5>3 DEF IsSaved, AppendDelta
      <4>3. CASE ~AppendDelta(p)
        BY <1>1, <1>2, <1>3, <2>1, <2>4, <3>2, <4>1, <4>3
           DEF Saving, SaveBegins, SetSnapshot, SetWithoutDelta,
               WriteTimesOut, ReplyLost, Fenced, Persisted, Failed, Happens,
               StoredIsSaved, IsSaved, Write, Untold
      <4> QED BY <4>2, <4>3
    <3>3. CASE q = p /\ role[p] \notin {"loading", "active", "flushing"}
      BY <1>1, <2>1, <2>4, <3>3 DEF StoredIsSaved, IsSaved
    <3> QED BY <3>1, <3>2, <3>3
  <2> QED BY <2>3, <2>4
<1> QED BY <1>4, <1>5, <1>6, <1>7

LEMMA StoredInvAlways == Spec => []StoredInv
<1>1. Init => StoredInv
  BY NoneAssumption
     DEF Init, StoredInv, GrantsAreTerms, LeaseIsHeld, LateIsSlow,
         ReleasingReadsNothing, StoredIsSaved
<1>2. IInv /\ StoredInv /\ [Next]_vars => StoredInv'
  <2> SUFFICES ASSUME IInv, StoredInv, [Next]_vars PROVE StoredInv'
    OBVIOUS
  <2>1. ASSUME NEW p \in Process, Step(p) PROVE StoredInv'
    BY <2>1, OthersKeepStoredInv, SavingKeepsStoredInv
  <2>2. CASE LeaseExpires \/ UNCHANGED vars
    <3>1. /\ lease' \in {lease, None}
          /\ faults \subseteq faults'
          /\ UNCHANGED <<role, write, saved, status, seeding, term, granted,
                         snapshot>>
      BY <2>2 DEF LeaseExpires, Happens, vars, writerVars, candidateVars,
         leaseVars, storeVars
    <3> QED BY <3>1, NoneAssumption
            DEF StoredInv, GrantsAreTerms, LeaseIsHeld, LateIsSlow,
                ReleasingReadsNothing, StoredIsSaved, IsSaved
  <2> QED BY <2>1, <2>2 DEF Next
<1> QED BY <1>1, <1>2, SpecIInv, PTL DEF Spec

\* The checksum that a released Active returns is that of the snapshot which it
\* has stored (releaseActiveForHandoff, runtime.ts:2291-2330), unless a write of it was late, its
\* reply was lost, or the process stalled for longer than the lease lives.
THEOREM ReleasedIsStoredAlways == Spec => []ReleasedIsStored
<1>1. StoredInv => ReleasedIsStored
  BY DEF StoredInv, StoredIsSaved, ReleasedIsStored, Untold
<1> QED BY <1>1, StoredInvAlways, PTL

=============================================================================
