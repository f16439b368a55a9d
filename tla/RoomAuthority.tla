--------------------------- MODULE RoomAuthority ---------------------------
(***************************************************************************)
(* The authority over one room: OpsiaSnapshotStore of                      *)
(* upstream-survev/server/src/opsia/runtime.ts, with the journal it writes *)
(* (journal.ts), the loader that seeds a Candidate (candidate.ts) and the  *)
(* game process that runs it (game/gameProcess.ts).                        *)
(*                                                                         *)
(* The room's processes share three Redis keys: a lease, a snapshot and a  *)
(* journal of deltas.  A process is Active while it holds the lease, and   *)
(* then checkpoints its game to the snapshot and the journal.  Any other   *)
(* one is a Candidate, which restores the stored game and may get the      *)
(* lease because it was promoted, or because the lease was abandoned.      *)
(*                                                                         *)
(* A process stands for one OpsiaSnapshotStore: its lease owner is fresh   *)
(* (pod name and random UUID), so a restarted or reset process is another  *)
(* element of Process.  The commands of a process are executed by Redis in *)
(* the order in which they are sent, each one atomically.                  *)
(***************************************************************************)
EXTENDS Naturals, Sequences
LOCAL INSTANCE SequencesExt

CONSTANTS
    Process,        \* the game processes, in the order of no particular start
    ConfiguredRole, \* OPSIA_ROLE of each process
    RoomEpoch,      \* ROOM_EPOCH, the epoch every process starts with
    Input,          \* the gameplay inputs of the players
    Fault,          \* the kinds of fault that happen, each at most once
    None,           \* no holder, no checkpoint, no write, no seed
    MaxEpoch,       \* bound on room epochs
    MaxTerm,        \* bound on the grants of the lease
    MaxTick,        \* bound on the ticks at which one process saves
    MaxJournal      \* MAXLEN of the journal stream

ASSUME RoleAssumption ==
    ConfiguredRole \in [Process -> {"active", "candidate", "auto"}]
ASSUME EpochAssumption == /\ RoomEpoch \in Nat
                          /\ MaxEpoch \in Nat
                          /\ RoomEpoch <= MaxEpoch
ASSUME BoundAssumption == /\ MaxTerm \in Nat
                          /\ MaxTick \in Nat
                          /\ MaxJournal \in Nat \ {0}
ASSUME FaultAssumption ==
    Fault \subseteq {"crash", "stall", "slow_write", "lost_reply", "late_seed",
                     "large_delta"}

Epoch == 0..MaxEpoch
Tick == 0..MaxTick

\* A snapshot envelope; its checksum is taken to be the envelope itself.  The
\* game is abstracted to the inputs it has processed.
Checkpoint == [epoch : Epoch, tick : Tick, state : SUBSET Input]

\* A stored snapshot, and a delta of the journal, with the term of the lease in
\* which each was written (the term is in no key: it is what fencing is about).
Snapshot == [content : Checkpoint, term : Nat]
Delta == [base : Checkpoint, target : Checkpoint, term : Nat]

\* An in-flight write: the command Redis is to execute next, and whether the
\* writer has already reported the write as timed out.
Write == [content : Checkpoint, phase : {"set", "append"}, late : BOOLEAN]

ASSUME NoneAssumption == /\ None \notin Process \cup Checkpoint
                         /\ None \notin Write

\* candidateStatus, and a seed request with the snapshot that it has read.
Status == [ready : BOOLEAN, epoch : Epoch, tick : Tick,
           checksum : Checkpoint \cup {None}]
Seed == [epoch : Epoch, tick : Tick, checksum : Checkpoint \cup {None},
         stored : Checkpoint \cup {None}]

\* A promotion that awaits the lease: the epoch and the checksum expected.
Promotion == [epoch : Epoch, checksum : Checkpoint]

\* What a process is doing:
\*   new         not started, or an Active that waits for the lease
\*   loading     it holds the lease and reads the snapshot
\*   joining     it found the lease taken and reads the snapshot
\*   active      this.role = "active"
\*   flushing    it is asked to release and waits for its writer
\*   releasing   its lease is deleted, this.role is still "active"
\*   resetting   the room's snapshot is cleared, its journal is not
\*   stopping    stop() waits for the writer before it releases the lease
\*   candidate   this.role = "candidate"
\*   dead        exited
Role == {"new", "loading", "joining", "active", "flushing", "releasing",
         "resetting", "stopping", "candidate", "dead"}

VARIABLES
    role,           \* what each process is doing
    epoch,          \* this.roomEpoch
    running,        \* opsiaReady: the processes whose game loop is not paused
    game,           \* the inputs in each process's game
    attached,       \* the processes with a connected player
    tick,           \* metrics().serverTick: tick of the last write started
    write,          \* the writer's in-flight write
    saved,          \* metrics().lastChecksum
    base,           \* lastJournalEnvelope, what the next delta starts from
    authority,      \* authorityChecksum
    status,         \* candidateStatus
    seeding,        \* candidateSeedInFlight
    armed,          \* the processes whose takeover timer is set
    takeover,       \* the status with which recoverAbandonedLease awaits the lease
    promotion,      \* the request with which promoteCandidate awaits the lease
    lease,          \* the lease key
    term,           \* number of grants of the lease
    granted,        \* the term in which each process last got the lease
    snapshot,       \* the snapshot key
    journal,        \* the journal stream
    faults          \* the faults that have happened

gameVars == <<game, attached>>
writerVars == <<tick, write, saved, base>>
claimVars == <<takeover, promotion>>
candidateVars == <<authority, status, seeding, armed, claimVars>>
leaseVars == <<lease, term, granted>>
storeVars == <<snapshot, journal>>
vars == <<role, epoch, running, gameVars, writerVars, candidateVars,
          leaseVars, storeVars, faults>>

TypeOK ==
    /\ role \in [Process -> Role]
    /\ epoch \in [Process -> Epoch]
    /\ running \subseteq Process
    /\ game \in [Process -> SUBSET Input]
    /\ attached \subseteq Process
    /\ tick \in [Process -> Tick]
    /\ write \in [Process -> Write \cup {None}]
    /\ saved \in [Process -> Checkpoint \cup {None}]
    /\ base \in [Process -> Checkpoint \cup {None}]
    /\ authority \in [Process -> Checkpoint \cup {None}]
    /\ status \in [Process -> Status]
    /\ seeding \in [Process -> Seed \cup {None}]
    /\ armed \subseteq Process
    /\ takeover \in [Process -> Status \cup {None}]
    /\ promotion \in [Process -> Promotion \cup {None}]
    /\ lease \in Process \cup {None}
    /\ term \in Nat
    /\ granted \in [Process -> Nat]
    /\ snapshot \in Snapshot \cup {None}
    /\ journal \in Seq(Delta)
    /\ faults \subseteq Fault

NoStatus == [ready |-> FALSE, epoch |-> 0, tick |-> 0, checksum |-> None]

Init ==
    /\ role = [p \in Process |-> "new"]
    /\ epoch = [p \in Process |-> RoomEpoch]
    /\ running = {}
    /\ game = [p \in Process |-> {}]
    /\ attached = {}
    /\ tick = [p \in Process |-> 0]
    /\ write = [p \in Process |-> None]
    /\ saved = [p \in Process |-> None]
    /\ base = [p \in Process |-> None]
    /\ authority = [p \in Process |-> None]
    /\ status = [p \in Process |-> NoStatus]
    /\ seeding = [p \in Process |-> None]
    /\ armed = {}
    /\ takeover = [p \in Process |-> None]
    /\ promotion = [p \in Process |-> None]
    /\ lease = None
    /\ term = 0
    /\ granted = [p \in Process |-> 0]
    /\ snapshot = None
    /\ journal = <<>>
    /\ faults = {}

\* A fault of kind k happens, unless one has.
Happens(k) ==
    /\ k \in Fault \ faults
    /\ faults' = faults \cup {k}

----------------------------------------------------------------------------
(* The lease.                                                              *)

\* Mutant: SET without NX.
TakeLease(p) ==
    /\ write[p] = None
    /\ term < MaxTerm
    /\ lease' = p
    /\ term' = term + 1
    /\ granted' = [granted EXCEPT ![p] = term + 1]

\* SET NX of the lease by p; its commands still queued were executed before.
AcquireLease(p) ==
    /\ lease = None
    /\ write[p] = None
    /\ term < MaxTerm
    /\ lease' = p
    /\ term' = term + 1
    /\ granted' = [granted EXCEPT ![p] = term + 1]

\* The lease after p has deleted it, if it still was its own.
LeaseWithout(p) == IF lease = p THEN None ELSE lease

\* ready, and this.role is "active" in the process's memory.
Serving(p) == role[p] \in {"active", "flushing", "releasing", "resetting"}

\* acceptsGatewayInput, for a socket opened in the process's present epoch.
AcceptsInput(p) == Serving(p)

\* The refresh timer is set.
Refreshing(p) == role[p] \in {"active", "flushing", "resetting", "stopping"}

\* The process exits: its queued commands were executed, or never are, and its
\* memory is gone.
Exit(p) ==
    /\ role' = [role EXCEPT ![p] = "dead"]
    /\ epoch' = [epoch EXCEPT ![p] = RoomEpoch]
    /\ running' = running \ {p}
    /\ game' = [game EXCEPT ![p] = {}]
    /\ attached' = attached \ {p}
    /\ tick' = [tick EXCEPT ![p] = 0]
    /\ write' = [write EXCEPT ![p] = None]
    /\ saved' = [saved EXCEPT ![p] = None]
    /\ base' = [base EXCEPT ![p] = None]
    /\ authority' = [authority EXCEPT ![p] = None]
    /\ status' = [status EXCEPT ![p] = NoStatus]
    /\ seeding' = [seeding EXCEPT ![p] = None]
    /\ armed' = armed \ {p}
    /\ takeover' = [takeover EXCEPT ![p] = None]
    /\ promotion' = [promotion EXCEPT ![p] = None]

\* A refresh of the lease finds that it is no longer the process's own: exit.
RefreshFails(p) ==
    /\ Refreshing(p)
    /\ lease # p
    /\ Exit(p)
    /\ UNCHANGED <<leaseVars, storeVars, faults>>

\* The lease expires: that of a dead process, or of one that stalls for longer
\* than the lease lives.
LeaseExpires ==
    /\ lease # None
    /\ \/ role[lease] = "dead" /\ UNCHANGED faults
       \/ role[lease] # "dead" /\ Happens("stall")
    /\ lease' = None
    /\ UNCHANGED <<role, epoch, running, gameVars, writerVars, candidateVars,
                   term, granted, storeVars>>

\* A process dies: a Candidate at any time (its pod is deleted: it gets SIGTERM
\* and has nothing it may save), any other one by a crash.
Dies(p) ==
    /\ \/ role[p] \in {"joining", "candidate"} /\ UNCHANGED faults
       \/ /\ role[p] \notin {"new", "dead", "joining", "candidate"}
          /\ Happens("crash")
    /\ Exit(p)
    /\ UNCHANGED <<leaseVars, storeVars>>

----------------------------------------------------------------------------
(* start(): an Active waits for the lease, an auto process that finds it   *)
(* taken becomes a Candidate.                                              *)

StartAcquires(p) ==
    /\ role[p] = "new"
    /\ ConfiguredRole[p] \in {"active", "auto"}
    /\ AcquireLease(p)
    /\ role' = [role EXCEPT ![p] = "loading"]
    /\ UNCHANGED <<epoch, running, gameVars, writerVars, candidateVars,
                   storeVars, faults>>

StartJoins(p) ==
    /\ role[p] = "new"
    /\ \/ ConfiguredRole[p] = "candidate"
       \/ ConfiguredRole[p] = "auto" /\ lease # None
    /\ role' = [role EXCEPT ![p] = "joining"]
    /\ UNCHANGED <<epoch, running, gameVars, writerVars, candidateVars,
                   leaseVars, storeVars, faults>>

\* Fifteen attempts a second apart all find the lease taken.
StartGivesUp(p) ==
    /\ role[p] = "new"
    /\ ConfiguredRole[p] = "active"
    /\ lease # None
    /\ Exit(p)
    /\ UNCHANGED <<leaseVars, storeVars, faults>>

\* load() and restoreGame: the epoch of the snapshot is not adopted.
LoadActive(p) ==
    /\ role[p] = "loading"
    /\ role' = [role EXCEPT ![p] = "active"]
    /\ running' = running \cup {p}
    /\ \/ /\ snapshot = None
          /\ UNCHANGED <<game, base>>
       \/ /\ snapshot # None
          /\ game' = [game EXCEPT ![p] = snapshot.content.state]
          /\ base' = [base EXCEPT ![p] = snapshot.content]
    /\ UNCHANGED <<epoch, attached, tick, write, saved, candidateVars,
                   leaseVars, storeVars, faults>>

\* Mutant: the status names the tick that comes after the envelope's.
NextTickStatus(c, ready) ==
    [ready |-> ready, epoch |-> c.epoch, tick |-> c.tick + 1, checksum |-> c]

\* statusForEnvelope, of a Candidate that is ready with c or blocked at c.
StatusOf(c, ready) ==
    [ready |-> ready, epoch |-> c.epoch, tick |-> c.tick, checksum |-> c]

\* loadLatest(): the snapshot alone, of whatever tick.
LoadCandidate(p) ==
    /\ role[p] = "joining"
    /\ role' = [role EXCEPT ![p] = "candidate"]
    /\ \/ /\ snapshot = None
          /\ UNCHANGED <<running, game, base, authority, status>>
       \/ /\ snapshot # None
          /\ running' = running \cup {p}
          /\ game' = [game EXCEPT ![p] = snapshot.content.state]
          /\ base' = [base EXCEPT ![p] = snapshot.content]
          /\ authority' = [authority EXCEPT ![p] = snapshot.content]
          /\ status' = [status EXCEPT ![p] = StatusOf(snapshot.content, TRUE)]
    /\ armed' = IF ConfiguredRole[p] = "auto" THEN armed \cup {p} ELSE armed
    /\ UNCHANGED <<epoch, attached, tick, write, saved, seeding, claimVars,
                   leaseVars, storeVars, faults>>

----------------------------------------------------------------------------
(* The game of an Active, and its checkpoints.                             *)

\* A connected player's input is processed by the game of p.
ProcessInput(p, i) ==
    /\ AcceptsInput(p)
    /\ i \notin game[p]
    /\ game' = [game EXCEPT ![p] = @ \cup {i}]
    /\ attached' = attached \cup {p}
    /\ UNCHANGED <<role, epoch, running, writerVars, candidateVars,
                   leaseVars, storeVars, faults>>

\* The last socket of p is closed; its player is kept as disconnected.
Disconnect(p) ==
    /\ p \in attached
    /\ attached' = attached \ {p}
    /\ UNCHANGED <<role, epoch, running, game, writerVars, candidateVars,
                   leaseVars, storeVars, faults>>

\* save() by the game loop or by POST /ops/snapshot/save, at a later tick.
SaveBegins(p) ==
    /\ Serving(p)
    /\ p \in running
    /\ write[p] = None
    /\ tick[p] < MaxTick
    /\ tick' = [tick EXCEPT ![p] = @ + 1]
    /\ write' = [write EXCEPT ![p] =
                    [content |-> [epoch |-> epoch[p], tick |-> tick[p] + 1,
                                  state |-> game[p]],
                     phase |-> "set", late |-> FALSE]]
    /\ UNCHANGED <<role, epoch, running, gameVars, saved, base, candidateVars,
                   leaseVars, storeVars, faults>>

\* Mutant: the snapshot is SET whoever holds the lease.
Unfenced(p) == TRUE

\* The scripts' guard: GET lease = owner.
Fenced(p) == lease = p

\* persistEnvelope has a base from which it appends a delta to c.
HasDelta(p, c) ==
    /\ base[p] # None
    /\ base[p].epoch = c.epoch
    /\ c.tick > base[p].tick

\* The write of p is over; its checksum counts only if it was in time.
Persisted(p) ==
    /\ base' = [base EXCEPT ![p] = write[p].content]
    /\ saved' = IF write[p].late THEN saved
                ELSE [saved EXCEPT ![p] = write[p].content]
    /\ write' = [write EXCEPT ![p] = None]

\* The write of p has failed: room_lease_lost, or a Redis error.
Failed(p) ==
    /\ write' = [write EXCEPT ![p] = None]
    /\ UNCHANGED <<base, saved>>

\* The reads of a seed that p has begun are executed, before any command that p
\* sends after it has become Active.
ReadsDone(p) == seeding[p] = None

\* saveSnapshotScript.
SetSnapshot(p) ==
    /\ write[p] # None
    /\ write[p].phase = "set"
    /\ ReadsDone(p)
    /\ \/ /\ ~Fenced(p)
          /\ Failed(p)
          /\ UNCHANGED snapshot
       \/ /\ Fenced(p)
          /\ snapshot' = [content |-> write[p].content, term |-> granted[p]]
          /\ \/ /\ HasDelta(p, write[p].content)
                /\ write' = [write EXCEPT ![p].phase = "append"]
                /\ UNCHANGED <<base, saved>>
             \/ /\ ~HasDelta(p, write[p].content)
                /\ Persisted(p)
    /\ UNCHANGED <<role, epoch, running, gameVars, tick, candidateVars,
                   leaseVars, journal, faults>>

\* The delta would be too large: the snapshot is stored, the journal is not
\* extended.
SetWithoutDelta(p) ==
    /\ write[p] # None
    /\ write[p].phase = "set"
    /\ ReadsDone(p)
    /\ Fenced(p)
    /\ HasDelta(p, write[p].content)
    /\ Happens("large_delta")
    /\ snapshot' = [content |-> write[p].content, term |-> granted[p]]
    /\ Persisted(p)
    /\ UNCHANGED <<role, epoch, running, gameVars, tick, candidateVars,
                   leaseVars, journal>>

\* XADD MAXLEN: the journal with delta d, and without its oldest ones.
Appended(d) ==
    LET longer == Append(journal, d)
    IN  IF Len(longer) <= MaxJournal THEN longer ELSE Tail(longer)

\* appendFencedScript.
AppendDelta(p) ==
    /\ write[p] # None
    /\ write[p].phase = "append"
    /\ \/ /\ ~Fenced(p)
          /\ Failed(p)
          /\ UNCHANGED journal
       \/ /\ Fenced(p)
          /\ journal' = Appended([base |-> base[p], target |-> write[p].content,
                                  term |-> granted[p]])
          /\ Persisted(p)
    /\ UNCHANGED <<role, epoch, running, gameVars, tick, candidateVars,
                   leaseVars, snapshot, faults>>

\* The writer's deadline passes before Redis settles the write.
WriteTimesOut(p) ==
    /\ write[p] # None
    /\ ~write[p].late
    /\ Happens("slow_write")
    /\ write' = [write EXCEPT ![p].late = TRUE]
    /\ UNCHANGED <<role, epoch, running, gameVars, tick, saved, base,
                   candidateVars, leaseVars, storeVars>>

\* The connection fails after Redis has executed the SET: the write is reported
\* as failed although the snapshot is stored.
ReplyLost(p) ==
    /\ write[p] # None
    /\ write[p].phase = "set"
    /\ ReadsDone(p)
    /\ Fenced(p)
    /\ Happens("lost_reply")
    /\ snapshot' = [content |-> write[p].content, term |-> granted[p]]
    /\ Failed(p)
    /\ UNCHANGED <<role, epoch, running, gameVars, tick, candidateVars,
                   leaseVars, journal>>

----------------------------------------------------------------------------
(* releaseActiveForHandoff.                                                *)

\* The checksum of the last checkpoint of p, or that which it started from.
Checksum(p) == IF saved[p] # None THEN saved[p] ELSE authority[p]

\* The preconditions of a release in epoch e at checksum c.
ReleaseBegins(p, e, c) ==
    /\ role[p] = "active"
    /\ e = epoch[p]
    /\ c # None
    /\ c = Checksum(p)
    /\ role' = [role EXCEPT ![p] = "flushing"]
    /\ UNCHANGED <<epoch, running, gameVars, writerVars, candidateVars,
                   leaseVars, storeVars, faults>>

\* Mutant: the writer is not flushed.
FlushedAtOnce(p) == TRUE

\* writer.flush() has resolved.
Flushed(p) == write[p] = None

\* The writer is idle: the status to be returned is settled, the lease deleted.
ReleaseDeletes(p) ==
    /\ role[p] = "flushing"
    /\ Flushed(p)
    /\ ReadsDone(p)
    /\ authority' = [authority EXCEPT ![p] = Checksum(p)]
    /\ status' = [status EXCEPT ![p] =
                     [ready |-> TRUE, epoch |-> epoch[p], tick |-> tick[p],
                      checksum |-> Checksum(p)]]
    /\ lease' = LeaseWithout(p)
    /\ role' = [role EXCEPT ![p] = "releasing"]
    /\ UNCHANGED <<epoch, running, gameVars, writerVars, seeding, armed,
                   claimVars, term, granted, storeVars, faults>>

\* Redis has answered: the process is a Candidate, with no takeover timer.
ReleaseEnds(p) ==
    /\ role[p] = "releasing"
    /\ role' = [role EXCEPT ![p] = "candidate"]
    /\ running' = running \cup {p}
    /\ UNCHANGED <<epoch, gameVars, writerVars, candidateVars, leaseVars,
                   storeVars, faults>>

----------------------------------------------------------------------------
(* seedCandidate.                                                          *)

\* The request, and the GET of the snapshot.
SeedBegins(p, e, t, c) ==
    /\ role[p] = "candidate"
    /\ seeding[p] = None
    /\ seeding' = [seeding EXCEPT ![p] =
                      [epoch |-> e, tick |-> t, checksum |-> c,
                       stored |-> IF snapshot = None THEN None
                                  ELSE snapshot.content]]
    /\ UNCHANGED <<role, epoch, running, gameVars, writerVars, authority,
                   status, armed, claimVars, leaseVars, storeVars, faults>>

\* catchUp and applySnapshotEnvelopeDelta: how one delta d carries the seed acc
\* on towards the tick t.  A delta of a later epoch, or from another checkpoint
\* than the one reached, blocks the seed.
ReplayDelta(acc, d, t) ==
    LET at == acc.at
    IN  IF \/ acc.blocked
           \/ at.tick >= t
           \/ d.target.epoch < at.epoch
           \/ d.target.epoch = at.epoch /\ d.target.tick <= at.tick
        THEN acc
        ELSE IF d.target.epoch = at.epoch /\ d.base = at
        THEN [at |-> d.target, blocked |-> FALSE]
        ELSE [at |-> at, blocked |-> TRUE]

\* seedInternal: where the request s gets to, and whether something blocked it.
SeedResult(s) ==
    IF s.stored.epoch # s.epoch
    THEN [at |-> s.stored, blocked |-> TRUE]
    ELSE FoldLeft(LAMBDA acc, d : ReplayDelta(acc, d, s.tick),
                  [at |-> s.stored, blocked |-> FALSE], journal)

\* The seed is caught up, and is the one that was asked for.
SeedProves(s, c, blocked) ==
    /\ ~blocked
    /\ c.tick >= s.tick
    /\ s.checksum \in {None, c}

\* Mutant: the envelope is applied whoever is connected.
NobodyLooks(p) == TRUE

\* applyCandidateEnvelope refuses to replace the game of connected players.
MayApply(p) == p \notin attached

\* The seed of p ends too late: p has become Active meanwhile, or awaits the
\* lease to take over with the status that it had when it sent for it.
IsLate(p) == role[p] # "candidate" \/ takeover[p] # None

\* The seed ends, and sets opsiaReady, whatever p has become.
SeedEnds(p, ready) ==
    /\ seeding[p] # None
    /\ seeding' = [seeding EXCEPT ![p] = None]
    /\ running' = IF ready THEN running \cup {p} ELSE running \ {p}
    /\ \/ ~IsLate(p) /\ UNCHANGED faults
       \/ IsLate(p) /\ Happens("late_seed")
    /\ UNCHANGED <<role, epoch, attached, tick, write, saved, armed,
                   claimVars, leaseVars, storeVars>>

\* The room has no snapshot.
SeedWaits(p) ==
    /\ SeedEnds(p, FALSE)
    /\ seeding[p].stored = None
    /\ status' = [status EXCEPT ![p] = NoStatus]
    /\ authority' = [authority EXCEPT ![p] = None]
    /\ UNCHANGED <<game, base>>

\* candidate_epoch_mismatch, candidate_not_caught_up, a checksum mismatch or a
\* delta that does not apply.
SeedBlocks(p) ==
    /\ SeedEnds(p, FALSE)
    /\ seeding[p].stored # None
    /\ LET r == SeedResult(seeding[p])
       IN  \E c \in Checkpoint :
              /\ c = r.at
              /\ ~SeedProves(seeding[p], c, r.blocked)
              /\ status' = [status EXCEPT ![p] = StatusOf(c, FALSE)]
              /\ authority' = [authority EXCEPT ![p] = c]
    /\ UNCHANGED <<game, base>>

\* The envelope is applied: the Candidate is ready at its checksum.
SeedApplies(p) ==
    /\ SeedEnds(p, TRUE)
    /\ seeding[p].stored # None
    /\ MayApply(p)
    /\ LET r == SeedResult(seeding[p])
       IN  \E c \in Checkpoint :
              /\ c = r.at
              /\ SeedProves(seeding[p], c, r.blocked)
              /\ game' = [game EXCEPT ![p] = c.state]
              /\ base' = [base EXCEPT ![p] = c]
              /\ status' = [status EXCEPT ![p] = StatusOf(c, TRUE)]
              /\ authority' = [authority EXCEPT ![p] = c]

\* candidate_sessions_already_attached.
SeedRefused(p) ==
    /\ SeedEnds(p, FALSE)
    /\ seeding[p].stored # None
    /\ ~MayApply(p)
    /\ LET r == SeedResult(seeding[p])
       IN  \E c \in Checkpoint :
              /\ c = r.at
              /\ SeedProves(seeding[p], c, r.blocked)
              /\ status' = [status EXCEPT ![p] = StatusOf(c, FALSE)]
    /\ UNCHANGED <<game, base, authority>>

----------------------------------------------------------------------------
(* promoteCandidate, and the takeover of an abandoned lease.  Both send for *)
(* the lease and await the answer.  The step in which Redis executes the SET *)
(* is that in which its answer is handled: what the process does in between *)
(* touches only its own memory.                                            *)

\* The preconditions of a promotion from epoch e, proved by checksum c.
MayPromote(p, e, c) ==
    /\ role[p] = "candidate"
    /\ e < MaxEpoch
    /\ status[p].ready
    /\ c # None
    /\ c = status[p].checksum

\* The timer is cleared, the next epoch assumed and the lease sent for; the
\* coordinator has one promotion of p under way.
PromoteBegins(p, e, c) ==
    /\ MayPromote(p, e, c)
    /\ promotion[p] = None
    /\ armed' = armed \ {p}
    /\ epoch' = [epoch EXCEPT ![p] = e + 1]
    /\ promotion' = [promotion EXCEPT ![p] = [epoch |-> e, checksum |-> c]]
    /\ UNCHANGED <<role, running, gameVars, writerVars, authority, status,
                   seeding, takeover, leaseVars, storeVars, faults>>

\* The process has the lease, and is Active from the checkpoint c.
BecomesActive(p, c) ==
    /\ AcquireLease(p)
    /\ role' = [role EXCEPT ![p] = "active"]
    /\ authority' = [authority EXCEPT ![p] = c]
    /\ status' = [status EXCEPT ![p] = NoStatus]

\* The commands of p are executed in order: a takeover's was sent before.
PromotionIsNext(p) == promotion[p] # None /\ takeover[p] = None

\* A takeover timer that was set again while the promotion was under way stays.
Promote(p) ==
    /\ PromotionIsNext(p)
    /\ BecomesActive(p, promotion[p].checksum)
    /\ promotion' = [promotion EXCEPT ![p] = None]
    /\ running' = running \cup {p}
    /\ UNCHANGED <<epoch, gameVars, writerVars, seeding, armed, takeover,
                   storeVars, faults>>

\* room_lease_not_acquired: the process is in the epoch of its present status
\* again, and an auto Candidate watches the lease from now on.
PromoteFails(p) ==
    /\ PromotionIsNext(p)
    /\ lease # None
    /\ promotion' = [promotion EXCEPT ![p] = None]
    /\ epoch' = [epoch EXCEPT ![p] = IF status[p] = NoStatus
                                     THEN promotion[p].epoch
                                     ELSE status[p].epoch]
    /\ armed' = IF ConfiguredRole[p] = "auto" THEN armed \cup {p} ELSE armed
    /\ UNCHANGED <<role, running, gameVars, writerVars, authority, status,
                   seeding, takeover, leaseVars, storeVars, faults>>

Later(e1, e2) == IF e1 >= e2 THEN e1 ELSE e2

\* Mutant: a Candidate takes over whatever it holds.
AnyCandidate(p) == TRUE

\* The Candidate holds a game that it has restored.
ReadyToTakeOver(p) == status[p].ready /\ status[p].checksum # None

\* recoverAbandonedLease, when the timer fires: the status of p is kept, and
\* the lease sent for.
TakeoverBegins(p) ==
    /\ role[p] = "candidate"
    /\ p \in armed
    /\ promotion[p] = None
    /\ ReadyToTakeOver(p)
    /\ Later(epoch[p], status[p].epoch) < MaxEpoch
    /\ armed' = armed \ {p}
    /\ takeover' = [takeover EXCEPT ![p] = status[p]]
    /\ UNCHANGED <<role, epoch, running, gameVars, writerVars, authority,
                   status, seeding, promotion, leaseVars, storeVars, faults>>

\* The lease was abandoned.  A promotion that was sent behind finds it taken,
\* and throws on the status that p no longer has: nothing else is undone, and
\* the epoch that the promotion has assumed is the one that p goes on from.
TakesOver(p) ==
    /\ takeover[p] # None
    /\ Later(epoch[p], takeover[p].epoch) < MaxEpoch
    /\ BecomesActive(p, takeover[p].checksum)
    /\ epoch' = [epoch EXCEPT ![p] = Later(epoch[p], takeover[p].epoch) + 1]
    /\ takeover' = [takeover EXCEPT ![p] = None]
    /\ promotion' = [promotion EXCEPT ![p] = None]
    /\ UNCHANGED <<running, gameVars, writerVars, seeding, armed, storeVars,
                   faults>>

\* Mutant: the timer is not set again.
Disarmed(p) == armed \ {p}

\* scheduleCandidateTakeover: the timer is set again.
Rearmed(p) == armed \cup {p}

\* The lease is taken.
TakeoverFails(p) ==
    /\ takeover[p] # None
    /\ lease # None
    /\ takeover' = [takeover EXCEPT ![p] = None]
    /\ armed' = Rearmed(p)
    /\ UNCHANGED <<role, epoch, running, gameVars, writerVars, authority,
                   status, seeding, promotion, leaseVars, storeVars, faults>>

\* The timer fires while the Candidate is not ready or is being promoted, or
\* after it has become Active.
TakeoverWaits(p) ==
    /\ p \in armed
    /\ \/ /\ role[p] = "candidate"
          /\ promotion[p] # None \/ ~ReadyToTakeOver(p)
          /\ armed' = Rearmed(p)
       \/ /\ role[p] # "candidate"
          /\ armed' = armed \ {p}
    /\ UNCHANGED <<role, epoch, running, gameVars, writerVars, authority,
                   status, seeding, claimVars, leaseVars, storeVars, faults>>

----------------------------------------------------------------------------
(* resetOpsia and stop().                                                  *)

\* Mutant: a reset leaves the game loop running.
StillRunning(p) == running

\* opsiaReady is false: no tick and no save of p from now on.
Paused(p) == running \ {p}

\* The game is paused, the writer flushed, and the snapshot cleared.
ResetClearsSnapshot(p) ==
    /\ role[p] = "active"
    /\ p \in running
    /\ Flushed(p)
    /\ ReadsDone(p)
    /\ Fenced(p)
    /\ snapshot' = None
    /\ role' = [role EXCEPT ![p] = "resetting"]
    /\ running' = Paused(p)
    /\ attached' = attached \ {p}
    /\ UNCHANGED <<epoch, game, writerVars, candidateVars, leaseVars,
                   journal, faults>>

\* clearFencedScript of the journal.
ResetClearsJournal(p) ==
    /\ role[p] = "resetting"
    /\ Fenced(p)
    /\ journal' = <<>>
    /\ role' = [role EXCEPT ![p] = "stopping"]
    /\ UNCHANGED <<epoch, running, gameVars, writerVars, candidateVars,
                   leaseVars, snapshot, faults>>

\* gracefulExit: the final checkpoint, if the game is running, was in time.
StopBegins(p) ==
    /\ role[p] = "active"
    /\ Flushed(p)
    /\ \/ p \notin running
       \/ saved[p] # None /\ saved[p].tick = tick[p]
    /\ role' = [role EXCEPT ![p] = "stopping"]
    /\ running' = Paused(p)
    /\ UNCHANGED <<epoch, gameVars, writerVars, candidateVars, leaseVars,
                   storeVars, faults>>

StopReleases(p) ==
    /\ role[p] = "stopping"
    /\ Flushed(p)
    /\ lease' = LeaseWithout(p)
    /\ Exit(p)
    /\ UNCHANGED <<term, granted, storeVars, faults>>

----------------------------------------------------------------------------

\* handoffStatus: what the orchestrator is told of p, and asks of others.
HandoffStatus(p) ==
    IF role[p] = "candidate" THEN status[p]
    ELSE [ready |-> Serving(p), epoch |-> epoch[p], tick |-> tick[p],
          checksum |-> Checksum(p)]

\* An orchestrator has an Active released only for a Candidate that is ready.
ReleaseFor(p, q) ==
    /\ role[q] = "candidate"
    /\ status[q].ready
    /\ ReleaseBegins(p, epoch[p], Checksum(p))

\* A seed of p that an orchestrator asks for: of q's present state.
SeedFrom(p, q) ==
    LET s == HandoffStatus(q)
    IN  /\ s.ready
        /\ SeedBegins(p, s.epoch, s.tick, s.checksum)

Lifecycle(p) ==
    \/ StartAcquires(p) \/ StartJoins(p) \/ StartGivesUp(p)
    \/ LoadActive(p) \/ LoadCandidate(p)
    \/ RefreshFails(p) \/ Dies(p)
    \/ ResetClearsSnapshot(p) \/ ResetClearsJournal(p)
    \/ StopBegins(p) \/ StopReleases(p)

Gameplay(p) ==
    \/ \E i \in Input : ProcessInput(p, i)
    \/ Disconnect(p)

Saving(p) ==
    \/ SaveBegins(p) \/ SetSnapshot(p) \/ SetWithoutDelta(p)
    \/ AppendDelta(p)
    \/ WriteTimesOut(p) \/ ReplyLost(p)

Seeding(p) ==
    \/ SeedWaits(p) \/ SeedBlocks(p) \/ SeedApplies(p) \/ SeedRefused(p)

Claiming(p) ==
    \/ TakeoverBegins(p) \/ TakesOver(p) \/ TakeoverFails(p)
    \/ TakeoverWaits(p)
    \/ Promote(p) \/ PromoteFails(p)

\* The steps of an orchestrator, which uses the statuses it has been told.
Orchestration(p) ==
    \/ \E q \in Process \ {p} : ReleaseFor(p, q) \/ SeedFrom(p, q)
    \/ PromoteBegins(p, status[p].epoch, status[p].checksum)

Releasing(p) == ReleaseDeletes(p) \/ ReleaseEnds(p)

Step(p) ==
    \/ Lifecycle(p) \/ Gameplay(p) \/ Saving(p) \/ Seeding(p) \/ Claiming(p)
    \/ Orchestration(p) \/ Releasing(p)

Next == LeaseExpires \/ \E p \in Process : Step(p)

Spec == Init /\ [][Next]_vars

\* Redis answers, timers fire and a dead process's lease expires; players and
\* orchestrators need not do anything.
Fairness ==
    /\ WF_vars(LeaseExpires /\ UNCHANGED faults)
    /\ \A p \in Process :
          /\ WF_vars(StartAcquires(p) \/ StartJoins(p))
          /\ WF_vars(LoadActive(p) \/ LoadCandidate(p))
          /\ WF_vars(SetSnapshot(p) \/ AppendDelta(p))
          /\ WF_vars(Seeding(p) /\ UNCHANGED faults)
          /\ WF_vars(Releasing(p))
          /\ WF_vars(ResetClearsJournal(p) \/ StopReleases(p))
          /\ WF_vars(RefreshFails(p))
          /\ WF_vars(TakeoverBegins(p))
          /\ WF_vars(TakesOver(p) \/ TakeoverFails(p))
          /\ WF_vars(Promote(p) \/ PromoteFails(p))

FairSpec == Spec /\ Fairness

----------------------------------------------------------------------------

\* The room's keys are a store fenced by the lease: a process that has lost
\* the lease, however late it learns of it, writes nothing any more.
Store == INSTANCE FencedStore WITH
    lease <- lease, term <- term, snapshot <- snapshot, journal <- journal
StoreIsFenced == Store!Spec

\* While no process stalls, one that considers itself the room's Active holds
\* the lease, so that there is at most one of them.
AuthorityIsLeased ==
    "stall" \notin faults =>
        \A p \in Process :
            role[p] \in {"loading", "active", "flushing", "resetting",
                         "stopping"} => lease = p

\* The checksum that a released Active returns is that of the stored snapshot,
\* if it has saved since it got the lease and no write was late or lost: the
\* last seed of its successor, which asks for that checksum, can succeed.
ReleasedIsStored ==
    \A p \in Process :
        /\ role[p] = "releasing"
        /\ faults \cap {"stall", "slow_write", "lost_reply"} = {}
        /\ snapshot # None
        /\ snapshot.term = granted[p]
        => snapshot.content = status[p].checksum

\* A seed never takes away what connected players have done, whenever it ends.
ConnectedGameGrows ==
    [][\A p \in Process :
          p \in attached /\ p \in attached' => game[p] \subseteq game'[p]]_vars

\* A room that is reset is left without the discarded game: no checkpoint of it
\* is written between the clearing of the snapshot and that of the journal.
ResetDiscardsGame ==
    [][\A p \in Process :
          role[p] = "resetting" /\ role'[p] = "stopping"
              => snapshot' = None /\ journal' = <<>>]_vars

\* A room's Active is not paused, unless a seed of it ended after it had sent
\* for the lease to take over, or after it was promoted.  A seed that ends while
\* a promotion awaits the lease does not pause it.
ActiveRuns ==
    "late_seed" \notin faults =>
        \A p \in Process :
            role[p] \in {"active", "flushing", "releasing"} => p \in running

\* A Candidate that was never released, and that stays ready, does not leave an
\* abandoned lease free for ever (recoverAbandonedLease), within the bounds.
AbandonedLeaseIsTaken ==
    \A p \in Process :
        []<>~(/\ role[p] = "candidate"
              /\ ConfiguredRole[p] = "auto"
              /\ granted[p] = 0
              /\ ReadyToTakeOver(p)
              /\ lease = None
              /\ term < MaxTerm
              /\ Later(epoch[p], status[p].epoch) < MaxEpoch)

=============================================================================
