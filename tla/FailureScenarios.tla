-------------------------- MODULE FailureScenarios --------------------------
(***************************************************************************)
(* Failure scenarios of the operations console                             *)
(* (services/ops-console/src: failure-scenarios.ts, admission-load.ts; the *)
(* bot jobs of upstream-survev/server/src/opsia/botRunner.ts).             *)
(*                                                                         *)
(* The console keeps one run per room.  Starting one, recovering it and    *)
(* showing the state of the rooms, which also moves the runs on, are       *)
(* handlers that await other services; the handlers hold on to the run     *)
(* they began with and put it back, or remove what the room has by then.   *)
(* The load of an admission storm is generated by the console itself, in   *)
(* one job at a time, with a limit on its life; bots are jobs of the bot   *)
(* runner.                                                                 *)
(*                                                                         *)
(* The evidence of the runs and the rates of the load are left out.  The   *)
(* bots of a surge are counted in jobs: the first one and the ramp jobs.   *)
(***************************************************************************)
EXTENDS Naturals, FiniteSets, Sequences

CONSTANTS
    Room,
    Scenario,       \* the scenarios that are started
    Fault,          \* what may happen, each kind once: "refused", "lost",
                    \* "job", "cleanup", "call"
    None,
    MaxFaults,      \* bound on the kinds that happen in one behaviour
    MaxRequests,    \* bound on the requests to the console
    MaxSurge,       \* the jobs of a surge that the room has seats for
    MaxSamples      \* bound on the requests of a load job

Plain == {"admission-lock", "process-crash", "pod-failure"}
WithBots == {"bot-surge", "malicious-input"}
Id == 1..MaxRequests       \* of runs, and of requests

VARIABLES
    runs,           \* the runs that were made (MutableRun)
    activeRuns,     \* of each room: its run, or 0
    calls,          \* handlers that await something
    advancing,      \* advancingBotSurges
    requests,       \* how many there were so far, and ...
    unswept,        \* ... those that have still to remove the failed runs
    loads,          \* the admission jobs, in the order they were started
    activeJobId,
    botJobs,        \* the bot runner's jobs
    faults

loadVars == <<loads, activeJobId>>
runVars == <<runs, activeRuns, calls, advancing>>
vars == <<runVars, requests, unswept, loadVars, botJobs, faults>>

Status == {"starting", "active", "recovering", "failed"}
Call == [kind : {"start", "recover", "get"}, run : Id,
         step : {"call", "request", "cleanup", "job", "health"},
         job : Nat,              \* the bot job that was accepted
         jobs : SUBSET Nat,      \* the bot jobs that it knows or cleans up
         get : 0..MaxRequests,
         phase : {"ramping", "saturated", "stopped", "safety_timeout", None}]

TypeOK ==
    /\ runs \in Seq([room : Room, scenario : Scenario, status : Status,
                     job : Nat, jobs : SUBSET Nat, holding : BOOLEAN])
    /\ activeRuns \in [Room -> 0..MaxRequests]
    /\ calls \subseteq Call
    /\ advancing \subseteq Room
    /\ requests \in 0..MaxRequests /\ unswept \subseteq Id
    /\ \A j \in DOMAIN loads :
          loads[j].phase \in {"ramping", "saturated", "stopped",
                              "safety_timeout"}
    /\ activeJobId \in {0} \cup DOMAIN loads
    /\ \A j \in DOMAIN botJobs :
          botJobs[j].state \in {"running", "completed", "failed", "cancelled"}
    /\ faults \subseteq Fault

Init ==
    /\ runs = <<>>
    /\ activeRuns = [r \in Room |-> 0]
    /\ calls = {}
    /\ advancing = {}
    /\ requests = 0 /\ unswept = {}
    /\ loads = <<>> /\ activeJobId = 0
    /\ botJobs = <<>>
    /\ faults = {}

\* The console takes a request.
Requested ==
    /\ requests < MaxRequests
    /\ requests' = requests + 1

Occurs(kind) ==
    /\ kind \in Fault \ faults
    /\ Cardinality(faults) < MaxFaults
    /\ faults' = faults \cup {kind}

----------------------------------------------------------------------------
(* AdmissionLoadController                                                 *)

Ended(load) == load.phase \in {"stopped", "safety_timeout"}
Alive == {j \in DOMAIN loads : ~Ended(loads[j])}

Unless(j) == IF activeJobId = j THEN 0 ELSE activeJobId

\* start() of the same room is idempotent; of another room it is refused.
LoadRefused(r) == activeJobId \in Alive /\ loads[activeJobId].room # r

StartedLoad(r) ==
    IF activeJobId \in Alive THEN activeJobId ELSE Len(loads) + 1

StartLoad(r) ==
    /\ loads' = IF activeJobId \in Alive THEN loads
                ELSE Append(loads, [room |-> r, phase |-> "ramping",
                                   sent |-> 0, samples |-> 0])
    /\ activeJobId' = StartedLoad(r)

StopLoad(j) ==
    /\ loads' = [loads EXCEPT ![j].phase = "stopped"]
    /\ activeJobId' = Unless(j)

\* run(): evaluateRamp() finds the load that breaks admission, or the limit.
Saturate(j) ==
    /\ loads[j].phase = "ramping"
    /\ loads' = [loads EXCEPT ![j].phase = "saturated"]
    /\ UNCHANGED <<runVars, requests, unswept, activeJobId, botJobs, faults>>

\* run() finds that the job's time is over.
Expire(j) ==
    /\ j \in Alive
    /\ loads' = [loads EXCEPT ![j].phase = "safety_timeout"]
    /\ activeJobId' = Unless(j)
    /\ UNCHANGED <<runVars, requests, unswept, botJobs, faults>>

Issue(j) ==
    /\ j \in Alive
    /\ loads[j].sent < MaxSamples
    /\ loads' = [loads EXCEPT ![j].sent = @ + 1]
    /\ UNCHANGED <<runVars, requests, unswept, activeJobId, botJobs, faults>>

\* issue() goes on when the request is answered, or aborted; what is answered
\* after the job has ended does not count.
Counted(load) == IF Ended(load) THEN 0 ELSE 1

IssueAnswered(j) ==
    /\ loads[j].samples < loads[j].sent
    /\ loads' = [loads EXCEPT ![j].samples = @ + Counted(loads[j]),
                              ![j].sent = @ - 1 + Counted(loads[j])]
    /\ UNCHANGED <<runVars, requests, unswept, activeJobId, botJobs, faults>>

----------------------------------------------------------------------------
(* The bot runner.                                                         *)

RunningJobs(r) == {j \in DOMAIN botJobs : /\ botJobs[j].room = r
                                          /\ botJobs[j].state = "running"}

\* All bots of a job are connected, or one of them could not connect.
JobEnds(j) ==
    /\ botJobs[j].state = "running"
    /\ \/ /\ botJobs' = [botJobs EXCEPT ![j].state = "completed"]
          /\ UNCHANGED faults
       \/ /\ botJobs' = [botJobs EXCEPT ![j].state = "failed"]
          /\ Occurs("job")
    /\ UNCHANGED <<runVars, requests, unswept, loadVars>>

\* Its bots are stopped, also those that are only about to connect.
Cleaned(J) ==
    [j \in DOMAIN botJobs |->
        IF j \notin J THEN botJobs[j]
        ELSE [botJobs[j] EXCEPT !.bots = FALSE,
                 !.state = IF @ = "running" THEN "cancelled" ELSE @]]

----------------------------------------------------------------------------
(* FailureScenarioController                                               *)

RoomOf(c) == runs[c.run].room
Becomes(c, d) == calls' = (calls \ {c}) \cup {d}
Returns(c) == calls' = calls \ {c}

NewCall(kind, i, step) ==
    [kind |-> kind, run |-> i, step |-> step, job |-> 0, jobs |-> {},
     get |-> 0, phase |-> None]

\* start() adds a run, if the room has none, or one that has failed.  A storm
\* in another room, or a load that is left over there, refuses a storm.
MayRun(r) ==
    activeRuns[r] \notin {i \in DOMAIN runs : runs[i].status # "failed"}

HasRun(r, S) == activeRuns[r] \in {i \in DOMAIN runs : runs[i].scenario \in S}

StormElsewhere(r) == \E q \in Room \ {r} : HasRun(q, {"admission-storm"})

FirstStep(s) == IF s \in WithBots THEN "request" ELSE "call"

NewRun(r, s) == [room |-> r, scenario |-> s, status |-> "starting", job |-> 0,
                 jobs |-> {}, holding |-> FALSE]

Start(r, s) ==
    /\ s # "admission-storm"
    /\ Requested
    /\ MayRun(r)
    /\ LET i == Len(runs) + 1 IN
          /\ runs' = Append(runs, NewRun(r, s))
          /\ activeRuns' = [activeRuns EXCEPT ![r] = i]
          /\ calls' = calls \cup {NewCall("start", i, FirstStep(s))}
    /\ UNCHANGED <<advancing, unswept, loadVars, botJobs, faults>>

StartStorm(r) ==
    /\ "admission-storm" \in Scenario
    /\ Requested
    /\ MayRun(r)
    /\ ~StormElsewhere(r)
    /\ ~LoadRefused(r)
    /\ runs' = Append(runs, [NewRun(r, "admission-storm") EXCEPT
                               !.status = "active", !.job = StartedLoad(r)])
    /\ activeRuns' = [activeRuns EXCEPT ![r] = Len(runs) + 1]
    /\ StartLoad(r)
    /\ UNCHANGED <<calls, advancing, unswept, botJobs, faults>>

\* A storm that is refused leaves no run, nor the failed one it found.
StormRefused(r) ==
    /\ "admission-storm" \in Scenario
    /\ Requested
    /\ MayRun(r)
    /\ StormElsewhere(r) \/ LoadRefused(r)
    /\ activeRuns[r] # 0
    /\ activeRuns' = [activeRuns EXCEPT ![r] = 0]
    /\ UNCHANGED <<runs, calls, advancing, unswept, loadVars, botJobs,
                   faults>>

\* start() has its answer: started() puts the run back.
Started(i, run) ==
    /\ runs' = [runs EXCEPT ![i] = run]
    /\ activeRuns' = [activeRuns EXCEPT ![run.room] = i]

\* start() throws: the room has no run.  completeRun() does the same.
Cleared(r) == [activeRuns EXCEPT ![r] = 0]

\* The orchestrator or the game process answers a scenario without bots.
CallAnswered(c) ==
    /\ c.step = "call"
    /\ IF c.kind = "start"
       THEN Started(c.run, [runs[c.run] EXCEPT !.status =
                IF runs[c.run].scenario = "admission-lock" THEN "active"
                ELSE "recovering"])
       ELSE /\ activeRuns' = Cleared(RoomOf(c))
            /\ UNCHANGED runs
    /\ Returns(c)
    /\ UNCHANGED <<advancing, requests, unswept, loadVars, botJobs, faults>>

CallFails(c) ==
    /\ c.step = "call"
    /\ Occurs("call")
    /\ activeRuns' = IF c.kind = "start" THEN Cleared(RoomOf(c)) ELSE activeRuns
    /\ Returns(c)
    /\ UNCHANGED <<runs, advancing, requests, unswept, loadVars, botJobs>>

\* startBotJob(): the runner refuses a second running job of a room, but it
\* awaits the room's summary between the check and the job, so that two
\* requests that are on their way together are both accepted.
JobAccepted(c) ==
    /\ c.step = "request"
    /\ c.job = 0
    /\ \A j \in RunningJobs(RoomOf(c)) : \E d \in calls : d.job = j
    /\ botJobs' = Append(botJobs, [room |-> RoomOf(c), run |-> c.run,
                                  state |-> "running", bots |-> TRUE,
                                  answered |-> FALSE])
    /\ Becomes(c, [c EXCEPT !.job = Len(botJobs) + 1])
    /\ UNCHANGED <<runs, activeRuns, advancing, requests, unswept, loadVars,
                   faults>>

\* advanceBotSurge().finally puts its run back if the room has one.
Advanced(r, i) ==
    /\ activeRuns' = IF activeRuns[r] = 0 THEN activeRuns
                     ELSE [activeRuns EXCEPT ![r] = i]
    /\ advancing' = advancing \ {r}

JobAnswered(c) ==
    /\ c.step = "request"
    /\ c.job # 0
    /\ LET run == [runs[c.run] EXCEPT !.status = "starting", !.job = c.job,
                                      !.jobs = c.jobs \cup {c.job}]
       IN  IF c.kind = "start"
           THEN Started(c.run, run) /\ UNCHANGED advancing
           ELSE /\ runs' = [runs EXCEPT ![c.run] = run]
                /\ Advanced(RoomOf(c), c.run)
    /\ botJobs' = [botJobs EXCEPT ![c.job].answered = TRUE]
    /\ Returns(c)
    /\ UNCHANGED <<requests, unswept, loadVars, faults>>

\* The job is refused, or its answer is lost.
JobFails(c) ==
    /\ c.step = "request"
    /\ IF c.job # 0 THEN Occurs("lost")
       ELSE \/ RunningJobs(RoomOf(c)) # {} /\ UNCHANGED faults
            \/ Occurs("refused")
    /\ IF c.kind = "start"
       THEN /\ activeRuns' = Cleared(RoomOf(c))
            /\ UNCHANGED <<runs, advancing>>
       ELSE /\ runs' = [runs EXCEPT ![c.run].status = "failed"]
            /\ Advanced(RoomOf(c), c.run)
    /\ Returns(c)
    /\ UNCHANGED <<requests, unswept, loadVars, botJobs>>

----------------------------------------------------------------------------
(* recover() and stopAdmissionLoad()                                       *)

\* What cleanupBotJobs() will clean up.
Cleanup(c, i) == [c EXCEPT !.step = "cleanup", !.jobs = runs[i].jobs]

Recover(r) ==
    /\ Requested
    /\ HasRun(r, Plain \cup WithBots)
    /\ LET i == activeRuns[r]
           c == NewCall("recover", i, "call")
       IN  /\ c \notin calls /\ Cleanup(c, i) \notin calls
           /\ runs' = [runs EXCEPT ![i].status = "recovering"]
           /\ IF runs[i].scenario \in WithBots /\ runs[i].jobs = {}
              THEN activeRuns' = Cleared(r) /\ UNCHANGED calls
              ELSE /\ calls' = calls \cup
                         {IF runs[i].scenario \in Plain THEN c
                          ELSE Cleanup(c, i)}
                   /\ UNCHANGED activeRuns
    /\ UNCHANGED <<advancing, unswept, loadVars, botJobs, faults>>

StopAdmissionLoad(r) ==
    /\ Requested
    /\ HasRun(r, {"admission-storm"})
    /\ LET i == activeRuns[r] IN
          /\ runs' = [runs EXCEPT ![i].status = "recovering"]
          /\ StopLoad(runs[i].job)
    /\ activeRuns' = Cleared(r)
    /\ UNCHANGED <<calls, advancing, unswept, botJobs, faults>>

\* The job that the run names last is cleaned up first, then the others.
MayClean(c, J) ==
    /\ J \subseteq c.jobs
    /\ runs[c.run].job \in c.jobs => J = {runs[c.run].job}

JobCleaned(c) ==
    /\ c.step = "cleanup"
    /\ \E j \in c.jobs :
          /\ MayClean(c, {j})
          /\ botJobs' = Cleaned({j})
          /\ Becomes(c, [c EXCEPT !.jobs = @ \ {j}])
    /\ UNCHANGED <<runs, activeRuns, advancing, requests, unswept, loadVars,
                   faults>>

CleanupEnds(c) ==
    /\ c.step = "cleanup"
    /\ c.jobs = {}
    /\ activeRuns' = Cleared(RoomOf(c))
    /\ advancing' = IF c.kind = "get" THEN advancing \ {RoomOf(c)}
                    ELSE advancing
    /\ Returns(c)
    /\ UNCHANGED <<runs, requests, unswept, loadVars, botJobs, faults>>

CleanupFails(c) ==
    /\ c.step = "cleanup"
    /\ c.jobs # {}
    /\ Occurs("cleanup")
    /\ \E J \in SUBSET c.jobs : MayClean(c, J) /\ botJobs' = Cleaned(J)
    /\ IF c.kind = "get"
       THEN /\ runs' = [runs EXCEPT ![c.run].status = "recovering"]
            /\ Advanced(RoomOf(c), c.run)
       ELSE UNCHANGED <<runs, activeRuns, advancing>>
    /\ Returns(c)
    /\ UNCHANGED <<requests, unswept, loadVars>>

----------------------------------------------------------------------------
(* getState()                                                              *)

\* Mutant: advancingBotSurges is not looked at.
AdvancesAgain(r) == r \in Room

\* A surge that is being advanced is left alone.
MayAdvance(r) == r \notin advancing

Surging == {r \in Room : HasRun(r, {"bot-surge"}) /\ MayAdvance(r)}
Polled(i) == runs[i].jobs # {}

GetState ==
    /\ Requested
    /\ unswept' = unswept \cup {requests'}
    /\ LET Get(r, step) == [NewCall("get", activeRuns[r], step) EXCEPT
                               !.get = requests + 1]
           bots == {r \in Room : HasRun(r, {"malicious-input"})} \cup Surging
           \* a surge without a job yet: there is nothing to ramp up
           waiting == {r \in Surging : ~Polled(activeRuns[r])}
       IN  /\ calls' = calls
                \cup {Get(r, "job") : r \in {b \in bots : Polled(activeRuns[b])}}
                \cup {[Get(r, "health") EXCEPT
                          !.phase = loads[runs[activeRuns[r]].job].phase] :
                      r \in {q \in Room : HasRun(q, {"admission-storm"})}}
           /\ runs' = [i \in DOMAIN runs |->
                          IF \E r \in waiting : activeRuns[r] = i
                          THEN [runs[i] EXCEPT !.holding = TRUE,
                                               !.status = "active"]
                          ELSE runs[i]]
           /\ advancing' = advancing \cup (Surging \ waiting)
    /\ UNCHANGED <<activeRuns, loadVars, botJobs, faults>>

\* syncAdmissionRun(), after the health check: the run of a load whose time was
\* over before the check is removed.
HealthAnswered(c) ==
    /\ c.step = "health"
    /\ runs' = [runs EXCEPT ![c.run].status = "active"]
    /\ activeRuns' = IF c.phase = "safety_timeout" THEN Cleared(RoomOf(c))
                     ELSE activeRuns
    /\ Returns(c)
    /\ UNCHANGED <<advancing, requests, unswept, loadVars, botJobs, faults>>

\* The job cannot be read: the run stays as it is.
JobUnknown(c) ==
    /\ c.step = "job"
    /\ IF runs[c.run].scenario = "bot-surge"
       THEN Advanced(RoomOf(c), c.run)
       ELSE UNCHANGED <<activeRuns, advancing>>
    /\ Returns(c)
    /\ UNCHANGED <<runs, requests, unswept, loadVars, botJobs, faults>>

StateOf(c) == botJobs[runs[c.run].job].state
Seen(state) == CASE state = "failed" -> "failed"
                 [] state = "running" -> "starting"
                 [] OTHER -> "active"

MaliciousSeen(c) ==
    /\ c.step = "job"
    /\ runs[c.run].scenario = "malicious-input"
    /\ runs' = [runs EXCEPT ![c.run].status = Seen(StateOf(c))]
    /\ activeRuns' = [activeRuns EXCEPT ![RoomOf(c)] = c.run]
    /\ Returns(c)
    /\ UNCHANGED <<advancing, requests, unswept, loadVars, botJobs, faults>>

\* A surge is ramped up, held when the target or the limit is reached, and
\* cleaned up when it has been held.
SurgeSeen(c) ==
    /\ c.step = "job"
    /\ runs[c.run].scenario = "bot-surge"
    /\ runs' = [runs EXCEPT ![c.run].status = Seen(StateOf(c))]
    /\ Advanced(RoomOf(c), c.run)
    /\ Returns(c)
    /\ UNCHANGED <<requests, unswept, loadVars, botJobs, faults>>

MayMoveOn(c) ==
    /\ c.step = "job"
    /\ runs[c.run].scenario = "bot-surge"
    /\ Seen(StateOf(c)) = "active"

SurgeHolds(c) ==
    /\ MayMoveOn(c)
    /\ ~runs[c.run].holding
    /\ runs' = [runs EXCEPT ![c.run].status = "active",
                            ![c.run].holding = TRUE]
    /\ Advanced(RoomOf(c), c.run)
    /\ Returns(c)
    /\ UNCHANGED <<requests, unswept, loadVars, botJobs, faults>>

SurgeRamps(c) ==
    /\ MayMoveOn(c)
    /\ ~runs[c.run].holding
    /\ Cardinality(runs[c.run].jobs) < MaxSurge
    /\ runs' = [runs EXCEPT ![c.run].status = "active"]
    /\ Becomes(c, [c EXCEPT !.step = "request", !.jobs = runs[c.run].jobs])
    /\ UNCHANGED <<activeRuns, advancing, requests, unswept, loadVars, botJobs,
                   faults>>

SurgeIsOver(c) ==
    /\ MayMoveOn(c)
    /\ runs[c.run].holding
    /\ runs' = [runs EXCEPT ![c.run].status = "active"]
    /\ Becomes(c, Cleanup(c, c.run))
    /\ UNCHANGED <<activeRuns, advancing, requests, unswept, loadVars, botJobs,
                   faults>>

\* All rooms have been looked at: the failed runs are removed.
Sweep(g) ==
    /\ g \in unswept
    /\ \A c \in calls : c.get # g
    /\ unswept' = unswept \ {g}
    /\ activeRuns' = [r \in Room |->
                         IF MayRun(r) THEN 0 ELSE activeRuns[r]]
    /\ UNCHANGED <<runs, calls, advancing, requests, loadVars, botJobs, faults>>

----------------------------------------------------------------------------

Answers(c) ==
    \/ CallAnswered(c) \/ CallFails(c)
    \/ JobAccepted(c) \/ JobAnswered(c) \/ JobFails(c)
    \/ JobCleaned(c) \/ CleanupEnds(c) \/ CleanupFails(c)
    \/ HealthAnswered(c) \/ JobUnknown(c) \/ MaliciousSeen(c)
    \/ SurgeSeen(c) \/ SurgeHolds(c) \/ SurgeRamps(c) \/ SurgeIsOver(c)

Next ==
    \/ \E r \in Room :
          \/ \E s \in Scenario : Start(r, s)
          \/ StartStorm(r) \/ StormRefused(r)
          \/ Recover(r) \/ StopAdmissionLoad(r)
    \/ GetState
    \/ \E c \in calls : Answers(c)
    \/ \E g \in unswept : Sweep(g)
    \/ \E j \in DOMAIN loads :
          Saturate(j) \/ Expire(j) \/ Issue(j) \/ IssueAnswered(j)
    \/ \E j \in DOMAIN botJobs : JobEnds(j)

Spec == Init /\ [][Next]_vars

----------------------------------------------------------------------------

\* There is one storm: one load job that is not over, which activeJobId names,
\* and one room with a storm, which is the room of its load.
OneStorm ==
    /\ Alive \subseteq {activeJobId}
    /\ \A r, q \in Room :
          HasRun(r, {"admission-storm"}) /\ HasRun(q, {"admission-storm"})
              => r = q
    /\ \A r \in Room :
          HasRun(r, {"admission-storm"})
              => loads[runs[activeRuns[r]].job].room = r

\* The run of a room lists every bot job of it whose start was answered, so that
\* a recovery that begins now cleans them all up: the handlers that move a surge
\* on together never overwrite a job with another.  It does not say that a
\* recovery leaves no bots: a job that is answered to a run while that run is being
\* recovered, or after that, is cleaned up by nobody.
RunListsItsBots ==
    \A r \in Room : \A j \in DOMAIN botJobs :
        botJobs[j].run = activeRuns[r] /\ botJobs[j].answered
            => j \in runs[activeRuns[r]].jobs

\* What is answered after a load has been stopped does not change what was
\* observed of it.
StoppedEvidenceIsKept ==
    [][\A j \in DOMAIN loads :
          Ended(loads[j]) => loads'[j].samples = loads[j].samples]_vars

=============================================================================
