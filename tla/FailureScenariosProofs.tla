----------------------- MODULE FailureScenariosProofs -----------------------
(***************************************************************************)
(* Proofs about FailureScenarios: that there is one storm, that the run of *)
(* a bot job whose start was answered knows it, and that the evidence of a *)
(* stopped load is kept, for any rooms, scenarios and failures, and any    *)
(* bounds.                                                                 *)
(***************************************************************************)
EXTENDS FailureScenarios, TLAPS

(***************************************************************************)
(* The invariant.  It has three parts: the types, what is so of the storms *)
(* and their loads, and what is so of the calls that ask for bot jobs.     *)
(***************************************************************************)

Run == [room : Room, scenario : Scenario, status : Status, job : Nat,
        jobs : SUBSET Nat, holding : BOOLEAN]
Load == [room : Room,
         phase : {"ramping", "saturated", "stopped", "safety_timeout"},
         sent : Nat, samples : Nat]
BotJob == [room : Room, run : Nat,
           state : {"running", "completed", "failed", "cancelled"},
           bots : BOOLEAN, answered : BOOLEAN]

\* Each run was made by a request of its own, and a call is one of a run.
Typed ==
    /\ MaxRequests \in Nat
    /\ runs \in Seq(Run)
    /\ requests \in 0..MaxRequests /\ Len(runs) <= requests
    /\ activeRuns \in [Room -> 0..Len(runs)]
    /\ calls \subseteq Call
    /\ \A c \in calls : c.run \in 1..Len(runs)
    /\ advancing \subseteq Room /\ unswept \subseteq Id
    /\ loads \in Seq(Load) /\ activeJobId \in 0..Len(loads)
    /\ botJobs \in Seq(BotJob)
    /\ faults \subseteq Fault

\* A room's run is one of that room.
RunsOfTheirRooms ==
    \A r \in Room : activeRuns[r] # 0 => runs[activeRuns[r]].room = r

\* Each storm, also one that is over, names a load of its own room.
IsStorm(i) == runs[i].scenario = "admission-storm"
StormsHaveLoads ==
    \A i \in DOMAIN runs : IsStorm(i) =>
        /\ runs[i].job \in DOMAIN loads
        /\ loads[runs[i].job].room = runs[i].room

\* No handler that puts a run back has one of a storm in its hands.
OnlyHealthOfStorms ==
    \A c \in calls : IsStorm(c.run) <=> c.step = "health"

OneLoad == \A j \in DOMAIN loads : Ended(loads[j]) \/ j = activeJobId
OneStormRoom ==
    \A r, q \in Room :
        activeRuns[r] # 0 /\ activeRuns[q] # 0
            /\ IsStorm(activeRuns[r]) /\ IsStorm(activeRuns[q]) => r = q

StormInv == RunsOfTheirRooms /\ StormsHaveLoads /\ OnlyHealthOfStorms
            /\ OneLoad /\ OneStormRoom

\* A surge is advanced by one handler at a time, which holds the room in
\* advancingBotSurges, and only after it has a job.
Advances(c) == c.kind = "get" /\ runs[c.run].scenario = "bot-surge"
AdvancedAlone ==
    /\ \A c \in calls : Advances(c) =>
          RoomOf(c) \in advancing /\ runs[c.run].jobs # {}
    /\ \A c, d \in calls :
          Advances(c) /\ Advances(d) /\ RoomOf(c) = RoomOf(d) => c = d

\* A run that is being started has one handler that does so, and no job yet.
StartedOnce ==
    /\ \A c \in calls : c.kind = "start" => runs[c.run].jobs = {}
    /\ \A c, d \in calls :
          c.kind = "start" /\ d.kind = "start" /\ c.run = d.run => c = d

\* Hence what a handler that waits for a new job knows of the others is still
\* so, and when it puts its run back, none of them is lost.
CallSteps ==
    \A c \in calls :
        /\ c.step = "job" => c.kind = "get"
        /\ c.step \in {"request", "cleanup"} /\ c.kind = "get" => Advances(c)
        /\ c.step = "request" => c.kind # "recover" /\ c.jobs = runs[c.run].jobs
        /\ c.job # 0 => /\ c.step = "request"
                        /\ c.job \in DOMAIN botJobs
                        /\ botJobs[c.job].run = c.run
JobsKept ==
    \A j \in DOMAIN botJobs :
        /\ botJobs[j].run \in DOMAIN runs
        /\ botJobs[j].answered => j \in runs[botJobs[j].run].jobs

BotInv == AdvancedAlone /\ StartedOnce /\ CallSteps /\ JobsKept

IInv == Typed /\ StormInv /\ BotInv

-----------------------------------------------------------------------------
\* An element of a sequence is replaced.
LEMMA Replaced ==
    ASSUME NEW S, NEW s \in Seq(S), NEW i \in DOMAIN s, NEW e \in S
    PROVE  /\ [s EXCEPT ![i] = e] \in Seq(S)
           /\ Len([s EXCEPT ![i] = e]) = Len(s)
           /\ \A j \in DOMAIN s :
                 [s EXCEPT ![i] = e][j] = IF j = i THEN e ELSE s[j]
  OBVIOUS

\* A function on the positions of a sequence is a sequence as long.
LEMMA Mapped ==
    ASSUME NEW S, NEW T, NEW s \in Seq(S), NEW t \in [DOMAIN s -> T]
    PROVE  t \in Seq(T) /\ Len(t) = Len(s)
<1>1. DOMAIN s = 1..Len(s) /\ Len(s) \in Nat
  OBVIOUS
<1>2. t \in Seq(T)
  BY <1>1
<1>3. DOMAIN t = 1..Len(t) /\ Len(t) \in Nat /\ DOMAIN t = 1..Len(s)
  BY <1>1, <1>2
<1> QED BY <1>1, <1>2, <1>3

LEMMA RunFields ==
    ASSUME Typed
    PROVE  /\ DOMAIN runs = 1..Len(runs) /\ Len(runs) \in Nat
           /\ \A i \in 1..Len(runs) :
                 /\ runs[i] \in Run
                 /\ runs[i].room \in Room /\ runs[i].scenario \in Scenario
                 /\ runs[i].job \in Nat /\ runs[i].jobs \subseteq Nat
           /\ \A c \in calls : c \in Call /\ c.run \in 1..Len(runs)
                               /\ RoomOf(c) \in Room
<1>1. DOMAIN runs = 1..Len(runs) /\ Len(runs) \in Nat
  BY DEF Typed
<1>2. \A i \in 1..Len(runs) : runs[i] \in Run
  BY DEF Typed
<1>3. \A c \in calls : c \in Call /\ c.run \in 1..Len(runs)
  BY DEF Typed
<1>4. \A i \in 1..Len(runs) :
          /\ runs[i].room \in Room /\ runs[i].scenario \in Scenario
          /\ runs[i].job \in Nat /\ runs[i].jobs \subseteq Nat
  BY <1>2 DEF Run
<1> QED BY <1>1, <1>2, <1>3, <1>4 DEF RoomOf

LEMMA LoadFields ==
    ASSUME Typed
    PROVE  /\ DOMAIN loads = 1..Len(loads) /\ Len(loads) \in Nat
           /\ \A j \in 1..Len(loads) :
                 /\ loads[j] \in Load /\ loads[j].room \in Room
                 /\ loads[j].sent \in Nat /\ loads[j].samples \in Nat
<1>1. DOMAIN loads = 1..Len(loads) /\ Len(loads) \in Nat
  BY DEF Typed
<1>2. \A j \in 1..Len(loads) : loads[j] \in Load
  BY DEF Typed
<1> QED BY <1>1, <1>2 DEF Load

LEMMA BotJobFields ==
    ASSUME Typed
    PROVE  /\ DOMAIN botJobs = 1..Len(botJobs) /\ Len(botJobs) \in Nat
           /\ \A j \in 1..Len(botJobs) :
                 botJobs[j] \in BotJob /\ botJobs[j].run \in Nat
<1>1. DOMAIN botJobs = 1..Len(botJobs) /\ Len(botJobs) \in Nat
  BY DEF Typed
<1>2. \A j \in 1..Len(botJobs) : botJobs[j] \in BotJob
  BY DEF Typed
<1> QED BY <1>1, <1>2 DEF BotJob

-----------------------------------------------------------------------------
(* What a handler that goes on leaves as it is.                            *)

\* The runs keep their rooms, their scenarios and, of a storm, the load.
RunsStay ==
    /\ runs' \in Seq(Run) /\ Len(runs') = Len(runs)
    /\ \A i \in 1..Len(runs) :
          /\ runs'[i].room = runs[i].room
          /\ runs'[i].scenario = runs[i].scenario
          /\ IsStorm(i) => runs'[i].job = runs[i].job

\* A room is left with its run or without one, or with the run of the call.
ActiveStays(c) ==
    /\ activeRuns' \in [Room -> 0..Len(runs)]
    /\ \A r \in Room : \/ activeRuns'[r] \in {activeRuns[r], 0}
                       \/ r = RoomOf(c) /\ activeRuns'[r] = c.run
                          /\ c.step # "health"

\* The call has returned, or awaits the next answer.
GoesOn(c) ==
    \E S \in SUBSET Call :
        /\ calls' = (calls \ {c}) \cup S
        /\ \A d \in S : /\ d.kind = c.kind /\ d.run = c.run
                        /\ d.step = "health" <=> c.step = "health"

Goes(c) ==
    /\ RunsStay /\ ActiveStays(c) /\ GoesOn(c)
    /\ advancing' \subseteq advancing
    /\ botJobs' \in Seq(BotJob) /\ faults' \subseteq Fault
    /\ UNCHANGED <<requests, unswept, loadVars>>

LEMMA GoesKeepsTyped ==
    ASSUME Typed, NEW c \in calls, Goes(c) PROVE Typed'
<1>1. /\ runs' \in Seq(Run) /\ Len(runs') = Len(runs)
      /\ activeRuns' \in [Room -> 0..Len(runs)]
      /\ advancing' \subseteq advancing
      /\ botJobs' \in Seq(BotJob) /\ faults' \subseteq Fault
      /\ UNCHANGED <<requests, unswept, loads, activeJobId>>
  BY DEF Goes, RunsStay, ActiveStays, loadVars
<1>2. calls' \subseteq Call /\ \A d \in calls' : d.run \in 1..Len(runs')
  BY <1>1 DEF Goes, GoesOn, Typed
<1> QED BY <1>1, <1>2 DEF Typed

LEMMA GoesKeepsStorms ==
    ASSUME Typed, StormInv, NEW c \in calls, Goes(c) PROVE StormInv'
<1> USE DEF IsStorm
<1>1. DOMAIN runs' = DOMAIN runs /\ DOMAIN runs = 1..Len(runs)
  BY RunFields DEF Goes, RunsStay
<1>2. \A i \in 1..Len(runs) :
          /\ runs'[i].room = runs[i].room
          /\ runs'[i].scenario = runs[i].scenario
          /\ IsStorm(i) => runs'[i].job = runs[i].job
  BY DEF Goes, RunsStay
<1>3. UNCHANGED <<loads, activeJobId>>
  BY DEF Goes, loadVars
<1>4. \A r \in Room : /\ activeRuns[r] \in 0..Len(runs)
                      /\ \/ activeRuns'[r] \in {activeRuns[r], 0}
                         \/ r = RoomOf(c) /\ activeRuns'[r] = c.run
                            /\ c.step # "health"
  BY DEF Goes, ActiveStays, Typed
<1>5. c.run \in 1..Len(runs) /\ (IsStorm(c.run) <=> c.step = "health")
  BY DEF Typed, StormInv, OnlyHealthOfStorms
<1>6. RunsOfTheirRooms'
  BY <1>2, <1>4, <1>5 DEF StormInv, RunsOfTheirRooms, RoomOf
<1>7. StormsHaveLoads'
  BY <1>1, <1>2, <1>3 DEF StormInv, StormsHaveLoads
<1>8. OnlyHealthOfStorms'
  <2>1. \A d \in calls : d.run \in 1..Len(runs)
    BY DEF Typed
  <2> QED BY <1>2, <1>5, <2>1 DEF StormInv, OnlyHealthOfStorms, Goes, GoesOn
<1>9. OneLoad'
  BY <1>3 DEF StormInv, OneLoad, Ended
<1>10. OneStormRoom'
  BY <1>2, <1>4, <1>5 DEF StormInv, OneStormRoom
<1> QED BY <1>6, <1>7, <1>8, <1>9, <1>10 DEF StormInv

-----------------------------------------------------------------------------
(* The handlers' steps, as far as a storm and the types go.                *)

JobsStay == \A i \in 1..Len(runs) : runs'[i].jobs = runs[i].jobs

\* The runs that there are stay, except for how far they are.
OldRunsStay ==
    /\ runs' \in Seq(Run)
    /\ Len(runs') = Len(runs) \/ Len(runs') = Len(runs) + 1
    /\ \A i \in 1..Len(runs) :
          /\ runs'[i].room = runs[i].room
          /\ runs'[i].scenario = runs[i].scenario
          /\ runs'[i].job = runs[i].job /\ runs'[i].jobs = runs[i].jobs

LEMMA RunIsReplaced ==
    ASSUME Typed, NEW i \in 1..Len(runs), NEW run \in Run,
           run.room = runs[i].room, run.scenario = runs[i].scenario,
           IsStorm(i) => run.job = runs[i].job,
           runs' = [runs EXCEPT ![i] = run]
    PROVE  /\ RunsStay /\ runs'[i] = run
           /\ \A k \in 1..Len(runs) : k # i => runs'[k] = runs[k]
<1>1. runs \in Seq(Run) /\ DOMAIN runs = 1..Len(runs)
  BY RunFields DEF Typed
<1>2. /\ runs' \in Seq(Run) /\ Len(runs') = Len(runs)
      /\ \A k \in DOMAIN runs : runs'[k] = IF k = i THEN run ELSE runs[k]
  BY <1>1, Replaced
<1> QED BY <1>1, <1>2 DEF RunsStay

LEMMA StatusIsSet ==
    ASSUME Typed, NEW i \in 1..Len(runs), NEW status \in Status,
           NEW holding \in BOOLEAN,
           \/ runs' = [runs EXCEPT ![i].status = status]
           \/ runs' = [runs EXCEPT ![i].status = status,
                                   ![i].holding = holding]
           \/ runs' = [runs EXCEPT ![i] =
                          [runs[i] EXCEPT !.status = status]]
    PROVE  RunsStay /\ JobsStay /\ OldRunsStay
<1> DEFINE one == [runs[i] EXCEPT !.status = status]
           two == [runs[i] EXCEPT !.status = status, !.holding = holding]
<1>1. runs[i] \in Run /\ DOMAIN runs = 1..Len(runs) /\ runs \in Seq(Run)
  BY RunFields DEF Typed
<1>2. /\ one \in Run /\ two \in Run
      /\ one.room = runs[i].room /\ two.room = runs[i].room
      /\ one.scenario = runs[i].scenario /\ two.scenario = runs[i].scenario
      /\ one.job = runs[i].job /\ two.job = runs[i].job
      /\ one.jobs = runs[i].jobs /\ two.jobs = runs[i].jobs
  BY <1>1 DEF Run
<1>3. \/ runs' = [runs EXCEPT ![i] = one]
      \/ runs' = [runs EXCEPT ![i] = two]
  BY <1>1
<1> HIDE DEF one, two
<1>4. CASE runs' = [runs EXCEPT ![i] = one]
  <2>1. /\ RunsStay /\ runs'[i] = one
        /\ \A k \in 1..Len(runs) : k # i => runs'[k] = runs[k]
    BY <1>2, <1>4, RunIsReplaced
  <2> QED BY <1>2, <2>1 DEF JobsStay, RunsStay, OldRunsStay
<1>5. CASE runs' = [runs EXCEPT ![i] = two]
  <2>1. /\ RunsStay /\ runs'[i] = two
        /\ \A k \in 1..Len(runs) : k # i => runs'[k] = runs[k]
    BY <1>2, <1>5, RunIsReplaced
  <2> QED BY <1>2, <2>1 DEF JobsStay, RunsStay, OldRunsStay
<1> QED BY <1>3, <1>4, <1>5

LEMMA RunsUnchanged ==
    ASSUME Typed, UNCHANGED runs PROVE RunsStay /\ JobsStay /\ OldRunsStay
  BY DEF Typed, RunsStay, JobsStay, OldRunsStay

LEMMA ActiveIsSet ==
    ASSUME Typed, NEW c \in calls,
           \/ UNCHANGED activeRuns
           \/ activeRuns' = Cleared(RoomOf(c))
           \/ /\ c.step # "health"
              /\ \/ activeRuns' = [activeRuns EXCEPT ![RoomOf(c)] = c.run]
                 \/ Advanced(RoomOf(c), c.run)
    PROVE  ActiveStays(c)
<1>1. /\ activeRuns \in [Room -> 0..Len(runs)]
      /\ RoomOf(c) \in Room /\ c.run \in 1..Len(runs) /\ Len(runs) \in Nat
  BY RunFields DEF Typed
<1> QED BY <1>1 DEF ActiveStays, Cleared, Advanced

LEMMA CallGoesOn ==
    ASSUME Typed, NEW c \in calls,
           \/ Returns(c)
           \/ \E d \in Call : /\ Becomes(c, d) /\ d.kind = c.kind
                              /\ d.run = c.run
                              /\ d.step = "health" <=> c.step = "health"
    PROVE  GoesOn(c)
<1>1. CASE Returns(c)
  <2>1. calls' = (calls \ {c}) \cup {}
    BY <1>1 DEF Returns
  <2>2. {} \in SUBSET Call
    OBVIOUS
  <2> QED BY <2>1, <2>2 DEF GoesOn
<1>2. ASSUME NEW d \in Call, Becomes(c, d), d.kind = c.kind, d.run = c.run,
             d.step = "health" <=> c.step = "health"
      PROVE  GoesOn(c)
  <2>1. calls' = (calls \ {c}) \cup {d} /\ {d} \in SUBSET Call
    BY <1>2 DEF Becomes
  <2> QED BY <1>2, <2>1 DEF GoesOn
<1> QED BY <1>1, <1>2

-----------------------------------------------------------------------------
(* What a step of a handler leaves as it is of the bot jobs.               *)

\* The bot runner's jobs stay those of their runs; a new one is unanswered.
BotJobsStay ==
    /\ Len(botJobs') \in Nat /\ Len(botJobs') >= Len(botJobs)
    /\ DOMAIN botJobs' = 1..Len(botJobs')
    /\ \A j \in DOMAIN botJobs' :
          IF j \in DOMAIN botJobs
          THEN /\ botJobs'[j].run = botJobs[j].run
               /\ botJobs'[j].answered = botJobs[j].answered
          ELSE botJobs'[j].run \in DOMAIN runs /\ ~botJobs'[j].answered

\* What a call may await next.
AwaitsJobs(c, d) ==
    /\ d.kind = c.kind /\ d.run = c.run /\ d.step # "job"
    /\ d.step \in {"request", "cleanup"} /\ c.kind = "get" => Advances(c)
    /\ d.step = "request" => c.kind # "recover" /\ d.jobs = runs[c.run].jobs
    /\ d.job # 0 => /\ d.step = "request"
                    /\ d.job \in DOMAIN botJobs'
                    /\ botJobs'[d.job].run = d.run

Quiet(c) ==
    /\ JobsStay /\ BotJobsStay
    /\ \/ Returns(c) /\ UNCHANGED advancing
       \/ Returns(c) /\ Advances(c) /\ advancing' = advancing \ {RoomOf(c)}
       \/ /\ UNCHANGED advancing
          /\ \E d \in Call : Becomes(c, d) /\ AwaitsJobs(c, d)

LEMMA QuietKeepsBotInv ==
    ASSUME Typed, BotInv, NEW c \in calls, RunsStay, Quiet(c)
    PROVE  BotInv'
<1>1. /\ DOMAIN runs = 1..Len(runs) /\ DOMAIN runs' = DOMAIN runs
      /\ \A i \in 1..Len(runs) : /\ runs'[i].room = runs[i].room
                                 /\ runs'[i].scenario = runs[i].scenario
                                 /\ runs'[i].jobs = runs[i].jobs
  BY RunFields DEF Quiet, RunsStay, JobsStay
<1>2. \A d \in calls : d.run \in 1..Len(runs)
  BY DEF Typed
<1>3. \A d \in calls : /\ Advances(d)' <=> Advances(d)
                       /\ RoomOf(d)' = RoomOf(d)
                       /\ runs'[d.run].jobs = runs[d.run].jobs
  BY <1>1, <1>2 DEF Advances, RoomOf
<1>4. \A d \in calls' : d \in calls \/ AwaitsJobs(c, d)
  BY DEF Quiet, Returns, Becomes
<1>5. \A d \in calls' :
         AwaitsJobs(c, d) => /\ Advances(d)' <=> Advances(c)
                             /\ RoomOf(d)' = RoomOf(c)
                             /\ runs'[d.run].jobs = runs[c.run].jobs
                             /\ d.kind = c.kind /\ d.run = c.run
  BY <1>1, <1>2 DEF AwaitsJobs, Advances, RoomOf
\* Of the calls, there is still at most the one that takes the place of c.
<1>6. ASSUME NEW d \in calls', NEW e \in calls'
      PROVE  \/ d = e
             \/ d \in calls \ {c} /\ e \in calls \ {c}
             \/ d \in calls \ {c} /\ AwaitsJobs(c, e)
             \/ e \in calls \ {c} /\ AwaitsJobs(c, d)
  BY DEF Quiet, Returns, Becomes
<1>7. AdvancedAlone'
  <2>1. \A d \in calls' : Advances(d)' =>
            RoomOf(d)' \in advancing' /\ runs'[d.run].jobs # {}
    <3> SUFFICES ASSUME NEW d \in calls', Advances(d)'
                 PROVE  RoomOf(d)' \in advancing' /\ runs'[d.run].jobs # {}
      OBVIOUS
    <3>1. CASE AwaitsJobs(c, d) /\ UNCHANGED advancing
      BY <1>5, <3>1 DEF BotInv, AdvancedAlone
    <3>2. CASE d \in calls /\ UNCHANGED advancing
      BY <1>3, <3>2 DEF BotInv, AdvancedAlone
    <3>3. CASE /\ Returns(c) /\ Advances(c)
               /\ advancing' = advancing \ {RoomOf(c)}
      <4>1. d \in calls /\ d # c
        BY <3>3 DEF Returns
      <4>2. /\ RoomOf(d) \in advancing /\ runs[d.run].jobs # {}
            /\ RoomOf(d) # RoomOf(c)
        BY <1>3, <3>3, <4>1 DEF BotInv, AdvancedAlone
      <4> QED BY <1>3, <3>3, <4>1, <4>2
    <3> QED BY <1>4, <3>1, <3>2, <3>3 DEF Quiet
  <2>2. \A d, e \in calls' :
            Advances(d)' /\ Advances(e)' /\ RoomOf(d)' = RoomOf(e)' => d = e
    BY <1>3, <1>5, <1>6 DEF BotInv, AdvancedAlone
  <2> QED BY <2>1, <2>2 DEF AdvancedAlone
<1>8. StartedOnce'
  <2>1. \A d \in calls' : d.kind = "start" => runs'[d.run].jobs = {}
    BY <1>3, <1>4, <1>5 DEF BotInv, StartedOnce
  <2>2. \A d, e \in calls' :
            d.kind = "start" /\ e.kind = "start" /\ d.run = e.run => d = e
    BY <1>5, <1>6 DEF BotInv, StartedOnce
  <2> QED BY <2>1, <2>2 DEF StartedOnce
<1>9. CallSteps'
  <2> SUFFICES ASSUME NEW d \in calls'
               PROVE  /\ d.step = "job" => d.kind = "get"
                      /\ d.step \in {"request", "cleanup"} /\ d.kind = "get"
                            => Advances(d)'
                      /\ d.step = "request"
                            => d.kind # "recover" /\ d.jobs = runs'[d.run].jobs
                      /\ d.job # 0 => /\ d.step = "request"
                                      /\ d.job \in DOMAIN botJobs'
                                      /\ botJobs'[d.job].run = d.run
    BY DEF CallSteps
  <2>1. CASE AwaitsJobs(c, d)
    BY <1>5, <2>1 DEF AwaitsJobs
  <2>2. CASE d \in calls
    <3>1. DOMAIN botJobs \subseteq DOMAIN botJobs'
      BY BotJobFields DEF Quiet, BotJobsStay
    <3>2. \A j \in DOMAIN botJobs : botJobs'[j].run = botJobs[j].run
      BY <3>1 DEF Quiet, BotJobsStay
    <3> QED BY <1>3, <2>2, <3>1, <3>2 DEF BotInv, CallSteps
  <2> QED BY <1>4, <2>1, <2>2
<1>10. JobsKept'
  <2> SUFFICES ASSUME NEW j \in DOMAIN botJobs'
               PROVE  /\ botJobs'[j].run \in DOMAIN runs'
                      /\ botJobs'[j].answered
                            => j \in runs'[botJobs'[j].run].jobs
    BY DEF JobsKept
  <2> QED BY <1>1 DEF Quiet, BotJobsStay, BotInv, JobsKept
<1> QED BY <1>7, <1>8, <1>9, <1>10 DEF BotInv

LEMMA BotJobsUnchanged ==
    ASSUME Typed, UNCHANGED botJobs
    PROVE  BotJobsStay /\ botJobs' \in Seq(BotJob)
  BY BotJobFields DEF Typed, BotJobsStay

LEMMA BotJobIsAdded ==
    ASSUME Typed, NEW job \in BotJob, job.run \in DOMAIN runs,
           ~job.answered, botJobs' = Append(botJobs, job)
    PROVE  /\ BotJobsStay /\ botJobs' \in Seq(BotJob)
           /\ Len(botJobs) + 1 \in DOMAIN botJobs'
           /\ botJobs'[Len(botJobs) + 1] = job
<1>1. botJobs \in Seq(BotJob) /\ DOMAIN botJobs = 1..Len(botJobs)
  BY BotJobFields DEF Typed
<1>2. /\ botJobs' \in Seq(BotJob) /\ Len(botJobs') = Len(botJobs) + 1
      /\ Len(botJobs) \in Nat
  BY <1>1
<1>3. DOMAIN botJobs' = 1..Len(botJobs) + 1
  BY <1>2
<1>4. /\ \A j \in DOMAIN botJobs : botJobs'[j] = botJobs[j]
      /\ botJobs'[Len(botJobs) + 1] = job
  BY <1>1
<1> QED BY <1>1, <1>2, <1>3, <1>4 DEF BotJobsStay

LEMMA BotJobsAreCleaned ==
    ASSUME Typed, NEW J, botJobs' = Cleaned(J)
    PROVE  BotJobsStay /\ botJobs' \in Seq(BotJob)
<1>1. /\ DOMAIN botJobs' = DOMAIN botJobs
      /\ \A j \in DOMAIN botJobs :
            botJobs'[j] =
                IF j \notin J THEN botJobs[j]
                ELSE [botJobs[j] EXCEPT !.bots = FALSE,
                         !.state = IF botJobs[j].state = "running"
                                   THEN "cancelled" ELSE botJobs[j].state]
  BY DEF Cleaned
<1>2. \A j \in DOMAIN botJobs : /\ botJobs'[j] \in BotJob
                                /\ botJobs'[j].run = botJobs[j].run
                                /\ botJobs'[j].answered = botJobs[j].answered
  <2> SUFFICES ASSUME NEW j \in DOMAIN botJobs
               PROVE  /\ botJobs'[j] \in BotJob
                      /\ botJobs'[j].run = botJobs[j].run
                      /\ botJobs'[j].answered = botJobs[j].answered
    OBVIOUS
  <2>1. botJobs[j] \in BotJob
    BY BotJobFields
  <2>2. CASE j \notin J
    BY <1>1, <2>1, <2>2
  <2>3. CASE j \in J
    <3> DEFINE state == IF botJobs[j].state = "running"
                        THEN "cancelled" ELSE botJobs[j].state
    <3>1. state \in {"running", "completed", "failed", "cancelled"}
      BY <2>1 DEF BotJob
    <3>2. botJobs'[j] = [botJobs[j] EXCEPT !.bots = FALSE, !.state = state]
      BY <1>1, <2>3
    <3> HIDE DEF state
    <3> QED BY <2>1, <3>1, <3>2 DEF BotJob
  <2> QED BY <2>2, <2>3
<1>3. botJobs' \in [DOMAIN botJobs -> BotJob]
  BY <1>1, <1>2 DEF Cleaned
<1>4. botJobs' \in Seq(BotJob) /\ Len(botJobs') = Len(botJobs)
  BY <1>3, Mapped DEF Typed
<1>5. DOMAIN botJobs' = 1..Len(botJobs') /\ Len(botJobs') \in Nat
  BY <1>1, <1>4, BotJobFields
<1>6. \A j \in DOMAIN botJobs' :
          /\ j \in DOMAIN botJobs /\ botJobs'[j].run = botJobs[j].run
          /\ botJobs'[j].answered = botJobs[j].answered
  BY <1>1, <1>2
<1>7. Len(botJobs') >= Len(botJobs)
  BY <1>4, <1>5
<1> QED BY <1>4, <1>5, <1>6, <1>7 DEF BotJobsStay

\* The call returns, with nothing else to do for its room's surge.
LEMMA Returned ==
    ASSUME Typed, NEW c \in calls, Returns(c), JobsStay, BotJobsStay,
           \/ UNCHANGED advancing
           \/ Advances(c) /\ advancing' = advancing \ {RoomOf(c)}
    PROVE  Quiet(c) /\ GoesOn(c) /\ advancing' \subseteq advancing
  BY CallGoesOn DEF Quiet

LEMMA AnswerIsQuiet ==
    ASSUME Typed, BotInv, NEW c \in calls, Answers(c), ~JobAnswered(c)
    PROVE  Goes(c) /\ Quiet(c)
<1>1. /\ c \in Call /\ c.run \in 1..Len(runs) /\ RoomOf(c) \in Room
      /\ DOMAIN runs = 1..Len(runs) /\ runs[c.run] \in Run
      /\ runs[c.run].jobs \subseteq Nat
  BY RunFields
<1>2. /\ c.step = "job" => c.kind = "get"
      /\ c.step \in {"request", "cleanup"} /\ c.kind = "get" => Advances(c)
      /\ c.step = "request" => c.kind # "recover" /\ c.jobs = runs[c.run].jobs
      /\ c.job # 0 => /\ c.step = "request" /\ c.job \in DOMAIN botJobs
                      /\ botJobs[c.job].run = c.run
  BY DEF BotInv, CallSteps
<1>3. /\ UNCHANGED faults => faults' \subseteq Fault
      /\ \A kind : Occurs(kind) => faults' \subseteq Fault
  BY DEF Typed, Occurs
<1>4. \A status : Seen(status) \in Status
  BY DEF Seen, Status
<1>5. CASE CallAnswered(c)
  <2>1. /\ c.step = "call" /\ Returns(c) /\ faults' \subseteq Fault
        /\ UNCHANGED <<advancing, requests, unswept, loadVars, botJobs>>
    BY <1>3, <1>5 DEF CallAnswered
  <2>2. CASE c.kind = "start"
    <3> DEFINE status == IF runs[c.run].scenario = "admission-lock"
                         THEN "active" ELSE "recovering"
    <3>1. /\ runs' = [runs EXCEPT ![c.run] =
                         [runs[c.run] EXCEPT !.status = status]]
          /\ activeRuns' = [activeRuns EXCEPT ![RoomOf(c)] = c.run]
      BY <1>1, <1>5, <2>2 DEF CallAnswered, Started, RoomOf, Run
    <3>2. status \in Status
      BY DEF Status
    <3>3. RunsStay /\ JobsStay
      BY <1>1, <3>1, <3>2, StatusIsSet
    <3> QED BY <2>1, <3>1, <3>3, ActiveIsSet, BotJobsUnchanged, Returned
            DEF Goes
  <2>3. CASE c.kind # "start"
    <3>1. activeRuns' = Cleared(RoomOf(c)) /\ UNCHANGED runs
      BY <1>5, <2>3 DEF CallAnswered
    <3> QED BY <2>1, <3>1, RunsUnchanged, ActiveIsSet, BotJobsUnchanged,
               Returned DEF Goes
  <2> QED BY <2>2, <2>3
<1>6. CASE CallFails(c)
  BY <1>3, <1>6, RunsUnchanged, ActiveIsSet, BotJobsUnchanged, Returned
     DEF CallFails, Goes
<1>7. CASE JobAccepted(c)
  <2> DEFINE d == [c EXCEPT !.job = Len(botJobs) + 1]
             job == [room |-> RoomOf(c), run |-> c.run, state |-> "running",
                     bots |-> TRUE, answered |-> FALSE]
  <2>1. /\ c.step = "request" /\ botJobs' = Append(botJobs, job)
        /\ Becomes(c, d)
        /\ UNCHANGED <<runs, activeRuns, advancing, requests, unswept,
                       loadVars, faults>>
    BY <1>7 DEF JobAccepted
  <2>2. job \in BotJob /\ job.run = c.run /\ ~job.answered
    BY <1>1 DEF BotJob
  <2>3. /\ d \in Call /\ d.kind = c.kind /\ d.run = c.run
        /\ d.step = c.step /\ d.jobs = c.jobs /\ d.job = Len(botJobs) + 1
    BY <1>1, BotJobFields DEF Call
  <2> HIDE DEF d, job
  <2>4. /\ BotJobsStay /\ botJobs' \in Seq(BotJob)
        /\ d.job \in DOMAIN botJobs' /\ botJobs'[d.job] = job
    BY <1>1, <2>1, <2>2, <2>3, BotJobIsAdded
  <2>5. AwaitsJobs(c, d)
    BY <1>2, <2>1, <2>2, <2>3, <2>4 DEF AwaitsJobs
  <2> QED BY <1>3, <2>1, <2>3, <2>4, <2>5, RunsUnchanged, ActiveIsSet,
             CallGoesOn DEF Goes, Quiet
<1>8. CASE JobFails(c)
  <2>1. /\ c.step = "request" /\ Returns(c) /\ faults' \subseteq Fault
        /\ UNCHANGED <<requests, unswept, loadVars, botJobs>>
    BY <1>3, <1>8 DEF JobFails
  <2>2. CASE c.kind = "start"
    <3>1. /\ activeRuns' = Cleared(RoomOf(c)) /\ UNCHANGED <<runs, advancing>>
      BY <1>8, <2>2 DEF JobFails
    <3> QED BY <2>1, <3>1, RunsUnchanged, ActiveIsSet, BotJobsUnchanged,
               Returned DEF Goes
  <2>3. CASE c.kind # "start"
    <3>1. /\ runs' = [runs EXCEPT ![c.run].status = "failed"]
          /\ Advanced(RoomOf(c), c.run)
      BY <1>8, <2>3 DEF JobFails
    <3>2. Advances(c)
      BY <1>1, <1>2, <2>1, <2>3 DEF Call
    <3>3. advancing' = advancing \ {RoomOf(c)}
      BY <3>1 DEF Advanced
    <3>4. RunsStay /\ JobsStay
      BY <1>1, <3>1, StatusIsSet DEF Status
    <3> QED BY <2>1, <3>1, <3>2, <3>3, <3>4, ActiveIsSet, BotJobsUnchanged,
               Returned DEF Goes
  <2> QED BY <2>2, <2>3
<1>9. CASE JobCleaned(c)
  <2>1. PICK j \in c.jobs : /\ botJobs' = Cleaned({j})
                            /\ Becomes(c, [c EXCEPT !.jobs = @ \ {j}])
    BY <1>9 DEF JobCleaned
  <2> DEFINE d == [c EXCEPT !.jobs = c.jobs \ {j}]
  <2>2. /\ c.step = "cleanup" /\ Becomes(c, d)
        /\ UNCHANGED <<runs, activeRuns, advancing, requests, unswept,
                       loadVars, faults>>
    BY <1>9, <2>1 DEF JobCleaned
  <2>3. /\ d \in Call /\ d.kind = c.kind /\ d.run = c.run
        /\ d.step = c.step /\ d.job = c.job
    BY <1>1 DEF Call
  <2> HIDE DEF d
  <2>4. BotJobsStay /\ botJobs' \in Seq(BotJob)
    BY <2>1, BotJobsAreCleaned
  <2>5. AwaitsJobs(c, d)
    BY <1>2, <2>2, <2>3 DEF AwaitsJobs
  <2> QED BY <1>3, <2>2, <2>3, <2>4, <2>5, RunsUnchanged, ActiveIsSet,
             CallGoesOn DEF Goes, Quiet
<1>10. CASE CleanupEnds(c)
  <2>1. /\ c.step = "cleanup" /\ Returns(c)
        /\ activeRuns' = Cleared(RoomOf(c))
        /\ UNCHANGED <<runs, requests, unswept, loadVars, botJobs, faults>>
        /\ IF c.kind = "get" THEN advancing' = advancing \ {RoomOf(c)}
                             ELSE UNCHANGED advancing
    BY <1>10 DEF CleanupEnds
  <2> QED BY <1>2, <1>3, <2>1, RunsUnchanged, ActiveIsSet, BotJobsUnchanged,
             Returned DEF Goes
<1>11. CASE CleanupFails(c)
  <2>1. PICK J \in SUBSET c.jobs : botJobs' = Cleaned(J)
    BY <1>11 DEF CleanupFails
  <2>2. /\ c.step = "cleanup" /\ Returns(c) /\ faults' \subseteq Fault
        /\ UNCHANGED <<requests, unswept, loadVars>>
    BY <1>3, <1>11 DEF CleanupFails
  <2>3. BotJobsStay /\ botJobs' \in Seq(BotJob)
    BY <2>1, BotJobsAreCleaned
  <2>4. CASE c.kind = "get"
    <3>1. /\ runs' = [runs EXCEPT ![c.run].status = "recovering"]
          /\ Advanced(RoomOf(c), c.run)
      BY <1>11, <2>4 DEF CleanupFails
    <3>2. Advances(c) /\ advancing' = advancing \ {RoomOf(c)}
      BY <1>2, <2>2, <2>4, <3>1 DEF Advanced
    <3>3. RunsStay /\ JobsStay
      BY <1>1, <3>1, StatusIsSet DEF Status
    <3> QED BY <2>2, <2>3, <3>1, <3>2, <3>3, ActiveIsSet, Returned DEF Goes
  <2>5. CASE c.kind # "get"
    <3>1. UNCHANGED <<runs, activeRuns, advancing>>
      BY <1>11, <2>5 DEF CleanupFails
    <3> QED BY <2>2, <2>3, <3>1, RunsUnchanged, ActiveIsSet, Returned DEF Goes
  <2> QED BY <2>4, <2>5
<1>12. CASE HealthAnswered(c)
  <2>1. /\ runs' = [runs EXCEPT ![c.run].status = "active"]
        /\ \/ UNCHANGED activeRuns
           \/ activeRuns' = Cleared(RoomOf(c))
        /\ Returns(c)
        /\ UNCHANGED <<advancing, requests, unswept, loadVars, botJobs,
                       faults>>
    BY <1>12 DEF HealthAnswered
  <2>2. RunsStay /\ JobsStay
    BY <1>1, <2>1, StatusIsSet DEF Status
  <2> QED BY <1>3, <2>1, <2>2, ActiveIsSet, BotJobsUnchanged, Returned
          DEF Goes
<1>13. CASE JobUnknown(c)
  <2>1. /\ c.step = "job" /\ Returns(c)
        /\ UNCHANGED <<runs, requests, unswept, loadVars, botJobs, faults>>
    BY <1>13 DEF JobUnknown
  <2>2. CASE runs[c.run].scenario = "bot-surge"
    <3>1. /\ Advanced(RoomOf(c), c.run) /\ Advances(c)
          /\ advancing' = advancing \ {RoomOf(c)}
      BY <1>2, <1>13, <2>1, <2>2 DEF JobUnknown, Advances, Advanced
    <3> QED BY <1>3, <2>1, <3>1, RunsUnchanged, ActiveIsSet, BotJobsUnchanged,
               Returned DEF Goes
  <2>3. CASE runs[c.run].scenario # "bot-surge"
    <3>1. UNCHANGED <<activeRuns, advancing>>
      BY <1>13, <2>3 DEF JobUnknown
    <3> QED BY <1>3, <2>1, <3>1, RunsUnchanged, ActiveIsSet, BotJobsUnchanged,
               Returned DEF Goes
  <2> QED BY <2>2, <2>3
<1>14. CASE MaliciousSeen(c)
  <2>1. /\ c.step = "job" /\ Returns(c)
        /\ runs' = [runs EXCEPT ![c.run].status = Seen(StateOf(c))]
        /\ activeRuns' = [activeRuns EXCEPT ![RoomOf(c)] = c.run]
        /\ UNCHANGED <<advancing, requests, unswept, loadVars, botJobs,
                       faults>>
    BY <1>14 DEF MaliciousSeen
  <2>2. RunsStay /\ JobsStay
    BY <1>1, <1>4, <2>1, StatusIsSet
  <2> QED BY <1>3, <2>1, <2>2, ActiveIsSet, BotJobsUnchanged, Returned
          DEF Goes
<1>15. CASE SurgeSeen(c) \/ SurgeHolds(c)
  <2>1. /\ c.step = "job" /\ Returns(c) /\ Advanced(RoomOf(c), c.run)
        /\ runs[c.run].scenario = "bot-surge"
        /\ UNCHANGED <<requests, unswept, loadVars, botJobs, faults>>
    BY <1>15 DEF SurgeSeen, SurgeHolds, MayMoveOn
  <2>2. Advances(c) /\ advancing' = advancing \ {RoomOf(c)}
    BY <1>2, <2>1 DEF Advances, Advanced
  <2>3. \/ runs' = [runs EXCEPT ![c.run].status = Seen(StateOf(c))]
        \/ runs' = [runs EXCEPT ![c.run].status = "active",
                                ![c.run].holding = TRUE]
    BY <1>15 DEF SurgeSeen, SurgeHolds
  <2>4. "active" \in Status /\ TRUE \in BOOLEAN
    BY DEF Status
  <2>5. RunsStay /\ JobsStay
    BY <1>1, <1>4, <2>3, <2>4, StatusIsSet
  <2> QED BY <1>3, <2>1, <2>2, <2>5, ActiveIsSet, BotJobsUnchanged, Returned
          DEF Goes
<1>16. CASE SurgeRamps(c) \/ SurgeIsOver(c)
  <2>1. PICK d \in Call : /\ Becomes(c, d)
                          /\ d.kind = c.kind /\ d.run = c.run /\ d.job = c.job
                          /\ d.step \in {"request", "cleanup"}
                          /\ d.jobs = runs[c.run].jobs
    <3>1. CASE SurgeRamps(c)
      <4> DEFINE d == [c EXCEPT !.step = "request", !.jobs = runs[c.run].jobs]
      <4>1. /\ d \in Call /\ d.kind = c.kind /\ d.run = c.run /\ d.job = c.job
            /\ d.step = "request" /\ d.jobs = runs[c.run].jobs
        BY <1>1 DEF Call
      <4>2. Becomes(c, d)
        BY <3>1 DEF SurgeRamps
      <4> QED BY <4>1, <4>2
    <3>2. CASE SurgeIsOver(c)
      <4> DEFINE d == [c EXCEPT !.step = "cleanup", !.jobs = runs[c.run].jobs]
      <4>1. /\ d \in Call /\ d.kind = c.kind /\ d.run = c.run /\ d.job = c.job
            /\ d.step = "cleanup" /\ d.jobs = runs[c.run].jobs
        BY <1>1 DEF Call
      <4>2. Becomes(c, d)
        BY <3>2 DEF SurgeIsOver, Cleanup
      <4> QED BY <4>1, <4>2
    <3> QED BY <1>16, <3>1, <3>2
  <2>2. /\ c.step = "job" /\ runs[c.run].scenario = "bot-surge"
        /\ runs' = [runs EXCEPT ![c.run].status = "active"]
        /\ UNCHANGED <<activeRuns, advancing, requests, unswept, loadVars,
                       botJobs, faults>>
    BY <1>16 DEF SurgeRamps, SurgeIsOver, MayMoveOn
  <2>3. RunsStay /\ JobsStay
    BY <1>1, <2>2, StatusIsSet DEF Status
  <2>4. AwaitsJobs(c, d)
    BY <1>2, <2>1, <2>2 DEF AwaitsJobs, Advances
  <2> QED BY <1>3, <2>1, <2>2, <2>3, <2>4, ActiveIsSet, BotJobsUnchanged,
             CallGoesOn DEF Goes, Quiet
<1> QED BY <1>5, <1>6, <1>7, <1>8, <1>9, <1>10, <1>11, <1>12, <1>13, <1>14,
           <1>15, <1>16 DEF Answers

LEMMA JobAnsweredGoes ==
    ASSUME Typed, StormInv, BotInv, NEW c \in calls, JobAnswered(c)
    PROVE  /\ Goes(c) /\ Returns(c)
           /\ c.kind # "start" => Advances(c)
           /\ IF c.kind = "start" THEN UNCHANGED advancing
              ELSE advancing' = advancing \ {RoomOf(c)}
           /\ \A i \in 1..Len(runs) :
                 runs'[i].jobs = IF i = c.run THEN runs[i].jobs \cup {c.job}
                                 ELSE runs[i].jobs
<1> DEFINE run == [runs[c.run] EXCEPT !.status = "starting", !.job = c.job,
                                      !.jobs = c.jobs \cup {c.job}]
<1>1. /\ c \in Call /\ c.run \in 1..Len(runs) /\ RoomOf(c) \in Room
      /\ DOMAIN runs = 1..Len(runs) /\ runs[c.run] \in Run
  BY RunFields
<1>2. /\ c.step = "request" /\ c.job # 0 /\ Returns(c)
      /\ botJobs' = [botJobs EXCEPT ![c.job].answered = TRUE]
      /\ UNCHANGED <<requests, unswept, loadVars, faults>>
  BY DEF JobAnswered
<1>3. /\ c.kind # "recover" /\ c.jobs = runs[c.run].jobs
      /\ c.kind = "get" => Advances(c)
      /\ c.job \in DOMAIN botJobs
  BY <1>2 DEF BotInv, CallSteps
<1>4. ~IsStorm(c.run)
  BY <1>2 DEF StormInv, OnlyHealthOfStorms
<1>5. /\ run \in Run /\ run.room = RoomOf(c)
      /\ run.scenario = runs[c.run].scenario
      /\ run.jobs = runs[c.run].jobs \cup {c.job}
  BY <1>1, <1>3 DEF Run, Status, Call, RoomOf
<1>6. /\ runs' = [runs EXCEPT ![c.run] = run]
      /\ IF c.kind = "start"
         THEN /\ activeRuns' = [activeRuns EXCEPT ![RoomOf(c)] = c.run]
              /\ UNCHANGED advancing
         ELSE Advanced(RoomOf(c), c.run)
  BY <1>5 DEF JobAnswered, Started
<1> HIDE DEF run
<1>7. /\ RunsStay /\ runs'[c.run] = run
      /\ \A k \in 1..Len(runs) : k # c.run => runs'[k] = runs[k]
  <2>1. run.room = runs[c.run].room
    BY <1>5 DEF RoomOf
  <2> QED BY <1>1, <1>4, <1>5, <1>6, <2>1, RunIsReplaced
<1>8. ActiveStays(c) /\ GoesOn(c)
  BY <1>2, <1>6, ActiveIsSet, CallGoesOn
<1>9. botJobs' \in Seq(BotJob)
  <2>1. /\ botJobs[c.job] \in BotJob /\ botJobs \in Seq(BotJob)
    BY <1>3, BotJobFields DEF Typed
  <2>2. [botJobs[c.job] EXCEPT !.answered = TRUE] \in BotJob
    BY <2>1 DEF BotJob
  <2>3. botJobs' = [botJobs EXCEPT ![c.job] =
                      [botJobs[c.job] EXCEPT !.answered = TRUE]]
    BY <1>2, <1>3
  <2> QED BY <1>3, <2>1, <2>2, <2>3, Replaced
<1>10. /\ advancing' \subseteq advancing
       /\ c.kind # "start" => advancing' = advancing \ {RoomOf(c)}
  BY <1>6 DEF Advanced
<1>11. Goes(c)
  BY <1>2, <1>7, <1>8, <1>9, <1>10 DEF Goes, Typed
<1>12. c.kind # "start" => Advances(c)
  BY <1>1, <1>3 DEF Call
<1>13. \A i \in 1..Len(runs) :
          runs'[i].jobs = IF i = c.run THEN runs[i].jobs \cup {c.job}
                          ELSE runs[i].jobs
  BY <1>5, <1>7
<1> QED BY <1>2, <1>6, <1>10, <1>11, <1>12, <1>13

LEMMA JobAnsweredKeepsBotInv ==
    ASSUME Typed, StormInv, BotInv, NEW c \in calls, JobAnswered(c)
    PROVE  BotInv'
<1>1. /\ DOMAIN runs = 1..Len(runs) /\ DOMAIN runs' = DOMAIN runs
      /\ \A i \in 1..Len(runs) :
            /\ runs'[i].room = runs[i].room
            /\ runs'[i].scenario = runs[i].scenario
            /\ runs'[i].jobs = IF i = c.run THEN runs[i].jobs \cup {c.job}
                               ELSE runs[i].jobs
  <2>1. RunsStay /\ \A i \in 1..Len(runs) :
            runs'[i].jobs = IF i = c.run THEN runs[i].jobs \cup {c.job}
                            ELSE runs[i].jobs
    BY JobAnsweredGoes DEF Goes
  <2>2. DOMAIN runs = 1..Len(runs) /\ DOMAIN runs' = DOMAIN runs
    BY <2>1, RunFields DEF RunsStay
  <2>3. \A i \in 1..Len(runs) : /\ runs'[i].room = runs[i].room
                                /\ runs'[i].scenario = runs[i].scenario
    BY <2>1 DEF RunsStay
  <2> QED BY <2>1, <2>2, <2>3
<1>2. /\ calls' = calls \ {c} /\ c.step = "request" /\ c.job # 0
      /\ botJobs' = [botJobs EXCEPT ![c.job].answered = TRUE]
  BY DEF JobAnswered, Returns
<1>3. /\ c.job \in DOMAIN botJobs /\ botJobs[c.job].run = c.run
      /\ c.run \in 1..Len(runs)
      /\ c.kind = "start" \/ Advances(c)
  BY <1>2, JobAnsweredGoes DEF BotInv, CallSteps, Typed
<1>4. \A d \in calls : /\ d.run \in 1..Len(runs)
                       /\ Advances(d)' <=> Advances(d)
                       /\ RoomOf(d)' = RoomOf(d)
  BY <1>1 DEF Typed, Advances, RoomOf
\* No other handler has asked for a job of this run.
<1>5. ASSUME NEW d \in calls', d.kind = "start" \/ Advances(d)
      PROVE  d.run # c.run
  <2>1. CASE c.kind = "start" /\ d.kind = "start"
    BY <1>2, <2>1 DEF BotInv, StartedOnce
  <2>2. CASE c.kind = "start" /\ Advances(d)
    BY <1>2, <2>2 DEF BotInv, StartedOnce, AdvancedAlone
  <2>3. CASE Advances(c) /\ d.kind = "start"
    BY <1>2, <2>3 DEF BotInv, StartedOnce, AdvancedAlone
  <2>4. CASE Advances(c) /\ Advances(d)
    BY <1>2, <2>4 DEF BotInv, AdvancedAlone, RoomOf
  <2> QED BY <1>3, <1>5, <2>1, <2>2, <2>3, <2>4
<1>6. AdvancedAlone'
  <2>1. \A d \in calls' : Advances(d) =>
            RoomOf(d) \in advancing' /\ runs'[d.run].jobs # {}
    <3> SUFFICES ASSUME NEW d \in calls', Advances(d)
                 PROVE  RoomOf(d) \in advancing' /\ runs'[d.run].jobs # {}
      OBVIOUS
    <3>1. RoomOf(d) \in advancing /\ runs[d.run].jobs # {} /\ d \in calls
      BY <1>2 DEF BotInv, AdvancedAlone
    <3>2. Advances(c) => RoomOf(d) # RoomOf(c)
      BY <1>2, <3>1 DEF BotInv, AdvancedAlone
    <3>3. RoomOf(d) \in advancing'
      BY <1>3, <3>1, <3>2, JobAnsweredGoes
    <3> QED BY <1>1, <1>4, <3>1, <3>3
  <2>2. \A d, e \in calls' :
            Advances(d) /\ Advances(e) /\ RoomOf(d) = RoomOf(e) => d = e
    BY <1>2 DEF BotInv, AdvancedAlone
  <2> QED BY <1>2, <1>4, <2>1, <2>2 DEF AdvancedAlone
<1>7. StartedOnce'
  BY <1>1, <1>2, <1>4, <1>5 DEF BotInv, StartedOnce
<1>8. CallSteps'
  <2> SUFFICES ASSUME NEW d \in calls'
               PROVE  /\ d.step = "job" => d.kind = "get"
                      /\ d.step \in {"request", "cleanup"} /\ d.kind = "get"
                            => Advances(d)'
                      /\ d.step = "request"
                            => d.kind # "recover" /\ d.jobs = runs'[d.run].jobs
                      /\ d.job # 0 => /\ d.step = "request"
                                      /\ d.job \in DOMAIN botJobs'
                                      /\ botJobs'[d.job].run = d.run
    BY DEF CallSteps
  <2>1. d \in calls /\ d \in Call
    BY <1>2 DEF Typed
  <2>2. d.step = "request" => d.run # c.run
    BY <1>5, <2>1 DEF BotInv, CallSteps, Call
  <2>3. \A j \in DOMAIN botJobs : botJobs'[j].run = botJobs[j].run
    BY <1>2
  <2> QED BY <1>1, <1>2, <1>4, <2>1, <2>2, <2>3 DEF BotInv, CallSteps
<1>9. JobsKept'
  <2> SUFFICES ASSUME NEW j \in DOMAIN botJobs
               PROVE  /\ botJobs'[j].run \in DOMAIN runs'
                      /\ botJobs'[j].answered
                            => j \in runs'[botJobs'[j].run].jobs
    BY <1>2 DEF JobsKept
  <2>1. /\ botJobs'[j].run = botJobs[j].run /\ botJobs[j].run \in DOMAIN runs
        /\ j = c.job \/ botJobs'[j].answered = botJobs[j].answered
    <3>1. botJobs[j] \in BotJob
      BY BotJobFields
    <3> QED BY <1>2, <1>3, <3>1 DEF BotInv, JobsKept, BotJob
  <2>2. CASE j = c.job
    BY <1>1, <1>3, <2>1, <2>2
  <2>3. CASE j # c.job
    <3>1. botJobs'[j].answered => j \in runs[botJobs[j].run].jobs
      BY <2>1, <2>3 DEF BotInv, JobsKept
    <3> QED BY <1>1, <2>1, <3>1
  <2> QED BY <2>2, <2>3
<1> QED BY <1>6, <1>7, <1>8, <1>9 DEF BotInv

LEMMA AnswerKeepsIInv ==
    ASSUME IInv, NEW c \in calls, Answers(c) PROVE IInv'
<1>1. Typed /\ StormInv /\ BotInv
  BY DEF IInv
<1>2. Goes(c)
  BY <1>1, AnswerIsQuiet, JobAnsweredGoes
<1>3. BotInv'
  <2>1. ~JobAnswered(c) => BotInv'
    BY <1>1, <1>2, AnswerIsQuiet, QuietKeepsBotInv DEF Goes
  <2> QED BY <1>1, <2>1, JobAnsweredKeepsBotInv
<1> QED BY <1>1, <1>2, <1>3, GoesKeepsTyped, GoesKeepsStorms DEF IInv

-----------------------------------------------------------------------------
(* The requests, the load and the bot runner.                              *)

\* The loads that there are stay, except for how far they are.
LoadsStay ==
    /\ loads' \in Seq(Load) /\ Len(loads') >= Len(loads)
    /\ \A j \in 1..Len(loads) : loads'[j].room = loads[j].room

\* A room keeps its run, has none any more, or has the new one.
ActiveMoves ==
    \A r \in Room :
        \/ activeRuns'[r] \in {activeRuns[r], 0}
        \/ /\ activeRuns'[r] = Len(runs) + 1 /\ Len(runs') = Len(runs) + 1
           /\ runs'[Len(runs) + 1].room = r
NoNewStorm ==
    Len(runs') = Len(runs) + 1
        => runs'[Len(runs) + 1].scenario # "admission-storm"

LEMMA OldRunsAreRuns ==
    ASSUME Typed, OldRunsStay
    PROVE  /\ DOMAIN runs' = 1..Len(runs') /\ Len(runs') >= Len(runs)
           /\ Len(runs) \in Nat /\ Len(runs') \in Nat
           /\ DOMAIN runs = 1..Len(runs)
           /\ \A d \in calls : d.run \in 1..Len(runs)
<1>1. Len(runs) \in Nat /\ DOMAIN runs = 1..Len(runs)
  BY RunFields
<1>2. DOMAIN runs' = 1..Len(runs') /\ Len(runs') \in Nat
  BY DEF OldRunsStay
<1>3. \A d \in calls : d.run \in 1..Len(runs)
  BY RunFields
<1>4. Len(runs') = Len(runs) \/ Len(runs') = Len(runs) + 1
  BY DEF OldRunsStay
<1>5. Len(runs) \in Nat /\ Len(runs') \in Nat
  BY <1>1, <1>2
<1>6. ASSUME NEW n \in Nat, NEW m \in Nat, m = n \/ m = n + 1 PROVE m >= n
  BY <1>6
<1>7. Len(runs') >= Len(runs)
  BY <1>4, <1>5, <1>6
<1> QED BY <1>1, <1>2, <1>3, <1>7

LEMMA StormsStay ==
    ASSUME Typed, StormInv, OldRunsStay, LoadsStay, ActiveMoves,
           NoNewStorm, OneLoad',
           \A d \in calls' \ calls :
              /\ d.run \in 1..Len(runs')
              /\ runs'[d.run].scenario = "admission-storm"
                    <=> d.step = "health"
    PROVE  StormInv'
<1> USE DEF IsStorm
<1>1. /\ DOMAIN runs' = 1..Len(runs') /\ DOMAIN runs = 1..Len(runs)
      /\ Len(runs) \in Nat
      /\ Len(runs') = Len(runs) \/ Len(runs') = Len(runs) + 1
      /\ \A d \in calls : d.run \in 1..Len(runs)
  BY OldRunsAreRuns DEF OldRunsStay
<1>2. \A i \in 1..Len(runs) :
          /\ runs'[i].room = runs[i].room
          /\ runs'[i].scenario = runs[i].scenario
          /\ runs'[i].job = runs[i].job
  BY DEF OldRunsStay
<1>3. \A r \in Room : activeRuns[r] \in 0..Len(runs)
  BY DEF Typed
<1>4. PICK n \in Nat : /\ n = Len(runs)
                       /\ DOMAIN runs = 1..n
                       /\ DOMAIN runs' = 1..n \/ DOMAIN runs' = 1..n + 1
                       /\ Len(runs') = n + 1 \/ DOMAIN runs' = 1..n
  BY <1>1
<1>5. \A r \in Room : /\ activeRuns[r] \in 0..n
                       /\ \/ activeRuns'[r] \in {activeRuns[r], 0}
                          \/ /\ activeRuns'[r] = n + 1
                             /\ runs'[n + 1].room = r
                             /\ runs'[n + 1].scenario # "admission-storm"
  BY <1>4, <1>3 DEF ActiveMoves, NoNewStorm
<1>6. /\ \A i \in 1..n : /\ runs'[i].room = runs[i].room
                         /\ runs'[i].scenario = runs[i].scenario
                         /\ runs'[i].job = runs[i].job
      /\ \A i \in DOMAIN runs' :
             i \in 1..n \/ runs'[i].scenario # "admission-storm"
  <2>1. ASSUME NEW i \in DOMAIN runs', i \notin 1..n
        PROVE  runs'[i].scenario # "admission-storm"
    <3>1. i = n + 1 /\ Len(runs') = n + 1
      BY <1>4, <2>1
    <3> QED BY <1>4, <3>1 DEF NoNewStorm
  <2> QED BY <1>4, <1>2, <2>1
<1>7. RunsOfTheirRooms'
  BY <1>5, <1>6 DEF StormInv, RunsOfTheirRooms
<1>8. StormsHaveLoads'
  <2> SUFFICES ASSUME NEW i \in DOMAIN runs',
                      runs'[i].scenario = "admission-storm"
               PROVE  /\ runs'[i].job \in DOMAIN loads'
                      /\ loads'[runs'[i].job].room = runs'[i].room
    BY DEF StormsHaveLoads
  <2>1. i \in 1..Len(runs)
    BY <1>4, <1>6
  <2>2. /\ runs[i].job \in 1..Len(loads)
        /\ loads[runs[i].job].room = runs[i].room
    BY <1>1, <1>2, <2>1, LoadFields DEF StormInv, StormsHaveLoads
  <2>3. DOMAIN loads' = 1..Len(loads') /\ Len(loads') \in Nat
    BY DEF LoadsStay
  <2> QED BY <1>2, <2>1, <2>2, <2>3, LoadFields DEF LoadsStay
<1>9. OnlyHealthOfStorms'
  BY <1>1, <1>2 DEF StormInv, OnlyHealthOfStorms
<1>10. OneStormRoom'
  <2>1. \A r \in Room :
            activeRuns'[r] # 0
                /\ runs'[activeRuns'[r]].scenario = "admission-storm"
            => activeRuns'[r] = activeRuns[r] /\ IsStorm(activeRuns[r])
    BY <1>5, <1>6
  <2> QED BY <2>1 DEF StormInv, OneStormRoom
<1> QED BY <1>7, <1>8, <1>9, <1>10 DEF StormInv

\* What a new call of a request asks for.
MayBegin(d) ==
    /\ d.run \in 1..Len(runs') /\ d.job = 0
    /\ d.step = "job" => d.kind = "get"
    /\ d.step = "cleanup" => d.kind # "get"
    /\ d.step = "request" => d.kind = "start" /\ d.jobs = {}
    /\ d.kind = "start" => d.run = Len(runs) + 1 /\ runs'[d.run].jobs = {}
    /\ d.kind = "get" /\ runs'[d.run].scenario = "bot-surge"
          => /\ runs'[d.run].room \in advancing' \ advancing
             /\ runs'[d.run].jobs # {}

LEMMA BotsStay ==
    ASSUME Typed, BotInv, OldRunsStay, BotJobsStay,
           advancing \subseteq advancing',
           NEW S, calls' = calls \cup S, \A d \in S : MayBegin(d),
           \A d, e \in S : /\ d.kind = "start" /\ e.kind = "start" => d = e
                           /\ d.kind = "get" /\ e.kind = "get"
                              /\ d.step # "health" /\ e.step # "health"
                              /\ runs'[d.run].room = runs'[e.run].room => d = e,
           \A d \in S : runs'[d.run].scenario = "bot-surge"
                           => d.step # "health"
    PROVE  BotInv'
<1>1. /\ DOMAIN runs' = 1..Len(runs') /\ DOMAIN runs = 1..Len(runs)
      /\ Len(runs) \in Nat /\ Len(runs') \in Nat
      /\ Len(runs') >= Len(runs)
      /\ \A d \in calls : d.run \in 1..Len(runs)
  BY OldRunsAreRuns
<1>2. \A i \in 1..Len(runs) :
          /\ runs'[i].room = runs[i].room
          /\ runs'[i].scenario = runs[i].scenario
          /\ runs'[i].jobs = runs[i].jobs
  BY DEF OldRunsStay
<1>3. \A d \in calls : /\ Advances(d)' <=> Advances(d)
                       /\ RoomOf(d)' = RoomOf(d)
                       /\ runs'[d.run].jobs = runs[d.run].jobs
  BY <1>1, <1>2 DEF Advances, RoomOf
<1>4. AdvancedAlone'
  <2>1. \A d \in calls : Advances(d)' =>
            RoomOf(d)' \in advancing /\ runs'[d.run].jobs # {}
    BY <1>3 DEF BotInv, AdvancedAlone
  <2>2. \A d \in S : Advances(d)' =>
            /\ RoomOf(d)' \in advancing' \ advancing
            /\ runs'[d.run].jobs # {} /\ d.step # "health"
            /\ d.kind = "get"
    BY DEF MayBegin, Advances, RoomOf
  <2>3. \A d, e \in calls' :
            Advances(d)' /\ Advances(e)' /\ RoomOf(d)' = RoomOf(e)' => d = e
    <3> SUFFICES ASSUME NEW d \in calls', NEW e \in calls',
                        Advances(d)', Advances(e)', RoomOf(d)' = RoomOf(e)'
                 PROVE  d = e
      OBVIOUS
    <3>1. CASE d \in S /\ e \in S
      BY <2>2, <3>1 DEF RoomOf
    <3>2. CASE d \in calls /\ e \in calls
      BY <1>3, <3>2 DEF BotInv, AdvancedAlone
    <3> QED BY <2>1, <2>2, <3>1, <3>2
  <2> QED BY <2>1, <2>2, <2>3 DEF AdvancedAlone
<1>5. StartedOnce'
  <2>1. \A d \in calls' : d.kind = "start" => runs'[d.run].jobs = {}
    BY <1>3 DEF BotInv, StartedOnce, MayBegin
  <2>2. \A d, e \in calls' :
            d.kind = "start" /\ e.kind = "start" /\ d.run = e.run => d = e
    BY <1>1 DEF BotInv, StartedOnce, MayBegin
  <2> QED BY <2>1, <2>2 DEF StartedOnce
<1>6. CallSteps'
  <2> SUFFICES ASSUME NEW d \in calls'
               PROVE  /\ d.step = "job" => d.kind = "get"
                      /\ d.step \in {"request", "cleanup"} /\ d.kind = "get"
                            => Advances(d)'
                      /\ d.step = "request"
                            => d.kind # "recover" /\ d.jobs = runs'[d.run].jobs
                      /\ d.job # 0 => /\ d.step = "request"
                                      /\ d.job \in DOMAIN botJobs'
                                      /\ botJobs'[d.job].run = d.run
    BY DEF CallSteps
  <2>1. CASE d \in S
    BY <2>1 DEF MayBegin
  <2>2. CASE d \in calls
    <3>1. DOMAIN botJobs \subseteq DOMAIN botJobs'
      BY BotJobFields DEF BotJobsStay
    <3>2. \A j \in DOMAIN botJobs : botJobs'[j].run = botJobs[j].run
      BY <3>1 DEF BotJobsStay
    <3> QED BY <1>3, <2>2, <3>1, <3>2 DEF BotInv, CallSteps
  <2> QED BY <2>1, <2>2
<1>7. JobsKept'
  <2> SUFFICES ASSUME NEW j \in DOMAIN botJobs'
               PROVE  /\ botJobs'[j].run \in DOMAIN runs'
                      /\ botJobs'[j].answered
                            => j \in runs'[botJobs'[j].run].jobs
    BY DEF JobsKept
  <2>1. CASE j \in DOMAIN botJobs
    <3>1. /\ botJobs'[j].run = botJobs[j].run
          /\ botJobs'[j].answered = botJobs[j].answered
          /\ botJobs[j].run \in 1..Len(runs)
      BY <1>1, <2>1 DEF BotJobsStay, BotInv, JobsKept
    <3> QED BY <1>1, <1>2, <2>1, <3>1 DEF BotInv, JobsKept
  <2>2. CASE j \notin DOMAIN botJobs
    BY <1>1, <2>2 DEF BotJobsStay
  <2> QED BY <2>1, <2>2
<1> QED BY <1>4, <1>5, <1>6, <1>7 DEF BotInv

LEMMA BotsStayWithOne ==
    ASSUME Typed, BotInv, OldRunsStay, BotJobsStay,
           advancing \subseteq advancing',
           NEW c, calls' = calls \cup {c}, MayBegin(c), c.step # "health"
    PROVE  BotInv'
<1> DEFINE S == {c}
<1>1. \A d, e \in S : d = e
  OBVIOUS
<1>2. calls' = calls \cup S /\ \A d \in S : MayBegin(d) /\ d.step # "health"
  OBVIOUS
<1> HIDE DEF S
<1> QED BY <1>1, <1>2, BotsStay

LEMMA BotsStayAlone ==
    ASSUME Typed, BotInv, OldRunsStay, BotJobsStay,
           UNCHANGED <<advancing, calls>>
    PROVE  BotInv'
<1> DEFINE S == {}
<1>1. calls' = calls \cup S /\ \A d \in S : FALSE
  OBVIOUS
<1> HIDE DEF S
<1> QED BY <1>1, BotsStay

LEMMA RunIsAdded ==
    ASSUME Typed, NEW run \in Run, runs' = Append(runs, run)
    PROVE  /\ OldRunsStay /\ Len(runs') = Len(runs) + 1
           /\ runs'[Len(runs) + 1] = run
<1>1. runs \in Seq(Run) /\ DOMAIN runs = 1..Len(runs) /\ Len(runs) \in Nat
  BY RunFields DEF Typed
<1>2. /\ runs' \in Seq(Run) /\ Len(runs') = Len(runs) + 1
      /\ \A i \in 1..Len(runs) : runs'[i] = runs[i]
      /\ runs'[Len(runs) + 1] = run
  BY <1>1
<1> QED BY <1>2 DEF OldRunsStay

LEMMA LoadIsReplaced ==
    ASSUME Typed, NEW j \in DOMAIN loads, NEW load \in Load,
           load.room = loads[j].room, loads' = [loads EXCEPT ![j] = load]
    PROVE  /\ LoadsStay /\ Len(loads') = Len(loads)
           /\ \A k \in DOMAIN loads :
                 loads'[k] = IF k = j THEN load ELSE loads[k]
<1>1. loads \in Seq(Load) /\ DOMAIN loads = 1..Len(loads) /\ Len(loads) \in Nat
  BY LoadFields DEF Typed
<1>2. /\ loads' \in Seq(Load) /\ Len(loads') = Len(loads)
      /\ \A k \in DOMAIN loads : loads'[k] = IF k = j THEN load ELSE loads[k]
  BY <1>1, Replaced
<1> QED BY <1>1, <1>2 DEF LoadsStay

LEMMA LoadIsAdded ==
    ASSUME Typed, NEW load \in Load, loads' = Append(loads, load)
    PROVE  /\ LoadsStay /\ Len(loads') = Len(loads) + 1
           /\ DOMAIN loads' = 1..Len(loads) + 1
           /\ \A k \in DOMAIN loads : loads'[k] = loads[k]
           /\ loads'[Len(loads) + 1] = load
<1>1. loads \in Seq(Load) /\ DOMAIN loads = 1..Len(loads) /\ Len(loads) \in Nat
  BY LoadFields DEF Typed
<1>2. /\ loads' \in Seq(Load) /\ Len(loads') = Len(loads) + 1
      /\ \A k \in 1..Len(loads) : loads'[k] = loads[k]
      /\ loads'[Len(loads) + 1] = load
  BY <1>1
<1>3. DOMAIN loads' = 1..Len(loads) + 1
  BY <1>1, <1>2
<1> QED BY <1>1, <1>2, <1>3 DEF LoadsStay

LEMMA LoadsUnchanged ==
    ASSUME Typed, StormInv, UNCHANGED loadVars
    PROVE  LoadsStay /\ OneLoad'
  BY LoadFields DEF Typed, LoadsStay, StormInv, OneLoad, Ended, loadVars

LEMMA StartKeepsIInv ==
    ASSUME IInv, NEW r \in Room, NEW s \in Scenario, Start(r, s)
    PROVE  IInv'
<1> DEFINE run == NewRun(r, s)
           c == NewCall("start", Len(runs) + 1, FirstStep(s))
<1>1. Typed /\ StormInv /\ BotInv
  BY DEF IInv
<1>2. /\ s # "admission-storm" /\ requests < MaxRequests
      /\ requests' = requests + 1
      /\ runs' = Append(runs, run)
      /\ activeRuns' = [activeRuns EXCEPT ![r] = Len(runs) + 1]
      /\ calls' = calls \cup {c}
      /\ UNCHANGED <<advancing, unswept, loadVars, botJobs, faults>>
  BY DEF Start, Requested
<1>3. run \in Run /\ run.room = r /\ run.scenario = s /\ run.jobs = {}
  BY DEF NewRun, Run, Status
<1>4. /\ c.kind = "start" /\ c.run = Len(runs) + 1 /\ c.job = 0 /\ c.jobs = {}
      /\ c.step \in {"call", "request"}
      /\ c = [kind |-> "start", run |-> Len(runs) + 1, step |-> FirstStep(s),
              job |-> 0, jobs |-> {}, get |-> 0, phase |-> None]
      /\ FirstStep(s) \in {"call", "request"}
  BY DEF NewCall, FirstStep
<1>5. /\ Len(runs) \in Nat /\ Len(runs) <= requests
      /\ requests \in Nat /\ MaxRequests \in Nat
  BY <1>1, RunFields DEF Typed
<1>6. c \in Call
  BY <1>2, <1>4, <1>5 DEF Call, Id
<1> HIDE DEF run, c
<1>7. /\ OldRunsStay /\ Len(runs') = Len(runs) + 1
      /\ runs'[Len(runs) + 1] = run
  BY <1>1, <1>2, <1>3, RunIsAdded
<1>8. Typed'
  <2>1. requests' \in 0..MaxRequests /\ Len(runs') <= requests'
    BY <1>2, <1>5, <1>7
  <2>2. activeRuns' \in [Room -> 0..Len(runs')]
    BY <1>1, <1>2, <1>5, <1>7 DEF Typed
  <2>3. calls' \subseteq Call /\ \A d \in calls' : d.run \in 1..Len(runs')
    <3>1. \A d \in calls : d \in Call /\ d.run \in 1..Len(runs')
      BY <1>1, <1>5, <1>7, RunFields
    <3>2. c.run \in 1..Len(runs')
      BY <1>4, <1>5, <1>7
    <3> QED BY <1>2, <1>6, <3>1, <3>2
  <2> QED BY <1>1, <1>2, <1>7, <2>1, <2>2, <2>3
          DEF Typed, OldRunsStay, loadVars
<1>9. StormInv'
  <2>1. ActiveMoves
    BY <1>1, <1>2, <1>3, <1>7 DEF ActiveMoves, Typed
  <2>2. NoNewStorm
    BY <1>2, <1>3, <1>7 DEF NoNewStorm
  <2>3. \A d \in calls' \ calls :
           /\ d.run \in 1..Len(runs')
           /\ runs'[d.run].scenario = "admission-storm" <=> d.step = "health"
    BY <1>2, <1>3, <1>4, <1>5, <1>7
  <2> QED BY <1>1, <1>2, <1>7, <2>1, <2>2, <2>3, LoadsUnchanged, StormsStay
<1>10. BotInv'
  <2>1. MayBegin(c)
    BY <1>3, <1>4, <1>5, <1>7 DEF MayBegin
  <2>2. BotJobsStay /\ advancing \subseteq advancing'
    BY <1>1, <1>2, BotJobsUnchanged
  <2>3. c.step # "health"
    BY <1>4
  <2> QED BY <1>1, <1>2, <1>7, <2>1, <2>2, <2>3, BotsStayWithOne
<1> QED BY <1>8, <1>9, <1>10 DEF IInv

LEMMA StartStormKeepsIInv ==
    ASSUME IInv, NEW r \in Room, StartStorm(r)
    PROVE  IInv'
<1> DEFINE run == [NewRun(r, "admission-storm") EXCEPT
                      !.status = "active", !.job = StartedLoad(r)]
           load == [room |-> r, phase |-> "ramping", sent |-> 0, samples |-> 0]
<1> USE DEF IsStorm
<1>1. Typed /\ StormInv /\ BotInv
  BY DEF IInv
<1>2. /\ "admission-storm" \in Scenario
      /\ requests < MaxRequests /\ requests' = requests + 1
      /\ ~StormElsewhere(r) /\ ~LoadRefused(r)
      /\ runs' = Append(runs, run)
      /\ activeRuns' = [activeRuns EXCEPT ![r] = Len(runs) + 1]
      /\ StartLoad(r)
      /\ UNCHANGED <<calls, advancing, unswept, botJobs, faults>>
  BY DEF StartStorm, Requested
<1>3. /\ Len(runs) \in Nat /\ Len(runs) <= requests
      /\ requests \in Nat /\ MaxRequests \in Nat
      /\ DOMAIN runs = 1..Len(runs)
      /\ DOMAIN loads = 1..Len(loads) /\ Len(loads) \in Nat
      /\ activeJobId \in 0..Len(loads)
  BY <1>1, RunFields, LoadFields DEF Typed
\* The load of the storm is one of this room, whether it is new or not.
<1>4. /\ LoadsStay /\ OneLoad' /\ activeJobId' = StartedLoad(r)
      /\ StartedLoad(r) \in DOMAIN loads' /\ loads'[StartedLoad(r)].room = r
      /\ DOMAIN loads' = 1..Len(loads') /\ Len(loads') \in Nat
  <2>1. CASE activeJobId \in Alive
    <3>1. /\ UNCHANGED <<loads, activeJobId>> /\ StartedLoad(r) = activeJobId
      BY <1>2, <2>1 DEF StartLoad, StartedLoad
    <3>2. activeJobId \in DOMAIN loads /\ loads[activeJobId].room = r
      BY <1>2, <2>1 DEF Alive, LoadRefused
    <3> QED BY <1>1, <1>3, <3>1, <3>2, LoadsUnchanged DEF loadVars
  <2>2. CASE activeJobId \notin Alive
    <3>1. /\ loads' = Append(loads, load) /\ activeJobId' = Len(loads) + 1
          /\ StartedLoad(r) = Len(loads) + 1
      BY <2>2, <1>2 DEF StartLoad, StartedLoad
    <3>2. load \in Load /\ load.room = r
      BY DEF Load
    <3> HIDE DEF load
    <3>3. /\ LoadsStay /\ DOMAIN loads' = 1..Len(loads) + 1
          /\ Len(loads') = Len(loads) + 1
          /\ \A k \in DOMAIN loads : loads'[k] = loads[k]
          /\ loads'[Len(loads) + 1] = load
      BY <1>1, <3>1, <3>2, LoadIsAdded
    <3>4. \A k \in DOMAIN loads : Ended(loads[k])
      BY <1>1, <2>2 DEF StormInv, OneLoad, Alive
    <3>5. \A k \in DOMAIN loads' : k \in DOMAIN loads \/ k = Len(loads) + 1
      BY <1>3, <3>3
    <3>6. OneLoad'
      BY <3>1, <3>3, <3>4, <3>5 DEF OneLoad, Ended
    <3>7. Len(loads) + 1 \in 1..Len(loads) + 1
      BY <1>3
    <3> QED BY <1>3, <3>1, <3>2, <3>3, <3>6, <3>7
  <2> QED BY <2>1, <2>2
<1>5. /\ run \in Run /\ run.room = r /\ run.scenario = "admission-storm"
      /\ run.job = StartedLoad(r) /\ run.jobs = {}
  <2>1. StartedLoad(r) \in Nat
    BY <1>4
  <2> QED BY <1>2, <2>1 DEF NewRun, Run, Status
<1> HIDE DEF run, load
<1>6. /\ OldRunsStay /\ Len(runs') = Len(runs) + 1
      /\ runs'[Len(runs) + 1] = run
  BY <1>1, <1>2, <1>5, RunIsAdded
<1>7. Typed'
  <2>1. requests' \in 0..MaxRequests /\ Len(runs') <= requests'
    BY <1>2, <1>3, <1>6
  <2>2. activeRuns' \in [Room -> 0..Len(runs')]
    BY <1>1, <1>2, <1>3, <1>6 DEF Typed
  <2>3. calls' \subseteq Call /\ \A d \in calls' : d.run \in 1..Len(runs')
    BY <1>1, <1>2, <1>3, <1>6 DEF Typed
  <2>4. loads' \in Seq(Load) /\ activeJobId' \in 0..Len(loads')
    BY <1>4 DEF LoadsStay
  <2> QED BY <1>1, <1>2, <1>6, <2>1, <2>2, <2>3, <2>4
          DEF Typed, OldRunsStay
<1>8. PICK n \in Nat : /\ n = Len(runs) /\ DOMAIN runs = 1..n
                       /\ DOMAIN runs' = 1..n + 1 /\ runs'[n + 1] = run
                       /\ \A d \in calls : d.run \in 1..n
                       /\ \A q \in Room : activeRuns[q] \in 0..n
                       /\ activeRuns' = [activeRuns EXCEPT ![r] = n + 1]
  <2>1. DOMAIN runs' = 1..Len(runs')
    BY <1>6 DEF OldRunsStay
  <2>2. DOMAIN runs' = 1..Len(runs) + 1
    BY <1>6, <2>1
  <2>3. /\ \A d \in calls : d.run \in 1..Len(runs)
        /\ \A q \in Room : activeRuns[q] \in 0..Len(runs)
    BY <1>1 DEF Typed
  <2> QED BY <1>2, <1>3, <1>6, <2>2, <2>3
<1>9. \A i \in 1..n : /\ runs'[i].room = runs[i].room
                      /\ runs'[i].scenario = runs[i].scenario
                      /\ runs'[i].job = runs[i].job
  BY <1>6, <1>8 DEF OldRunsStay
<1>10. /\ \A q \in Room \ {r} : activeRuns'[q] = activeRuns[q]
       /\ activeRuns'[r] = n + 1
  BY <1>1, <1>8 DEF Typed
<1>11. RunsOfTheirRooms'
  BY <1>1, <1>5, <1>8, <1>9, <1>10 DEF StormInv, RunsOfTheirRooms
<1>12. StormsHaveLoads'
  <2> SUFFICES ASSUME NEW i \in 1..n + 1,
                      runs'[i].scenario = "admission-storm"
               PROVE  /\ runs'[i].job \in DOMAIN loads'
                      /\ loads'[runs'[i].job].room = runs'[i].room
    BY <1>8 DEF StormsHaveLoads
  <2>1. CASE i = n + 1
    BY <1>4, <1>5, <1>8, <2>1
  <2>2. CASE i # n + 1
    <3>1. i \in 1..n
      BY <2>2
    <3>2. /\ runs[i].job \in 1..Len(loads)
          /\ loads[runs[i].job].room = runs[i].room
      BY <1>1, <1>3, <1>8, <1>9, <3>1 DEF StormInv, StormsHaveLoads
    <3>3. runs[i].job \in DOMAIN loads'
      BY <1>3, <1>4, <3>2 DEF LoadsStay
    <3>4. loads'[runs[i].job].room = loads[runs[i].job].room
      BY <1>4, <3>2 DEF LoadsStay
    <3> QED BY <1>9, <3>1, <3>2, <3>3, <3>4
  <2> QED BY <2>1, <2>2
<1>13. OnlyHealthOfStorms'
  BY <1>1, <1>2, <1>8, <1>9 DEF StormInv, OnlyHealthOfStorms
<1>14. OneStormRoom'
  <2>1. ASSUME NEW q \in Room \ {r}, activeRuns'[q] # 0,
               runs'[activeRuns'[q]].scenario = "admission-storm"
        PROVE  FALSE
    <3>1. activeRuns[q] \in 1..n
          /\ runs[activeRuns[q]].scenario = "admission-storm"
      BY <1>8, <1>9, <1>10, <2>1
    <3> QED BY <1>2, <1>8, <3>1 DEF StormElsewhere, HasRun
  <2> QED BY <2>1 DEF OneStormRoom
<1>15. BotInv'
  <2>1. BotJobsStay /\ UNCHANGED <<advancing, calls>>
    BY <1>1, <1>2, BotJobsUnchanged
  <2> QED BY <1>1, <1>6, <2>1, BotsStayAlone
<1> QED BY <1>4, <1>7, <1>11, <1>12, <1>13, <1>14, <1>15 DEF IInv, StormInv

LEMMA GetStateKeepsIInv ==
    ASSUME IInv, GetState PROVE IInv'
<1> DEFINE Get(r, step) == [NewCall("get", activeRuns[r], step) EXCEPT
                               !.get = requests + 1]
           bots == {r \in Room : HasRun(r, {"malicious-input"})} \cup Surging
           waiting == {r \in Surging : ~Polled(activeRuns[r])}
           J == {Get(r, "job") : r \in {b \in bots : Polled(activeRuns[b])}}
           H == {[Get(r, "health") EXCEPT
                     !.phase = loads[runs[activeRuns[r]].job].phase] :
                 r \in {q \in Room : HasRun(q, {"admission-storm"})}}
           S == J \cup H
           shown == [i \in DOMAIN runs |->
                        IF \E r \in waiting : activeRuns[r] = i
                        THEN [runs[i] EXCEPT !.holding = TRUE,
                                             !.status = "active"]
                        ELSE runs[i]]
<1>1. Typed /\ StormInv /\ BotInv
  BY DEF IInv
<1>2. /\ requests < MaxRequests /\ requests' = requests + 1
      /\ unswept' = unswept \cup {requests'}
      /\ calls' = calls \cup J \cup H
      /\ runs' = shown
      /\ advancing' = advancing \cup (Surging \ waiting)
      /\ UNCHANGED <<activeRuns, loadVars, botJobs, faults>>
  BY DEF GetState, Requested
<1>3. /\ Len(runs) \in Nat /\ Len(runs) <= requests
      /\ requests \in Nat /\ MaxRequests \in Nat
      /\ DOMAIN runs = 1..Len(runs) /\ runs \in Seq(Run)
  BY <1>1, RunFields DEF Typed
\* The runs are only shown as held.
<1>4. OldRunsStay /\ Len(runs') = Len(runs)
  <2>1. \A i \in DOMAIN runs :
           /\ shown[i] \in Run
           /\ shown[i].room = runs[i].room
           /\ shown[i].scenario = runs[i].scenario
           /\ shown[i].job = runs[i].job /\ shown[i].jobs = runs[i].jobs
    <3> SUFFICES ASSUME NEW i \in DOMAIN runs
                 PROVE  /\ shown[i] \in Run
                        /\ shown[i].room = runs[i].room
                        /\ shown[i].scenario = runs[i].scenario
                        /\ shown[i].job = runs[i].job
                        /\ shown[i].jobs = runs[i].jobs
      OBVIOUS
    <3>1. runs[i] \in Run
      BY <1>3
    <3>2. shown[i] \in {runs[i], [runs[i] EXCEPT !.holding = TRUE,
                                                !.status = "active"]}
      OBVIOUS
    <3> HIDE DEF shown
    <3> QED BY <3>1, <3>2 DEF Run, Status
  <2>2. shown \in [DOMAIN runs -> Run]
    BY <2>1
  <2> HIDE DEF shown
  <2>3. shown \in Seq(Run) /\ Len(shown) = Len(runs)
    BY <1>3, <2>2, Mapped
  <2> QED BY <1>2, <1>3, <2>1, <2>3 DEF OldRunsStay
<1> HIDE DEF shown
<1>5. \A i \in 1..Len(runs) : /\ runs'[i].room = runs[i].room
                              /\ runs'[i].scenario = runs[i].scenario
                              /\ runs'[i].jobs = runs[i].jobs
  BY <1>4 DEF OldRunsStay
<1>6. \A r \in Room : activeRuns[r] \in 1..Len(runs)
                         => runs[activeRuns[r]].room = r
  BY <1>1, <1>3 DEF StormInv, RunsOfTheirRooms
<1>7. ASSUME NEW d \in J
      PROVE  \E r \in Room :
                /\ d = Get(r, "job")
                /\ activeRuns[r] \in 1..Len(runs) /\ Polled(activeRuns[r])
                /\ \/ runs[activeRuns[r]].scenario = "malicious-input"
                   \/ /\ runs[activeRuns[r]].scenario = "bot-surge"
                      /\ r \in Surging \ waiting /\ r \notin advancing
  BY <1>3 DEF Surging, HasRun, MayAdvance
<1>8. ASSUME NEW d \in H
      PROVE  \E r \in Room :
                /\ d = [Get(r, "health") EXCEPT
                           !.phase = loads[runs[activeRuns[r]].job].phase]
                /\ activeRuns[r] \in 1..Len(runs)
                /\ runs[activeRuns[r]].scenario = "admission-storm"
  BY <1>3 DEF HasRun
<1>9. \A r \in Room : \A step :
         Get(r, step) = [kind |-> "get", run |-> activeRuns[r], step |-> step,
                         job |-> 0, jobs |-> {}, get |-> requests + 1,
                         phase |-> None]
  BY DEF NewCall
<1>10. /\ requests + 1 \in 1..MaxRequests /\ requests + 1 \in 0..MaxRequests
       /\ 1..Len(runs) \subseteq Id
  <2>1. requests < MaxRequests
    BY DEF GetState, Requested
  <2> QED BY <1>3, <2>1 DEF Id
<1>11. ASSUME NEW d \in J
       PROVE  /\ d \in Call /\ d.run \in 1..Len(runs)
              /\ d.step = "job" /\ d.kind = "get" /\ d.job = 0
              /\ runs[d.run].scenario # "admission-storm"
              /\ runs[d.run].jobs # {}
              /\ runs[d.run].scenario = "bot-surge"
                    => runs[d.run].room \in advancing' \ advancing
              /\ d = Get(runs[d.run].room, "job")
  <2>1. PICK r \in Room :
           /\ d = Get(r, "job")
           /\ activeRuns[r] \in 1..Len(runs) /\ Polled(activeRuns[r])
           /\ \/ runs[activeRuns[r]].scenario = "malicious-input"
              \/ /\ runs[activeRuns[r]].scenario = "bot-surge"
                 /\ r \in Surging \ waiting /\ r \notin advancing
    BY <1>7
  <2>2. d = [kind |-> "get", run |-> activeRuns[r], step |-> "job",
             job |-> 0, jobs |-> {}, get |-> requests + 1, phase |-> None]
    BY <1>9, <2>1
  <2> HIDE DEF Get, J, H, waiting, bots
  <2>3. activeRuns[r] \in Id /\ requests + 1 \in 0..MaxRequests
    BY <1>10, <2>1
  <2>5. d \in Call
    BY <2>2, <2>3 DEF Call
  <2>6. d.run = activeRuns[r] /\ runs[d.run].room = r
    BY <1>6, <2>1, <2>2
  <2>7. runs[d.run].jobs # {}
    BY <2>1, <2>6 DEF Polled
  <2> QED BY <1>2, <2>1, <2>2, <2>5, <2>6, <2>7
<1>12. ASSUME NEW d \in H
       PROVE  /\ d \in Call /\ d.run \in 1..Len(runs)
              /\ d.step = "health" /\ d.kind = "get" /\ d.job = 0
              /\ runs[d.run].scenario = "admission-storm"
  <2>1. PICK r \in Room :
           /\ d = [Get(r, "health") EXCEPT
                      !.phase = loads[runs[activeRuns[r]].job].phase]
           /\ activeRuns[r] \in 1..Len(runs)
           /\ runs[activeRuns[r]].scenario = "admission-storm"
    BY <1>8
  <2> DEFINE phase == loads[runs[activeRuns[r]].job].phase
  <2>2. Get(r, "health") =
            [kind |-> "get", run |-> activeRuns[r], step |-> "health",
             job |-> 0, jobs |-> {}, get |-> requests + 1, phase |-> None]
    BY <1>9
  <2>3. d = [kind |-> "get", run |-> activeRuns[r], step |-> "health",
             job |-> 0, jobs |-> {}, get |-> requests + 1, phase |-> phase]
    BY <2>1, <2>2
  <2>4. runs[activeRuns[r]].job \in DOMAIN loads
    BY <1>1, <1>3, <2>1 DEF StormInv, StormsHaveLoads, IsStorm
  <2>5. phase \in {"ramping", "saturated", "stopped", "safety_timeout"}
    BY <1>1, <2>4, LoadFields DEF Load
  <2> HIDE DEF phase, Get, J, H
  <2>6. activeRuns[r] \in Id /\ requests + 1 \in 0..MaxRequests
    BY <1>10, <2>1
  <2>8. d \in Call
    BY <2>3, <2>5, <2>6 DEF Call
  <2> QED BY <2>1, <2>3, <2>8
<1> HIDE DEF J, H, Get
<1>13. Typed'
  <2>1. requests' \in 0..MaxRequests /\ Len(runs') <= requests'
    BY <1>2, <1>3, <1>4
  <2>2. activeRuns' \in [Room -> 0..Len(runs')]
    BY <1>1, <1>2, <1>4 DEF Typed
  <2>3. calls' \subseteq Call /\ \A d \in calls' : d.run \in 1..Len(runs')
    BY <1>1, <1>2, <1>4, <1>11, <1>12 DEF Typed
  <2>4. advancing' \subseteq Room /\ unswept' \subseteq Id
    BY <1>1, <1>2, <1>10 DEF Typed, Surging, Id
  <2> QED BY <1>1, <1>2, <1>4, <2>1, <2>2, <2>3, <2>4
          DEF Typed, OldRunsStay, loadVars
<1>14. StormInv'
  <2>1. ActiveMoves
    BY <1>2 DEF ActiveMoves
  <2>2. NoNewStorm
    BY <1>3, <1>4 DEF NoNewStorm
  <2>3. \A d \in calls' \ calls :
           /\ d.run \in 1..Len(runs')
           /\ runs'[d.run].scenario = "admission-storm" <=> d.step = "health"
    BY <1>2, <1>4, <1>5, <1>11, <1>12
  <2> QED BY <1>1, <1>2, <1>4, <2>1, <2>2, <2>3, LoadsUnchanged, StormsStay
<1>15. BotInv'
  <2>1. BotJobsStay /\ advancing \subseteq advancing'
    BY <1>1, <1>2, BotJobsUnchanged
  <2>2. calls' = calls \cup S
    BY <1>2
  <2>3. \A d \in S : /\ MayBegin(d)
                     /\ runs'[d.run].scenario = "bot-surge"
                           => d.step # "health"
    <3> SUFFICES ASSUME NEW d \in S
                 PROVE  /\ MayBegin(d)
                        /\ runs'[d.run].scenario = "bot-surge"
                              => d.step # "health"
      OBVIOUS
    <3>1. CASE d \in J
      BY <1>4, <1>5, <1>11, <3>1 DEF MayBegin
    <3>2. CASE d \in H
      BY <1>4, <1>5, <1>12, <3>2 DEF MayBegin
    <3> QED BY <3>1, <3>2
  <2>4. \A d, e \in S : /\ d.kind = "start" /\ e.kind = "start" => d = e
                        /\ d.kind = "get" /\ e.kind = "get"
                           /\ d.step # "health" /\ e.step # "health"
                           /\ runs'[d.run].room = runs'[e.run].room => d = e
    BY <1>5, <1>11, <1>12
  <2> HIDE DEF S
  <2> QED BY <1>1, <1>4, <2>1, <2>2, <2>3, <2>4, BotsStay
<1> QED BY <1>13, <1>14, <1>15 DEF IInv

-----------------------------------------------------------------------------

LEMMA RecoverKeepsIInv ==
    ASSUME IInv, NEW r \in Room, Recover(r) PROVE IInv'
<1> DEFINE i == activeRuns[r]
           c == NewCall("recover", i, "call")
<1>1. Typed /\ StormInv /\ BotInv
  BY DEF IInv
<1>2. /\ requests < MaxRequests /\ requests' = requests + 1
      /\ HasRun(r, Plain \cup WithBots)
      /\ runs' = [runs EXCEPT ![i].status = "recovering"]
      /\ \/ activeRuns' = Cleared(r) /\ UNCHANGED calls
         \/ /\ calls' = calls \cup {c} \/ calls' = calls \cup {Cleanup(c, i)}
            /\ UNCHANGED activeRuns
      /\ UNCHANGED <<advancing, unswept, loadVars, botJobs, faults>>
  BY DEF Recover, Requested
<1>3. /\ Len(runs) \in Nat /\ Len(runs) <= requests
      /\ requests \in Nat /\ MaxRequests \in Nat
      /\ DOMAIN runs = 1..Len(runs)
  BY <1>1, RunFields DEF Typed
<1>4. /\ i \in 1..Len(runs) /\ runs[i].scenario # "admission-storm"
      /\ runs[i].jobs \subseteq Nat
  BY <1>1, <1>2, <1>3, RunFields DEF HasRun, Plain, WithBots
<1>5. OldRunsStay /\ Len(runs') = Len(runs)
  BY <1>1, <1>2, <1>4, StatusIsSet DEF Status, RunsStay
<1>6. c = [kind |-> "recover", run |-> i, step |-> "call", job |-> 0,
           jobs |-> {}, get |-> 0, phase |-> None]
  BY DEF NewCall
<1> HIDE DEF i, c
<1>8. PICK d \in Call : /\ UNCHANGED calls \/ calls' = calls \cup {d}
                        /\ d.kind = "recover" /\ d.run = i /\ d.job = 0
                        /\ d.step \in {"call", "cleanup"}
  <2>1. i \in Id /\ 0 \in 0..MaxRequests
    <3>1. Len(runs) <= MaxRequests
      BY <1>2, <1>3
    <3> QED BY <1>3, <1>4, <3>1 DEF Id
  <2>2. /\ c \in Call /\ c.kind = "recover" /\ c.run = i /\ c.job = 0
        /\ c.step = "call"
    BY <1>6, <2>1 DEF Call
  <2>3. LET d == Cleanup(c, i)
        IN  /\ d \in Call /\ d.kind = "recover" /\ d.run = i /\ d.job = 0
            /\ d.step = "cleanup"
    BY <1>4, <2>2 DEF Call, Cleanup
  <2> QED BY <1>2, <2>2, <2>3
<1>9. runs'[i].scenario # "admission-storm"
  BY <1>4, <1>5 DEF OldRunsStay
<1>10. /\ activeRuns \in [Room -> 0..Len(runs)]
       /\ \/ UNCHANGED activeRuns
          \/ activeRuns' = [activeRuns EXCEPT ![r] = 0]
  BY <1>1, <1>2 DEF Cleared, Typed
<1>11. Typed'
  <2>1. requests' \in 0..MaxRequests /\ Len(runs') <= requests'
    BY <1>2, <1>3, <1>5
  <2>2. activeRuns' \in [Room -> 0..Len(runs')]
    BY <1>3, <1>5, <1>10
  <2>3. calls' \subseteq Call /\ \A e \in calls' : e.run \in 1..Len(runs')
    BY <1>1, <1>4, <1>5, <1>8 DEF Typed
  <2> QED BY <1>1, <1>2, <1>5, <2>1, <2>2, <2>3
          DEF Typed, OldRunsStay, loadVars
<1>12. StormInv'
  <2>1. ActiveMoves
    BY <1>10 DEF ActiveMoves
  <2>2. NoNewStorm
    BY <1>3, <1>5 DEF NoNewStorm
  <2>3. \A e \in calls' \ calls :
           /\ e.run \in 1..Len(runs')
           /\ runs'[e.run].scenario = "admission-storm" <=> e.step = "health"
    BY <1>4, <1>5, <1>8, <1>9
  <2> QED BY <1>1, <1>2, <1>5, <2>1, <2>2, <2>3, LoadsUnchanged, StormsStay
<1>13. BotInv'
  <2>1. BotJobsStay /\ UNCHANGED advancing
    BY <1>1, <1>2, BotJobsUnchanged
  <2>2. MayBegin(d) /\ d.step # "health"
    BY <1>4, <1>5, <1>8 DEF MayBegin
  <2>3. CASE UNCHANGED calls
    BY <1>1, <1>5, <2>1, <2>3, BotsStayAlone
  <2>4. CASE calls' = calls \cup {d}
    BY <1>1, <1>5, <2>1, <2>2, <2>4, BotsStayWithOne
  <2> QED BY <1>8, <2>3, <2>4
<1> QED BY <1>11, <1>12, <1>13 DEF IInv

\* No run, call or bot job begins: rooms only lose their runs.
LEMMA ClearingKeepsIInv ==
    ASSUME IInv,
           \/ \E r \in Room : StormRefused(r)
           \/ \E g \in unswept : Sweep(g)
    PROVE  IInv'
<1>1. Typed /\ StormInv /\ BotInv
  BY DEF IInv
<1>2. /\ UNCHANGED <<runs, calls, advancing, loadVars, botJobs, faults>>
      /\ requests' \in 0..MaxRequests /\ requests' >= requests
      /\ unswept' \subseteq Id
      /\ activeRuns' \in [Room -> 0..Len(runs)]
      /\ \A r \in Room : activeRuns'[r] \in {activeRuns[r], 0}
  <2>1. ASSUME NEW r \in Room, StormRefused(r) PROVE <1>2
    BY <1>1, <2>1, RunFields DEF StormRefused, Requested, Typed
  <2>2. ASSUME NEW g \in unswept, Sweep(g) PROVE <1>2
    BY <1>1, <2>2, RunFields DEF Sweep, Typed
  <2> QED BY <2>1, <2>2
<1>3. OldRunsStay /\ Len(runs') = Len(runs) /\ Len(runs) \in Nat
  BY <1>1, <1>2, RunsUnchanged, RunFields
<1>4. Typed'
  BY <1>1, <1>2, RunFields DEF Typed, loadVars
<1>5. StormInv'
  <2>1. ActiveMoves
    BY <1>2 DEF ActiveMoves
  <2>2. NoNewStorm
    BY <1>3 DEF NoNewStorm
  <2> QED BY <1>1, <1>2, <1>3, <2>1, <2>2, LoadsUnchanged, StormsStay
<1>6. BotInv'
  BY <1>1, <1>2, <1>3, BotJobsUnchanged, BotsStayAlone
<1> QED BY <1>4, <1>5, <1>6 DEF IInv

\* The load j takes a step that leaves it in its room.
LEMMA LoadStepKeepsOneLoad ==
    ASSUME Typed, StormInv, NEW j \in DOMAIN loads, NEW load \in Load,
           load.room = loads[j].room, loads' = [loads EXCEPT ![j] = load],
           \/ UNCHANGED activeJobId /\ (Ended(loads[j]) => Ended(load))
           \/ activeJobId' = Unless(j) /\ Ended(load)
    PROVE  /\ LoadsStay /\ OneLoad' /\ loads' \in Seq(Load)
           /\ activeJobId' \in 0..Len(loads') /\ Len(loads') = Len(loads)
<1>1. /\ LoadsStay /\ Len(loads') = Len(loads)
      /\ \A k \in DOMAIN loads : loads'[k] = IF k = j THEN load ELSE loads[k]
  BY LoadIsReplaced
<1>2. \A k \in DOMAIN loads : Ended(loads[k]) \/ k = activeJobId
  BY DEF StormInv, OneLoad
<1>3. DOMAIN loads' = DOMAIN loads
  OBVIOUS
<1>4. OneLoad'
  <2> SUFFICES ASSUME NEW k \in DOMAIN loads
               PROVE  Ended(loads'[k]) \/ k = activeJobId'
    BY <1>3 DEF OneLoad, Ended
  <2>1. CASE k = j
    BY <1>1, <1>2, <2>1
  <2>2. CASE k # j
    BY <1>1, <1>2, <2>2 DEF Unless
  <2> QED BY <2>1, <2>2
<1>5. activeJobId \in 0..Len(loads) /\ Len(loads) \in Nat
  BY LoadFields DEF Typed
<1>6. activeJobId' \in 0..Len(loads')
  BY <1>1, <1>5 DEF Unless
<1> QED BY <1>1, <1>4, <1>6 DEF LoadsStay

LEMMA StopLoadStops ==
    ASSUME Typed, NEW j \in DOMAIN loads,
           NEW phase \in {"stopped", "safety_timeout"}
    PROVE  \E load \in Load :
              /\ load.room = loads[j].room /\ Ended(load)
              /\ [loads EXCEPT ![j].phase = phase] = [loads EXCEPT ![j] = load]
              /\ load.samples = loads[j].samples
<1> DEFINE load == [loads[j] EXCEPT !.phase = phase]
<1>1. loads[j] \in Load
  BY LoadFields
<1>2. /\ load \in Load /\ load.room = loads[j].room /\ load.phase = phase
      /\ load.samples = loads[j].samples
  BY <1>1 DEF Load
<1>3. [loads EXCEPT ![j].phase = phase] = [loads EXCEPT ![j] = load]
  OBVIOUS
<1>4. Ended(load)
  BY <1>2 DEF Ended
<1> HIDE DEF load
<1> QED BY <1>2, <1>3, <1>4

LEMMA StopAdmissionLoadKeepsIInv ==
    ASSUME IInv, NEW r \in Room, StopAdmissionLoad(r) PROVE IInv'
<1> DEFINE i == activeRuns[r]
           j == runs[i].job
<1>1. Typed /\ StormInv /\ BotInv
  BY DEF IInv
<1>2. /\ requests < MaxRequests /\ requests' = requests + 1
      /\ HasRun(r, {"admission-storm"})
      /\ runs' = [runs EXCEPT ![i].status = "recovering"]
      /\ loads' = [loads EXCEPT ![j].phase = "stopped"]
      /\ activeJobId' = Unless(j)
      /\ activeRuns' = [activeRuns EXCEPT ![r] = 0]
      /\ UNCHANGED <<calls, advancing, unswept, botJobs, faults>>
  BY DEF StopAdmissionLoad, Requested, StopLoad, Cleared
<1>3. /\ Len(runs) \in Nat /\ Len(runs) <= requests
      /\ requests \in Nat /\ MaxRequests \in Nat
      /\ DOMAIN runs = 1..Len(runs)
  BY <1>1, RunFields DEF Typed
<1>4. i \in 1..Len(runs) /\ IsStorm(i)
  BY <1>2, <1>3 DEF HasRun, IsStorm
<1>5. j \in DOMAIN loads
  BY <1>1, <1>3, <1>4 DEF StormInv, StormsHaveLoads
<1> HIDE DEF i, j
<1>6. /\ LoadsStay /\ OneLoad' /\ loads' \in Seq(Load)
      /\ activeJobId' \in 0..Len(loads')
  <2>1. PICK load \in Load :
           /\ load.room = loads[j].room /\ Ended(load)
           /\ loads' = [loads EXCEPT ![j] = load]
    BY <1>1, <1>2, <1>5, StopLoadStops
  <2> QED BY <1>1, <1>2, <1>5, <2>1, LoadStepKeepsOneLoad
<1>7. OldRunsStay /\ Len(runs') = Len(runs)
  BY <1>1, <1>2, <1>4, StatusIsSet DEF Status, RunsStay
<1>8. activeRuns \in [Room -> 0..Len(runs)]
  BY <1>1 DEF Typed
<1>9. Typed'
  <2>1. requests' \in 0..MaxRequests /\ Len(runs') <= requests'
    BY <1>2, <1>3, <1>7
  <2>2. activeRuns' \in [Room -> 0..Len(runs')]
    BY <1>2, <1>3, <1>7, <1>8
  <2>3. calls' \subseteq Call /\ \A e \in calls' : e.run \in 1..Len(runs')
    BY <1>1, <1>2, <1>7 DEF Typed
  <2> QED BY <1>1, <1>2, <1>6, <1>7, <2>1, <2>2, <2>3
          DEF Typed, OldRunsStay
<1>10. StormInv'
  <2>1. ActiveMoves
    BY <1>2, <1>8 DEF ActiveMoves
  <2>2. NoNewStorm
    BY <1>3, <1>7 DEF NoNewStorm
  <2> QED BY <1>1, <1>2, <1>6, <1>7, <2>1, <2>2, StormsStay
<1>11. BotInv'
  BY <1>1, <1>2, <1>7, BotJobsUnchanged, BotsStayAlone
<1> QED BY <1>9, <1>10, <1>11 DEF IInv

\* What a step of the load j makes of it.
LEMMA LoadSteps ==
    ASSUME Typed, NEW j \in DOMAIN loads,
           Saturate(j) \/ Expire(j) \/ Issue(j) \/ IssueAnswered(j)
    PROVE  /\ UNCHANGED <<runVars, requests, unswept, botJobs, faults>>
           /\ \E load \in Load :
                 /\ load.room = loads[j].room
                 /\ loads' = [loads EXCEPT ![j] = load]
                 /\ \/ UNCHANGED activeJobId /\ (Ended(loads[j]) => Ended(load))
                    \/ activeJobId' = Unless(j) /\ Ended(load)
                 /\ Ended(loads[j]) => load.samples = loads[j].samples
<1>1. loads[j] \in Load
  BY LoadFields
<1>2. UNCHANGED <<runVars, requests, unswept, botJobs, faults>>
  BY DEF Saturate, Expire, Issue, IssueAnswered
<1>3. CASE Saturate(j)
  <2> DEFINE load == [loads[j] EXCEPT !.phase = "saturated"]
  <2>1. /\ load \in Load /\ load.room = loads[j].room
        /\ load.samples = loads[j].samples
    BY <1>1 DEF Load
  <2>2. loads' = [loads EXCEPT ![j] = load] /\ UNCHANGED activeJobId
    BY <1>3 DEF Saturate
  <2>3. ~Ended(loads[j])
    BY <1>3 DEF Saturate, Ended
  <2> HIDE DEF load
  <2> QED BY <1>2, <2>1, <2>2, <2>3
<1>4. CASE Expire(j)
  BY <1>2, <1>4, StopLoadStops DEF Expire
<1>5. CASE Issue(j)
  <2> DEFINE load == [loads[j] EXCEPT !.sent = loads[j].sent + 1]
  <2>1. /\ load \in Load /\ load.room = loads[j].room
        /\ load.samples = loads[j].samples /\ load.phase = loads[j].phase
    BY <1>1 DEF Load
  <2>2. loads' = [loads EXCEPT ![j] = load] /\ UNCHANGED activeJobId
    BY <1>5 DEF Issue
  <2> HIDE DEF load
  <2> QED BY <1>2, <2>1, <2>2 DEF Ended
<1>6. CASE IssueAnswered(j)
  <2> DEFINE n == Counted(loads[j])
             load == [loads[j] EXCEPT !.samples = loads[j].samples + n,
                                      !.sent = loads[j].sent - 1 + n]
  <2>1. /\ loads[j].samples < loads[j].sent
        /\ n \in {0, 1} /\ (Ended(loads[j]) => n = 0)
    BY <1>6 DEF IssueAnswered, Counted
  <2>2. loads' = [loads EXCEPT ![j] = load] /\ UNCHANGED activeJobId
    BY <1>6 DEF IssueAnswered
  <2> HIDE DEF n
  <2>3. /\ load \in Load /\ load.room = loads[j].room
        /\ load.samples = loads[j].samples + n /\ load.phase = loads[j].phase
    <3>1. loads[j].samples \in Nat /\ loads[j].sent \in Nat
      BY LoadFields
    <3>2. loads[j].samples + n \in Nat /\ loads[j].sent - 1 + n \in Nat
      BY <2>1, <3>1
    <3> QED BY <1>1, <3>2 DEF Load
  <2>4. n = 0 => load.samples = loads[j].samples
    BY <1>1, <2>3 DEF Load
  <2> HIDE DEF load
  <2> QED BY <1>2, <2>1, <2>2, <2>3, <2>4 DEF Ended
<1> QED BY <1>3, <1>4, <1>5, <1>6

LEMMA LoadStepKeepsIInv ==
    ASSUME IInv, NEW j \in DOMAIN loads,
           Saturate(j) \/ Expire(j) \/ Issue(j) \/ IssueAnswered(j)
    PROVE  IInv'
<1>1. Typed /\ StormInv /\ BotInv
  BY DEF IInv
<1>2. /\ LoadsStay /\ OneLoad' /\ loads' \in Seq(Load)
      /\ activeJobId' \in 0..Len(loads')
      /\ UNCHANGED <<runs, activeRuns, calls, advancing, requests, unswept,
                     botJobs, faults>>
  BY <1>1, LoadSteps, LoadStepKeepsOneLoad DEF runVars
<1>3. OldRunsStay /\ Len(runs') = Len(runs) /\ Len(runs) \in Nat
  BY <1>1, <1>2, RunsUnchanged, RunFields
<1>4. Typed'
  BY <1>1, <1>2 DEF Typed
<1>5. StormInv'
  <2>1. ActiveMoves
    BY <1>2 DEF ActiveMoves
  <2>2. NoNewStorm
    BY <1>3 DEF NoNewStorm
  <2> QED BY <1>1, <1>2, <1>3, <2>1, <2>2, StormsStay
<1>6. BotInv'
  BY <1>1, <1>2, <1>3, BotJobsUnchanged, BotsStayAlone
<1> QED BY <1>4, <1>5, <1>6 DEF IInv

LEMMA JobEndsKeepsIInv ==
    ASSUME IInv, NEW j \in DOMAIN botJobs, JobEnds(j) PROVE IInv'
<1>1. Typed /\ StormInv /\ BotInv
  BY DEF IInv
<1>2. /\ UNCHANGED <<runs, activeRuns, calls, advancing, requests, unswept,
                     loadVars>>
      /\ faults' \subseteq Fault
  BY <1>1 DEF JobEnds, runVars, Occurs, Typed
<1>3. PICK state \in {"completed", "failed"} :
          botJobs' = [botJobs EXCEPT ![j].state = state]
  BY DEF JobEnds
<1> DEFINE job == [botJobs[j] EXCEPT !.state = state]
<1>4. botJobs[j] \in BotJob /\ botJobs \in Seq(BotJob)
  BY <1>1, BotJobFields DEF Typed
<1>5. /\ job \in BotJob /\ job.run = botJobs[j].run
      /\ job.answered = botJobs[j].answered
  BY <1>3, <1>4 DEF BotJob
<1>6. botJobs' = [botJobs EXCEPT ![j] = job]
  BY <1>3
<1> HIDE DEF job
<1>7. /\ botJobs' \in Seq(BotJob) /\ Len(botJobs') = Len(botJobs)
      /\ \A k \in DOMAIN botJobs :
            botJobs'[k] = IF k = j THEN job ELSE botJobs[k]
  BY <1>4, <1>5, <1>6, Replaced
<1>8. BotJobsStay
  <2>1. /\ DOMAIN botJobs' = DOMAIN botJobs
        /\ DOMAIN botJobs = 1..Len(botJobs) /\ Len(botJobs) \in Nat
    BY <1>1, <1>6, BotJobFields
  <2>2. \A k \in DOMAIN botJobs :
            /\ botJobs'[k].run = botJobs[k].run
            /\ botJobs'[k].answered = botJobs[k].answered
    BY <1>5, <1>7
  <2> QED BY <1>7, <2>1, <2>2 DEF BotJobsStay
<1>9. OldRunsStay /\ Len(runs') = Len(runs) /\ Len(runs) \in Nat
  BY <1>1, <1>2, RunsUnchanged, RunFields
<1>10. Typed'
  BY <1>1, <1>2, <1>7 DEF Typed, loadVars
<1>11. StormInv'
  <2>1. ActiveMoves
    BY <1>2 DEF ActiveMoves
  <2>2. NoNewStorm
    BY <1>9 DEF NoNewStorm
  <2> QED BY <1>1, <1>2, <1>9, <2>1, <2>2, LoadsUnchanged, StormsStay
<1>12. BotInv'
  BY <1>1, <1>2, <1>8, <1>9, BotsStayAlone
<1> QED BY <1>10, <1>11, <1>12 DEF IInv

LEMMA InitIInv == ASSUME MaxRequests \in Nat, Init PROVE IInv
<1>1. Typed
  BY DEF Init, Typed
<1>2. StormInv
  BY DEF Init, StormInv, RunsOfTheirRooms, StormsHaveLoads,
         OnlyHealthOfStorms, OneLoad, OneStormRoom
<1>3. BotInv
  BY DEF Init, BotInv, AdvancedAlone, StartedOnce, CallSteps, JobsKept
<1> QED BY <1>1, <1>2, <1>3 DEF IInv

LEMMA NextIInv == IInv /\ [Next]_vars => IInv'
<1> SUFFICES ASSUME IInv, [Next]_vars PROVE IInv'
  OBVIOUS
<1>1. ASSUME NEW r \in Room,
             \/ \E s \in Scenario : Start(r, s)
             \/ StartStorm(r) \/ StormRefused(r)
             \/ Recover(r) \/ StopAdmissionLoad(r)
      PROVE  IInv'
  BY <1>1, StartKeepsIInv, StartStormKeepsIInv, ClearingKeepsIInv,
     RecoverKeepsIInv, StopAdmissionLoadKeepsIInv
<1>2. CASE GetState
  BY <1>2, GetStateKeepsIInv
<1>3. ASSUME NEW c \in calls, Answers(c) PROVE IInv'
  BY <1>3, AnswerKeepsIInv
<1>4. ASSUME NEW g \in unswept, Sweep(g) PROVE IInv'
  BY <1>4, ClearingKeepsIInv
<1>5. ASSUME NEW j \in DOMAIN loads,
             Saturate(j) \/ Expire(j) \/ Issue(j) \/ IssueAnswered(j)
      PROVE  IInv'
  BY <1>5, LoadStepKeepsIInv
<1>6. ASSUME NEW j \in DOMAIN botJobs, JobEnds(j) PROVE IInv'
  BY <1>6, JobEndsKeepsIInv
<1>7. CASE UNCHANGED vars
  <2>1. UNCHANGED <<runs, activeRuns, calls, advancing, requests, unswept,
                    loads, activeJobId, botJobs, faults>>
    BY <1>7 DEF vars, runVars, loadVars
  <2>2. Typed'
    BY <2>1 DEF IInv, Typed
  <2>3. StormInv'
    BY <2>1 DEF IInv, StormInv, RunsOfTheirRooms, StormsHaveLoads,
       OnlyHealthOfStorms, OneLoad, OneStormRoom, IsStorm, Ended
  <2>4. BotInv'
    BY <2>1 DEF IInv, BotInv, AdvancedAlone, StartedOnce, CallSteps,
       JobsKept, Advances, RoomOf
  <2> QED BY <2>2, <2>3, <2>4 DEF IInv
<1> QED BY <1>1, <1>2, <1>3, <1>4, <1>5, <1>6, <1>7 DEF Next

LEMMA IInvIsTrue ==
    ASSUME IInv PROVE TypeOK /\ OneStorm /\ RunListsItsBots
<1>1. Typed /\ StormInv /\ BotInv
  BY DEF IInv
<1>2. /\ DOMAIN runs = 1..Len(runs) /\ Len(runs) \in Nat
      /\ Len(runs) <= MaxRequests /\ MaxRequests \in Nat
  BY <1>1, RunFields DEF Typed
<1>3. TypeOK
  <2>1. activeRuns \in [Room -> 0..MaxRequests]
    BY <1>1, <1>2 DEF Typed
  <2>2. \A j \in DOMAIN loads :
           loads[j].phase \in {"ramping", "saturated", "stopped",
                               "safety_timeout"}
    BY <1>1, LoadFields DEF Load
  <2>3. activeJobId \in {0} \cup DOMAIN loads
    BY <1>1, LoadFields DEF Typed
  <2>4. \A j \in DOMAIN botJobs :
           botJobs[j].state \in {"running", "completed", "failed",
                                 "cancelled"}
    BY <1>1, BotJobFields DEF BotJob
  <2> QED BY <1>1, <2>1, <2>2, <2>3, <2>4 DEF Typed, TypeOK, Run
<1>4. OneStorm
  <2>1. \A r \in Room : HasRun(r, {"admission-storm"}) =>
            activeRuns[r] # 0 /\ IsStorm(activeRuns[r])
            /\ activeRuns[r] \in DOMAIN runs
    BY <1>2 DEF HasRun, IsStorm
  <2>2. Alive \subseteq {activeJobId}
    BY <1>1 DEF StormInv, OneLoad, Alive
  <2>3. \A r \in Room : HasRun(r, {"admission-storm"}) =>
            loads[runs[activeRuns[r]].job].room = r
    BY <1>1, <2>1 DEF StormInv, StormsHaveLoads, RunsOfTheirRooms
  <2>4. \A r, q \in Room :
            HasRun(r, {"admission-storm"}) /\ HasRun(q, {"admission-storm"})
                => r = q
    BY <1>1, <2>1 DEF StormInv, OneStormRoom
  <2> QED BY <2>2, <2>3, <2>4 DEF OneStorm
<1>5. RunListsItsBots
  BY <1>1 DEF BotInv, JobsKept, RunListsItsBots
<1> QED BY <1>3, <1>4, <1>5

LEMMA StepKeepsEvidence ==
    ASSUME IInv, [Next]_vars, NEW k \in DOMAIN loads, Ended(loads[k])
    PROVE  loads'[k].samples = loads[k].samples
<1>1. Typed /\ StormInv
  BY DEF IInv
<1>2. CASE UNCHANGED loads
  BY <1>2
<1>3. ASSUME NEW r \in Room, StartStorm(r) PROVE loads'[k] = loads[k]
  <2>1. loads \in Seq(Load) /\ DOMAIN loads = 1..Len(loads)
    BY <1>1, LoadFields DEF Typed
  <2> QED BY <1>3, <2>1 DEF StartStorm, StartLoad
<1>4. ASSUME NEW r \in Room, StopAdmissionLoad(r)
      PROVE  loads'[k].samples = loads[k].samples
  <2> DEFINE j == runs[activeRuns[r]].job
  <2>1. loads' = [loads EXCEPT ![j].phase = "stopped"]
    BY <1>4 DEF StopAdmissionLoad, StopLoad
  <2>2. loads[k] \in Load
    BY <1>1, LoadFields
  <2> HIDE DEF j
  <2> QED BY <2>1, <2>2 DEF Load
<1>5. ASSUME NEW j \in DOMAIN loads,
             Saturate(j) \/ Expire(j) \/ Issue(j) \/ IssueAnswered(j)
      PROVE  loads'[k].samples = loads[k].samples
  <2>1. PICK load \in Load :
           /\ loads' = [loads EXCEPT ![j] = load]
           /\ Ended(loads[j]) => load.samples = loads[j].samples
    BY <1>1, <1>5, LoadSteps
  <2> QED BY <2>1
<1>6. ASSUME NEW r \in Room,
             (\E s \in Scenario : Start(r, s)) \/ StormRefused(r) \/ Recover(r)
      PROVE  UNCHANGED loads
  BY <1>6 DEF Start, StormRefused, Recover, loadVars
<1>7. GetState => UNCHANGED loads
  BY DEF GetState, loadVars
<1>8. ASSUME NEW c \in calls, Answers(c) PROVE UNCHANGED loads
  BY <1>8 DEF Answers, CallAnswered, CallFails, JobAccepted, JobAnswered,
     JobFails, JobCleaned, CleanupEnds, CleanupFails, HealthAnswered,
     JobUnknown, MaliciousSeen, SurgeSeen, SurgeHolds, SurgeRamps,
     SurgeIsOver, loadVars
<1>9. ASSUME NEW g \in unswept, Sweep(g) PROVE UNCHANGED loads
  BY <1>9 DEF Sweep, loadVars
<1>10. ASSUME NEW j \in DOMAIN botJobs, JobEnds(j) PROVE UNCHANGED loads
  BY <1>10 DEF JobEnds, loadVars
<1>11. UNCHANGED vars => UNCHANGED loads
  BY DEF vars, loadVars
<1> QED BY <1>2, <1>3, <1>4, <1>5, <1>6, <1>7, <1>8, <1>9, <1>10, <1>11
        DEF Next

-----------------------------------------------------------------------------

LEMMA SpecIInv == ASSUME MaxRequests \in Nat PROVE Spec => []IInv
<1>1. Init => IInv
  BY InitIInv
<1> QED BY <1>1, NextIInv, PTL DEF Spec

\* The runs, the handlers' calls, the load jobs and the bot jobs stay well
\* formed, whatever is refused, lost or left over (failure-scenarios.ts:248-724,
\* admission-load.ts:179-348).
THEOREM TypeOKAlways == ASSUME MaxRequests \in Nat PROVE Spec => []TypeOK
<1>1. IInv => TypeOK
  BY IInvIsTrue
<1> QED BY <1>1, SpecIInv, PTL

\* At most one load is alive, the one that activeJobId names, and at most one
\* room has a storm, whose load is one of that room: no handler that finishes
\* late brings a second one (start, admission-load.ts:179-214; start and started,
\* failure-scenarios.ts:326-355, 614-628).
THEOREM OneStormAlways == ASSUME MaxRequests \in Nat PROVE Spec => []OneStorm
<1>1. IInv => OneStorm
  BY IInvIsTrue
<1> QED BY <1>1, SpecIInv, PTL

\* The run that activeRuns gives a room lists every bot job of it that was
\* answered, so that a cleanupBotJobs() that begins then leaves none of them out:
\* advanceBotSurge() replaces run.jobIds by what it read before its awaits, and
\* advancingBotSurges keeps a second one from doing so at the same time
\* (failure-scenarios.ts:487-587).  It says nothing of what is answered to a run
\* while it is being recovered or when it has left its room.
THEOREM RunListsItsBotsAlways ==
    ASSUME MaxRequests \in Nat PROVE Spec => []RunListsItsBots
<1>1. IInv => RunListsItsBots
  BY IInvIsTrue
<1> QED BY <1>1, SpecIInv, PTL

\* An answer that comes after its load was stopped or timed out does not count
\* (issue, admission-load.ts:258-320).
THEOREM StoppedEvidenceIsKeptAlways ==
    ASSUME MaxRequests \in Nat PROVE Spec => StoppedEvidenceIsKept
<1> DEFINE Kept == \A j \in DOMAIN loads :
                      Ended(loads[j]) => loads'[j].samples = loads[j].samples
<1>1. IInv /\ [Next]_vars => [Kept]_vars
  BY StepKeepsEvidence
<1> QED BY <1>1, SpecIInv, PTL DEF Spec, StoppedEvidenceIsKept

=============================================================================
