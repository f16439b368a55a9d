------------------------ MODULE SnapshotWriterProofs ------------------------
(***************************************************************************)
(* What the snapshot writer guarantees for every number of callers, every  *)
(* failure threshold and every run of the game: a caller that is told      *)
(* "saved" finds its checkpoint in Redis, and Redis never goes back.        *)
(***************************************************************************)
EXTENDS SnapshotWriter, TLAPS

\* Redis holds at most one unsettled command, and it is there whenever anyone
\* waits for it or for the pending checkpoint.
SingleFlight ==
    /\ \A w1, w2 \in redis : w1 = w2
    /\ (writing # {} \/ pending # {}) => redis # {}

\* A caller belongs to one checkpoint at a time, and only while it waits.
WaitersDisjoint ==
    /\ writing \cap pending = {}
    /\ \A c \in writing \cup pending : caller[c] = "waiting"

\* The command in flight is no older than Redis, and no older than the
\* requests it answers; nothing is newer than the live game.
FreshWrite ==
    /\ stored <= version
    /\ \A c \in Caller : asked[c] <= version
    /\ \A w \in redis :
          /\ stored <= w.version /\ w.version <= version
          /\ w.applied => stored = w.version
          /\ \A c \in writing : asked[c] <= w.version

IInv ==
    /\ TypeOK
    /\ SingleFlight
    /\ WaitersDisjoint
    /\ FreshWrite
    /\ SavedIsDurable

----------------------------------------------------------------------------

\* One more failure leaves a health record, whatever the threshold
\* (recordFailure, snapshot.ts:541-568).
LEMMA FailedIsHealth ==
    ASSUME NEW h \in Health
    PROVE  Failed(h) \in Health
<1> USE ThresholdAssumption
<1>1. CASE h.failures + 1 >= FailureThreshold
  BY <1>1 DEF Failed, Health
<1>2. CASE ~(h.failures + 1 >= FailureThreshold)
  BY <1>2 DEF Failed, Health
<1> QED BY <1>1, <1>2

\* The end of a write, whatever it answers its callers (any r but "saved"
\* when Redis may not hold it), leaves the invariant: the run loop takes the
\* pending checkpoint or ends (run, snapshot.ts:432-455).
LEMMA RunPendingKeepsIInv ==
    ASSUME IInv, NEW w \in redis, NEW h \in Health, NEW r \in Result,
           r = "saved" => w.applied,
           lastChecksum' \in Version,
           UNCHANGED <<version, stored, asked>>,
           RunPending(w, h, Answer(caller, writing, r))
    PROVE  IInv'
<1> DEFINE f == Answer(caller, writing, r)
<1>1. /\ f \in [Caller -> {"idle", "waiting"} \cup Result]
      /\ \A c \in pending : f[c] = "waiting"
      /\ \A c \in Caller : f[c] = "saved" => stored >= asked[c]
  <2>1. f \in [Caller -> {"idle", "waiting"} \cup Result]
    BY DEF IInv, TypeOK, Answer
  <2>2. \A c \in pending : f[c] = "waiting"
    BY DEF IInv, TypeOK, WaitersDisjoint, Answer
  <2>3. ASSUME NEW c \in Caller, f[c] = "saved"
        PROVE  stored >= asked[c]
    <3>1. CASE c \in writing
      <4>1. r = "saved"
        BY <2>3, <3>1 DEF Answer
      <4>2. stored = w.version /\ asked[c] <= w.version
        BY <4>1, <3>1 DEF IInv, FreshWrite
      <4> QED BY <4>2 DEF IInv, TypeOK, Version
    <3>2. CASE c \notin writing
      BY <2>3, <3>2 DEF IInv, SavedIsDurable, Answer
    <3> QED BY <3>1, <3>2
  <2> QED BY <2>1, <2>2, <2>3
<1>2. redis \ {w} = {}
  BY DEF IInv, SingleFlight
<1>3. ASSUME NEW h2 \in Health, NEW g, EndRun(w, h2, g), pending' = {},
             g \in [Caller -> {"idle", "waiting"} \cup Result],
             \A c \in Caller : g[c] = "saved" => stored >= asked[c]
      PROVE  IInv'
  <2>1. redis' = {} /\ writing' = {} /\ pending' = {} /\ health' = h2 /\ caller' = g
    BY <1>2, <1>3 DEF EndRun
  <2>2. TypeOK'
    BY <2>1, <1>3 DEF IInv, TypeOK
  <2>3. SingleFlight' /\ WaitersDisjoint'
    BY <2>1 DEF SingleFlight, WaitersDisjoint
  <2>4. FreshWrite'
    BY <2>1 DEF IInv, FreshWrite
  <2>5. SavedIsDurable'
    BY <2>1, <1>3 DEF SavedIsDurable
  <2> QED BY <2>2, <2>3, <2>4, <2>5 DEF IInv
<1>4. CASE pending = {} /\ EndRun(w, h, f)
  BY <1>1, <1>3, <1>4 DEF RunPending
<1>5. CASE EndRun(w, h, Answer(f, pending, "circuit_open"))
  <2> DEFINE g == Answer(f, pending, "circuit_open")
  <2>1. g \in [Caller -> {"idle", "waiting"} \cup Result]
    BY <1>1 DEF Answer, Result
  <2>2. \A c \in Caller : g[c] = "saved" => stored >= asked[c]
    BY <1>1 DEF Answer
  <2> QED BY <1>3, <1>5, <2>1, <2>2 DEF RunPending
<1>6. CASE EndRun(w, Failed(h), Answer(f, pending, "failed"))
  <2> DEFINE g == Answer(f, pending, "failed")
  <2>1. g \in [Caller -> {"idle", "waiting"} \cup Result]
    BY <1>1 DEF Answer, Result
  <2>2. \A c \in Caller : g[c] = "saved" => stored >= asked[c]
    BY <1>1 DEF Answer
  <2> QED BY <1>3, <1>6, <2>1, <2>2, FailedIsHealth DEF RunPending
<1>7. CASE StartPending(w, h, f)
  <2>1. /\ redis' = {NewWrite} /\ writing' = pending /\ pending' = {}
        /\ health' = h /\ caller' = f
    BY <1>2, <1>7 DEF StartPending, RunPending
  <2>2. NewWrite \in Write /\ NewWrite.version = version /\ ~NewWrite.applied
    BY DEF NewWrite, Write, IInv, TypeOK
  <2>3. TypeOK'
    BY <2>1, <2>2, <1>1 DEF IInv, TypeOK
  <2>4. SingleFlight'
    BY <2>1 DEF SingleFlight
  <2>5. WaitersDisjoint'
    BY <2>1, <1>1 DEF WaitersDisjoint
  <2>6. FreshWrite'
    BY <2>1, <2>2 DEF IInv, TypeOK, FreshWrite, Version
  <2>7. SavedIsDurable'
    BY <2>1, <1>1 DEF SavedIsDurable
  <2> QED BY <2>3, <2>4, <2>5, <2>6, <2>7 DEF IInv
<1> QED BY <1>4, <1>5, <1>6, <1>7 DEF RunPending

\* The invariant holds initially and every step of the writer keeps it.
LEMMA InitIInv == Init => IInv
<1> SUFFICES ASSUME Init PROVE IInv
  OBVIOUS
<1> USE ThresholdAssumption, MaxVersionAssumption
<1>1. TypeOK
  BY DEF Init, TypeOK, Version, Healthy, Health
<1>2. SingleFlight /\ WaitersDisjoint /\ FreshWrite /\ SavedIsDurable
  BY DEF Init, SingleFlight, WaitersDisjoint, FreshWrite, SavedIsDurable
<1> QED BY <1>1, <1>2 DEF IInv

LEMMA NextIInv == IInv /\ [Next]_vars => IInv'
<1> SUFFICES ASSUME IInv, [Next]_vars PROVE IInv'
  OBVIOUS
<1> USE DEF IInv
<1>1. CASE Advance
  <2>1. TypeOK' BY <1>1, MaxVersionAssumption DEF Advance, TypeOK, Version
  <2>2. FreshWrite' BY <1>1 DEF Advance, FreshWrite, TypeOK, Version, Write
  <2>3. SingleFlight' /\ WaitersDisjoint' /\ SavedIsDurable'
    BY <1>1 DEF Advance, SingleFlight, WaitersDisjoint, SavedIsDurable
  <2> QED BY <2>1, <2>2, <2>3
<1>2. ASSUME NEW c \in Caller, RequestRefused(c) PROVE IInv'
  <2>1. TypeOK' BY <1>2 DEF RequestRefused, TypeOK, Result
  <2>2. SingleFlight' BY <1>2 DEF RequestRefused, SingleFlight
  <2>3. c \notin writing \cup pending
    BY <1>2 DEF RequestRefused, WaitersDisjoint
  <2>4. WaitersDisjoint'
    BY <1>2, <2>3 DEF RequestRefused, WaitersDisjoint, TypeOK
  <2>5. FreshWrite'
    BY <1>2, <2>3 DEF RequestRefused, FreshWrite, TypeOK, Version
  <2>6. SavedIsDurable'
    BY <1>2 DEF RequestRefused, SavedIsDurable, TypeOK
  <2> QED BY <2>1, <2>2, <2>4, <2>5, <2>6
<1>3. ASSUME NEW c \in Caller, Request(c) PROVE IInv'
  <2>1. c \notin writing \cup pending
    BY <1>3 DEF Request, WaitersDisjoint
  <2>2. NewWrite \in Write /\ NewWrite.version = version /\ ~NewWrite.applied
    BY DEF NewWrite, Write, TypeOK
  <2>3. /\ asked' = [asked EXCEPT ![c] = version]
        /\ caller' = [caller EXCEPT ![c] = "waiting"]
        /\ health' = [health EXCEPT !.circuitOpen = FALSE]
        /\ UNCHANGED <<version, stored, lastChecksum>>
    BY <1>3 DEF Request
  <2>4. SavedIsDurable'
    BY <2>3 DEF SavedIsDurable, TypeOK
  <2>5. health' \in Health
    BY <2>3 DEF TypeOK, Health
  <2>6. CASE InFlight /\ Join(c)
    <3>1. TypeOK' BY <2>3, <2>5, <2>6 DEF Join, TypeOK
    <3>2. SingleFlight' BY <2>6 DEF Join, InFlight, SingleFlight
    <3>3. WaitersDisjoint'
      BY <2>1, <2>3, <2>6 DEF Join, WaitersDisjoint, TypeOK
    <3>4. FreshWrite'
      BY <2>1, <2>3, <2>6 DEF Join, FreshWrite, TypeOK, Version
    <3> QED BY <2>4, <3>1, <3>2, <3>3, <3>4
  <2>7. CASE ~InFlight /\ writing' = {c} /\ redis' = redis \cup {NewWrite}
             /\ UNCHANGED pending
    <3>1. redis' = {NewWrite} /\ pending = {} /\ pending' = {}
      BY <2>7 DEF InFlight, SingleFlight
    <3>2. TypeOK' BY <2>2, <2>3, <2>5, <2>7, <3>1 DEF TypeOK
    <3>3. SingleFlight' BY <3>1 DEF SingleFlight
    <3>4. WaitersDisjoint'
      BY <2>3, <2>7, <3>1 DEF WaitersDisjoint, TypeOK
    <3>5. FreshWrite'
      BY <2>2, <2>3, <2>7, <3>1 DEF FreshWrite, TypeOK, Version
    <3> QED BY <2>4, <3>2, <3>3, <3>4, <3>5
  <2> QED BY <1>3, <2>6, <2>7 DEF Request
<1>4. ASSUME NEW c \in Caller, RequestTooLarge(c) PROVE IInv'
  <2>1. [health EXCEPT !.circuitOpen = FALSE] \in Health
    BY DEF TypeOK, Health
  <2>2. TypeOK'
    BY <1>4, <2>1, FailedIsHealth DEF RequestTooLarge, TypeOK, Result
  <2>3. c \notin writing \cup pending
    BY <1>4 DEF RequestTooLarge, WaitersDisjoint
  <2>4. SingleFlight' BY <1>4 DEF RequestTooLarge, SingleFlight
  <2>5. WaitersDisjoint'
    BY <1>4, <2>3 DEF RequestTooLarge, WaitersDisjoint, TypeOK
  <2>6. FreshWrite'
    BY <1>4, <2>3 DEF RequestTooLarge, FreshWrite, TypeOK, Version
  <2>7. SavedIsDurable'
    BY <1>4 DEF RequestTooLarge, SavedIsDurable, TypeOK
  <2> QED BY <2>2, <2>4, <2>5, <2>6, <2>7
<1>5. ASSUME NEW w \in redis, Apply(w) PROVE IInv'
  <2> DEFINE v == [w EXCEPT !.applied = TRUE]
  <2>1. w \in Write /\ v \in Write /\ v.version = w.version /\ v.applied
    BY DEF TypeOK, Write
  <2>2. redis' = {v}
    BY <1>5 DEF Apply, SingleFlight
  <2>3. TypeOK' BY <1>5, <2>1, <2>2 DEF Apply, TypeOK, Write
  <2>4. SingleFlight' BY <2>2 DEF SingleFlight
  <2>5. WaitersDisjoint' BY <1>5 DEF Apply, WaitersDisjoint
  <2>6. FreshWrite'
    BY <1>5, <2>1, <2>2 DEF Apply, FreshWrite, TypeOK, Version, Write
  <2>7. SavedIsDurable'
    <3>1. stored <= stored'
      BY <1>5 DEF Apply, FreshWrite
    <3> QED BY <1>5, <2>1, <3>1 DEF Apply, SavedIsDurable, TypeOK, Version, Write
  <2> QED BY <2>3, <2>4, <2>5, <2>6, <2>7
<1>6. ASSUME NEW w \in redis, SettleSaved(w) PROVE IInv'
  <2>1. Healthy \in Health
    BY ThresholdAssumption DEF Healthy, Health
  <2>2. lastChecksum' \in Version
    BY <1>6 DEF SettleSaved, TypeOK, Write
  <2> QED BY <1>6, <2>1, <2>2, RunPendingKeepsIInv DEF SettleSaved, Result
<1>7. ASSUME NEW w \in redis, SettleFailed(w) PROVE IInv'
  <2>1. Failed(health) \in Health
    BY FailedIsHealth DEF TypeOK
  <2>2. lastChecksum' \in Version
    BY <1>7 DEF SettleFailed, TypeOK
  <2> QED BY <1>7, <2>1, <2>2, RunPendingKeepsIInv DEF SettleFailed, Result
<1>8. ASSUME NEW w \in redis, SettleLate(w) PROVE IInv'
  <2>1. caller = Answer(caller, writing, "timeout")
    BY <1>8 DEF SettleLate, Answer, TypeOK
  <2>2. health \in Health /\ lastChecksum' \in Version
    BY <1>8 DEF SettleLate, TypeOK
  <2>3. RunPending(w, health, Answer(caller, writing, "timeout"))
    BY <1>8, <2>1 DEF SettleLate
  <2> QED BY <1>8, <2>2, <2>3, RunPendingKeepsIInv DEF SettleLate, Result
<1>9. CASE Timeout
  <2>1. TypeOK' BY <1>9, FailedIsHealth DEF Timeout, TypeOK, Answer, Result
  <2>2. SingleFlight' BY <1>9 DEF Timeout, SingleFlight
  <2>3. WaitersDisjoint' BY <1>9 DEF Timeout, WaitersDisjoint, Answer, TypeOK
  <2>4. FreshWrite' BY <1>9 DEF Timeout, FreshWrite
  <2>5. SavedIsDurable' BY <1>9 DEF Timeout, SavedIsDurable, Answer
  <2> QED BY <2>1, <2>2, <2>3, <2>4, <2>5
<1>10. CASE CoolDown
  <2>1. TypeOK' BY <1>10 DEF CoolDown, TypeOK, Health
  <2>2. SingleFlight' /\ WaitersDisjoint' /\ FreshWrite' /\ SavedIsDurable'
    BY <1>10 DEF CoolDown, SingleFlight, WaitersDisjoint, FreshWrite,
                 SavedIsDurable
  <2> QED BY <2>1, <2>2
<1>11. ASSUME NEW c \in Caller, Return(c) PROVE IInv'
  <2>1. TypeOK' BY <1>11 DEF Return, TypeOK
  <2>2. SingleFlight' /\ FreshWrite'
    BY <1>11 DEF Return, SingleFlight, FreshWrite
  <2>3. WaitersDisjoint'
    BY <1>11 DEF Return, WaitersDisjoint, TypeOK, Result
  <2>4. SavedIsDurable' BY <1>11 DEF Return, SavedIsDurable, TypeOK
  <2> QED BY <2>1, <2>2, <2>3, <2>4
<1>12. CASE UNCHANGED vars
  BY <1>12 DEF vars, TypeOK, SingleFlight, WaitersDisjoint, FreshWrite,
               SavedIsDurable
<1> QED
  BY <1>1, <1>2, <1>3, <1>4, <1>5, <1>6, <1>7, <1>8, <1>9, <1>10, <1>11,
     <1>12 DEF Next, Settle

\* The writer's state always satisfies the invariant.
THEOREM SpecIInv == Spec => []IInv
<1> QED BY InitIInv, NextIInv, PTL DEF Spec

\* Whoever is told "saved" (request and execute, snapshot.ts:385-539) finds a
\* game at least as recent as its request in Redis, for every number of
\* concurrent callers, timeouts and failures.
THEOREM SavedIsDurableAlways == Spec => []SavedIsDurable
<1>1. IInv => SavedIsDurable
  BY DEF IInv
<1> QED BY <1>1, SpecIInv, PTL

\* A pending checkpoint is never orphaned by the end of the run loop
\* (snapshot.ts:432-455).
THEOREM PendingHasRunnerAlways == Spec => []PendingHasRunner
<1>1. IInv => PendingHasRunner
  BY DEF IInv, SingleFlight, PendingHasRunner
<1> QED BY <1>1, SpecIInv, PTL

\* A write whose deadline passed cannot land on a newer checkpoint: what is in
\* Redis never goes back (execution.settled, snapshot.ts:441-444).
THEOREM StoredNeverRegressesAlways == Spec => StoredNeverRegresses
<1>1. IInv /\ [Next]_vars => [stored' >= stored]_vars
  <2> SUFFICES ASSUME IInv, Next PROVE stored' >= stored
    BY DEF vars
  <2>1. ASSUME NEW w \in redis, Apply(w) PROVE stored' >= stored
    BY <2>1 DEF Apply, IInv, FreshWrite, TypeOK, Version, Write
  <2>2. CASE stored' = stored
    BY <2>2 DEF IInv, TypeOK, Version
  <2>3. (\E w \in redis : Apply(w)) \/ stored' = stored
    BY DEF Next, Advance, RequestRefused, Request, RequestTooLarge, Settle,
           SettleSaved, SettleFailed, SettleLate, Timeout, CoolDown, Return
  <2> QED BY <2>1, <2>2, <2>3
<1> QED BY <1>1, SpecIInv, PTL DEF Spec, StoredNeverRegresses

\* The writer's state has its type (SnapshotWriter, snapshot.ts:318-383), for
\* every failure threshold.
THEOREM TypeOKAlways == Spec => []TypeOK
<1>1. IInv => TypeOK
  BY DEF IInv
<1> QED BY <1>1, SpecIInv, PTL

----------------------------------------------------------------------------

\* What the steps of the writer do to the command in flight and to the health
\* record: the end of a write may start one more command, if the health h that
\* the write leaves lets it, and at most adds one failure to h.
LEMMA RunPendingStarts ==
    ASSUME NEW w, NEW h, NEW f, RunPending(w, h, f)
    PROVE  /\ redis' \subseteq redis \cup {NewWrite}
           /\ health' \in {h, Failed(h)}
           /\ redis' \subseteq redis \/ (health' = h /\ ~h.cooling)
BY DEF RunPending, EndRun, StartPending, MayStart

\* While the circuit cools, no command starts, whatever is pending: the circuit
\* is looked at when the run loop takes the pending checkpoint, too
\* (snapshot.ts:392-399 and 484-492).
THEOREM NoWriteWhileCoolingAlways == Spec => NoWriteWhileCooling
<1> DEFINE A == \A w \in redis' \ redis : ~w.applied => ~health'.cooling
<1>1. IInv /\ [Next]_vars => [A]_vars
  <2> SUFFICES ASSUME IInv, Next PROVE A
    BY DEF vars
  <2>1. CASE redis' \subseteq redis
    BY <2>1
  <2>2. ASSUME NEW w \in redis, Apply(w) PROVE A
    <3>1. w \in Write
      BY DEF IInv, TypeOK
    <3>2. [w EXCEPT !.applied = TRUE].applied
      BY <3>1 DEF Write
    <3> QED BY <2>2, <3>2 DEF Apply
  <2>3. ASSUME NEW c \in Caller, Request(c) PROVE A
    <3>1. health'.cooling = health.cooling /\ ~health.cooling
      BY <2>3 DEF Request, IInv, TypeOK, Health
    <3> QED BY <3>1
  <2>4. ASSUME NEW w \in redis, Settle(w) PROVE A
    <3>1. \E h, f : RunPending(w, h, f)
      BY <2>4 DEF Settle, SettleSaved, SettleFailed, SettleLate
    <3>2. PICK h, f : RunPending(w, h, f)
      BY <3>1
    <3> QED BY <3>2, RunPendingStarts
  <2> QED
    BY <2>1, <2>2, <2>3, <2>4
       DEF Next, Advance, RequestRefused, RequestTooLarge, Timeout, CoolDown,
           Return
<1> QED BY <1>1, SpecIInv, PTL DEF Spec, NoWriteWhileCooling

----------------------------------------------------------------------------

\* The circuit is open only when the failures have reached the threshold: so
\* half-opening it (request, snapshot.ts:400) does not bring a handoff back.
OpenHasFailed == health.circuitOpen => health.failures >= FailureThreshold

\* A failure never brings a handoff back, and keeps OpenHasFailed.
LEMMA FailedStaysFailed ==
    ASSUME NEW h \in Health
    PROVE  /\ h.failures >= FailureThreshold
                => Failed(h).failures >= FailureThreshold
           /\ (h.circuitOpen => h.failures >= FailureThreshold)
                => (Failed(h).circuitOpen
                      => Failed(h).failures >= FailureThreshold)
<1> USE ThresholdAssumption
<1>1. CASE h.failures + 1 >= FailureThreshold
  BY <1>1 DEF Failed, Health
<1>2. CASE ~(h.failures + 1 >= FailureThreshold)
  BY <1>2 DEF Failed, Health
<1> QED BY <1>1, <1>2

\* The health record that a step leaves: the old one or one whose circuit has
\* been half-opened or has cooled down, with or without a failure; or, after a
\* write that Redis has, that of a healthy writer.
LEMMA HealthSteps ==
    ASSUME IInv, Next
    PROVE  \/ \E h \in Health :
                 /\ h.failures = health.failures
                 /\ h.circuitOpen => health.circuitOpen
                 /\ health' = h \/ health' = Failed(h)
           \/ health' = Failed(Failed(health))
           \/ /\ lastChecksum' = stored'
              /\ health' = Healthy \/ health' = Failed(Healthy)
<1> DEFINE Like(h) == /\ h.failures = health.failures
                      /\ h.circuitOpen => health.circuitOpen
<1>1. health \in Health /\ Like(health)
  BY DEF IInv, TypeOK
<1>2. /\ [health EXCEPT !.circuitOpen = FALSE] \in Health
      /\ Like([health EXCEPT !.circuitOpen = FALSE])
      /\ [health EXCEPT !.cooling = FALSE] \in Health
      /\ Like([health EXCEPT !.cooling = FALSE])
  BY <1>1 DEF Health
<1>3. ASSUME NEW w \in redis, SettleSaved(w)
      PROVE  /\ lastChecksum' = stored'
             /\ health' = Healthy \/ health' = Failed(Healthy)
  BY <1>3, RunPendingStarts DEF SettleSaved, IInv, FreshWrite
<1>4. ASSUME NEW w \in redis, SettleFailed(w)
      PROVE  health' = Failed(health) \/ health' = Failed(Failed(health))
  BY <1>4, RunPendingStarts DEF SettleFailed
<1>5. ASSUME NEW w \in redis, SettleLate(w)
      PROVE  health' = health \/ health' = Failed(health)
  BY <1>5, RunPendingStarts DEF SettleLate
<1>6. ASSUME NEW c \in Caller, Request(c) \/ RequestTooLarge(c)
      PROVE  \E h \in Health : Like(h) /\ (health' = h \/ health' = Failed(h))
  BY <1>2, <1>6 DEF Request, RequestTooLarge
<1>7. CASE Timeout \/ CoolDown
  BY <1>1, <1>2, <1>7 DEF Timeout, CoolDown
<1>8. CASE health' = health
  BY <1>1, <1>8
<1> QED
  BY <1>1, <1>3, <1>4, <1>5, <1>6, <1>7, <1>8
     DEF Next, Settle, Advance, RequestRefused, Apply, Return

LEMMA OpenHasFailedAlways == Spec => []OpenHasFailed
<1>1. Init => OpenHasFailed
  BY DEF Init, OpenHasFailed, Healthy
<1>2. IInv /\ OpenHasFailed /\ [Next]_vars => OpenHasFailed'
  <2> SUFFICES ASSUME IInv, OpenHasFailed, [Next]_vars
               PROVE  OpenHasFailed'
    OBVIOUS
  <2>1. CASE UNCHANGED vars
    BY <2>1 DEF vars, OpenHasFailed
  <2>2. CASE Next
    <3>1. health \in Health /\ Healthy \in Health
      BY ThresholdAssumption DEF IInv, TypeOK, Healthy, Health
    <3>2. ~Healthy.circuitOpen
      BY DEF Healthy
    <3>3. Failed(health) \in Health
      BY <3>1, FailedIsHealth
    <3>4. ASSUME NEW h \in Health, h.failures = health.failures,
                 h.circuitOpen => health.circuitOpen,
                 health' = h \/ health' = Failed(h)
          PROVE  OpenHasFailed'
      BY <3>4, FailedStaysFailed DEF OpenHasFailed
    <3>5. CASE health' = Failed(Failed(health))
      BY <3>1, <3>3, <3>5, FailedStaysFailed DEF OpenHasFailed
    <3>6. CASE health' = Healthy \/ health' = Failed(Healthy)
      BY <3>1, <3>2, <3>6, FailedStaysFailed DEF OpenHasFailed
    <3> QED BY <2>2, <3>4, <3>5, <3>6, HealthSteps
  <2> QED BY <2>1, <2>2
<1> QED BY <1>1, <1>2, SpecIInv, PTL DEF Spec

\* A writer whose failures barred it from a handoff is offered again only by a
\* write that has succeeded in time, so that the checksum it then publishes is
\* that of the snapshot in Redis (metrics and execute, snapshot.ts:494-539),
\* whatever writes were late or failed in between.
THEOREM HandoffResumesAlways == Spec => HandoffResumesOnStoredChecksum
<1> DEFINE A == ~HandoffEnabled /\ HandoffEnabled' => lastChecksum' = stored'
<1>1. IInv /\ OpenHasFailed /\ [Next]_vars => [A]_vars
  <2> SUFFICES ASSUME IInv, OpenHasFailed, Next,
                      ~HandoffEnabled, lastChecksum' # stored'
               PROVE  ~HandoffEnabled'
    BY DEF vars
  <2>1. health \in Health /\ Failed(health) \in Health
    BY FailedIsHealth DEF IInv, TypeOK
  <2>2. health.failures >= FailureThreshold
    BY <2>1, ThresholdAssumption DEF OpenHasFailed, HandoffEnabled, Health
  <2>3. ASSUME NEW h \in Health, h.failures = health.failures,
               health' = h \/ health' = Failed(h)
        PROVE  health'.failures >= FailureThreshold
    BY <2>2, <2>3, FailedStaysFailed
  <2>4. ASSUME health' = Failed(Failed(health))
        PROVE  health'.failures >= FailureThreshold
    BY <2>1, <2>2, <2>4, FailedStaysFailed
  <2>5. health'.failures >= FailureThreshold
    BY <2>3, <2>4, HealthSteps
  <2>6. health' \in Health
    BY <2>1, HealthSteps, FailedIsHealth
  <2> QED BY <2>5, <2>6, ThresholdAssumption DEF HandoffEnabled, Health
<1> QED
  BY <1>1, SpecIInv, OpenHasFailedAlways, PTL
     DEF Spec, HandoffResumesOnStoredChecksum

=============================================================================
