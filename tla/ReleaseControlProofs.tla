------------------------- MODULE ReleaseControlProofs -------------------------
(***************************************************************************)
(* Theorems about the release gate, for any operations, revisions, rooms   *)
(* and faults.                                                             *)
(***************************************************************************)
EXTENDS ReleaseControl, FiniteSetTheorems, TLAPS

\* The stream is a sequence, of whatever entries.
IsStream == \E S : stream \in Seq(S)

\* The entries that the stream has of a running operation are its own.
EntriesAreOfTheTask ==
    \A op \in Operation, i \in DOMAIN stream :
        task[op].step # "idle" /\ stream[i].op = op =>
            /\ stream[i].kind = task[op].kind
            /\ stream[i].revision = task[op].revision
            /\ stream[i].id = task[op].id

Fields == {"kind", "revision", "step", "id", "digest", "polls", "healthy",
           "approved", "partial", "rooms"}

\* Every operation has a task; reservations that are being looked up are for
\* operations.
CheckingIsTyped ==
    /\ DOMAIN task = Operation
    /\ \A op \in Operation : DOMAIN task[op] = Fields
    /\ IsFiniteSet(checking)
    /\ \A c \in checking : c.op \in Operation

IInv ==
    /\ CheckingIsTyped
    /\ OneRelease
    /\ IsStream
    /\ EntriesAreOfTheTask
    /\ IdNamesOneOperation

-----------------------------------------------------------------------------

\* What the stream is after one more entry (publish, events.ts).
LEMMA Appended ==
    ASSUME NEW S, NEW s \in Seq(S), NEW e
    PROVE  /\ \E T : Append(s, e) \in Seq(T)
           /\ \A i \in DOMAIN Append(s, e) :
                 \/ i \in DOMAIN s /\ Append(s, e)[i] = s[i]
                 \/ Append(s, e)[i] = e
<1>1. s \in Seq(S \cup {e})
  <2>1. s \in [1..Len(s) -> S] /\ Len(s) \in Nat
    OBVIOUS
  <2>2. s \in [1..Len(s) -> S \cup {e}]
    BY <2>1
  <2> QED BY <2>1, <2>2
<1>2. /\ Append(s, e) \in Seq(S \cup {e})
      /\ DOMAIN Append(s, e) = 1..Len(s) + 1
      /\ DOMAIN s = 1..Len(s) /\ Len(s) \in Nat
      /\ \A i \in 1..Len(s) : Append(s, e)[i] = s[i]
      /\ Append(s, e)[Len(s) + 1] = e
  BY <1>1
<1>3. ASSUME NEW i \in DOMAIN Append(s, e)
      PROVE  \/ i \in DOMAIN s /\ Append(s, e)[i] = s[i]
             \/ Append(s, e)[i] = e
  <2>1. i \in 1..Len(s) \/ i = Len(s) + 1
    BY <1>2
  <2> QED BY <1>2, <2>1
<1> QED BY <1>2, <1>3

\* Nothing is reserved, running or stored at first.
LEMMA InitIInv == Init => IInv
<1> SUFFICES ASSUME Init PROVE IInv
  OBVIOUS
<1>1. CheckingIsTyped
  BY FS_EmptySet DEF Init, CheckingIsTyped, Idle, Fields
<1>2. OneRelease
  <2>1. \A op \in Operation : task[op].step = "idle"
    BY DEF Init, Idle
  <2>2. Cardinality(checking) = 0
    BY FS_EmptySet DEF Init
  <2> QED BY <2>1, <2>2 DEF Init, OneRelease
<1>3. stream \in Seq({})
  BY DEF Init
<1>4. EntriesAreOfTheTask /\ IdNamesOneOperation
  BY DEF Init, EntriesAreOfTheTask, IdNamesOneOperation
<1> QED BY <1>1, <1>2, <1>3, <1>4 DEF IInv, IsStream

\* How the steps of a running operation change the gate and its task: it goes
\* on as the same operation, or it ends.
Proceeds(op) ==
    /\ task[op].step # "idle"
    /\ DOMAIN task' = DOMAIN task
    /\ DOMAIN task'[op] = Fields
    /\ \A q \in Operation : q # op => task'[q] = task[q]
    /\ checking' = checking
    /\ \/ /\ active' = active
          /\ task'[op].kind = task[op].kind
          /\ task'[op].revision = task[op].revision
          /\ task'[op].id = task[op].id
       \/ active' = Settled(op) /\ task'[op].step = "idle"

\* It publishes nothing, or an entry of its own.
PublishesOwn(op) ==
    \/ stream' = stream
    \/ \E subject, digest, complete :
          stream' = Append(stream, Entry(op, subject, digest, complete))

\* A step of a running operation keeps the invariant.
LEMMA ProceedsKeepsIInv ==
    ASSUME IInv, NEW op \in Operation, Proceeds(op), PublishesOwn(op)
    PROVE  IInv'
<1>1. active = op
  BY DEF IInv, OneRelease, Proceeds
<1>2. CheckingIsTyped'
  BY DEF IInv, CheckingIsTyped, Proceeds
<1>3. OneRelease'
  BY <1>1 DEF IInv, OneRelease, Proceeds, Settled
<1>4. /\ IsStream'
      /\ \A i \in DOMAIN stream' :
            \/ i \in DOMAIN stream /\ stream'[i] = stream[i]
            \/ /\ stream'[i].op = op
               /\ stream'[i].kind = task[op].kind
               /\ stream'[i].revision = task[op].revision
               /\ stream'[i].id = task[op].id
  <2>1. CASE stream' = stream
    BY <2>1 DEF IInv, IsStream
  <2>2. ASSUME NEW subject, NEW digest, NEW complete,
               stream' = Append(stream, Entry(op, subject, digest, complete))
        PROVE  /\ IsStream'
               /\ \A i \in DOMAIN stream' :
                     \/ i \in DOMAIN stream /\ stream'[i] = stream[i]
                     \/ /\ stream'[i].op = op
                        /\ stream'[i].kind = task[op].kind
                        /\ stream'[i].revision = task[op].revision
                        /\ stream'[i].id = task[op].id
    <3> DEFINE e == Entry(op, subject, digest, complete)
    <3>1. /\ e.op = op /\ e.kind = task[op].kind
          /\ e.revision = task[op].revision /\ e.id = task[op].id
      BY DEF Entry
    <3>2. PICK S : stream \in Seq(S)
      BY DEF IInv, IsStream
    <3> HIDE DEF e
    <3>3. stream' = Append(stream, e)
      BY <2>2 DEF e
    <3>4. /\ \E T : Append(stream, e) \in Seq(T)
          /\ \A i \in DOMAIN Append(stream, e) :
                \/ i \in DOMAIN stream /\ Append(stream, e)[i] = stream[i]
                \/ Append(stream, e)[i] = e
      BY <3>2, Appended
    <3>5. IsStream'
      BY <3>3, <3>4 DEF IsStream
    <3> QED BY <3>1, <3>3, <3>4, <3>5
  <2> QED BY <2>1, <2>2 DEF PublishesOwn
<1>5. EntriesAreOfTheTask'
  BY <1>4 DEF IInv, EntriesAreOfTheTask, Proceeds
<1>6. IdNamesOneOperation'
  BY <1>4 DEF IInv, EntriesAreOfTheTask, IdNamesOneOperation, Proceeds
<1> QED BY <1>2, <1>3, <1>4, <1>5, <1>6 DEF IInv

-----------------------------------------------------------------------------

\* Every step of a canary validation goes on with its own operation or ends
\* it, and publishes nothing but the operation's events.
LEMMA CanaryProceeds ==
    ASSUME IInv, NEW op \in Operation, Canary(op)
    PROVE  Proceeds(op) /\ PublishesOwn(op)
<1> USE DEF IInv, CheckingIsTyped, Proceeds, PublishesOwn, At, gateVars, Fields
<1>1. CASE Patch(op)
  BY <1>1 DEF Patch, Goes
<1>2. CASE PatchTimesOut(op)
  BY <1>2 DEF PatchTimesOut, Abort, Idle
<1>3. CASE Announce(op)
  BY <1>3 DEF Announce, Publishes, Goes
<1>4. CASE AnnounceFails(op)
  BY <1>4 DEF AnnounceFails, PublishFails, Abort, Idle
<1>5. CASE Waits(op)
  BY <1>5 DEF Waits
<1>6. CASE BecomesReady(op)
  BY <1>6 DEF BecomesReady
<1>7. CASE NotReady(op)
  BY <1>7 DEF NotReady
<1>8. CASE LoadStarts(op)
  BY <1>8 DEF LoadStarts, Goes
<1>9. CASE LoadUnavailable(op)
  BY <1>9 DEF LoadUnavailable
<1>10. CASE HealthyPoll(op)
  BY <1>10 DEF HealthyPoll
<1>11. CASE FailedPoll(op)
  BY <1>11 DEF FailedPoll, Spoiled
<1>12. CASE PollsEnd(op)
  BY <1>12 DEF PollsEnd, Goes
<1>13. CASE LoadStops(op)
  BY <1>13 DEF LoadStops, Goes
<1>14. CASE LoadStopFails(op)
  BY <1>14 DEF LoadStopFails, Uncleaned
<1>15. CASE Decide(op)
  BY <1>15 DEF Decide, Publishes, Decision, Goes
<1>16. CASE Seal(op)
  BY <1>16 DEF Seal, Publishes, Bundle, Release, Idle
<1>17. CASE ValidationFails(op)
  BY <1>17 DEF ValidationFails, PublishFails, Decision, Bundle, Release, Idle
<1> QED BY <1>1, <1>2, <1>3, <1>4, <1>5, <1>6, <1>7, <1>8, <1>9, <1>10,
           <1>11, <1>12, <1>13, <1>14, <1>15, <1>16, <1>17 DEF Canary

\* So does every step of a handoff.
LEMMA HandoffProceeds ==
    ASSUME IInv, NEW op \in Operation, Handoff(op)
    PROVE  Proceeds(op) /\ PublishesOwn(op)
<1> USE DEF IInv, CheckingIsTyped, Proceeds, PublishesOwn, At, gateVars, Fields
<1>1. CASE Approve(op)
  BY <1>1 DEF Approve
<1>2. CASE NotApproved(op)
  BY <1>2 DEF NotApproved, Abort, Idle
<1>3. CASE HandOff(op)
  BY <1>3 DEF HandOff, Publishes
<1>4. CASE HandOffFails(op)
  BY <1>4 DEF HandOffFails, Publishes, Release, Idle
<1>5. CASE WavesEnd(op)
  BY <1>5 DEF WavesEnd, Goes, Release, Idle
<1>6. CASE Reports(op)
  BY <1>6 DEF Reports, Publishes, PublishFails, Report, Release, Idle
<1>7. CASE TargetUnresolved(op)
  BY <1>7 DEF TargetUnresolved, Release, Abort, Idle
<1> QED BY <1>1, <1>2, <1>3, <1>4, <1>5, <1>6, <1>7 DEF Handoff

-----------------------------------------------------------------------------

\* A request reserves the gate only while nothing else does.
LEMMA RequestKeepsIInv ==
    ASSUME IInv, NEW op \in Operation, NEW kind, NEW revision, NEW rooms,
           ReserveBegins(kind, op, revision, rooms)
    PROVE  IInv'
<1> DEFINE c == [kind |-> kind, op |-> op, revision |-> revision,
                 rooms |-> rooms]
<1>1. /\ checking = {} /\ active = None
      /\ checking' = {c}
      /\ c.op = op
      /\ UNCHANGED <<active, task, stream>>
  BY DEF ReserveBegins, GateIsFree
<1> HIDE DEF c
<1>2. IsFiniteSet({c}) /\ Cardinality({c}) = 1
  BY FS_Singleton
<1>3. CheckingIsTyped'
  BY <1>1, <1>2 DEF IInv, CheckingIsTyped
<1>4. OneRelease'
  BY <1>1, <1>2 DEF IInv, OneRelease
<1>5. IsStream' /\ EntriesAreOfTheTask' /\ IdNamesOneOperation'
  BY <1>1 DEF IInv, IsStream, EntriesAreOfTheTask, IdNamesOneOperation
<1> QED BY <1>3, <1>4, <1>5 DEF IInv

\* One reservation less is being looked up.
LEMMA LookedUp ==
    ASSUME IInv, NEW c \in checking
    PROVE  checking \ {c} = {} /\ IsFiniteSet(checking \ {c})
<1>1. IsFiniteSet(checking) /\ Cardinality(checking) <= 1
  BY DEF IInv, CheckingIsTyped, OneRelease
<1>2. /\ IsFiniteSet(checking \ {c})
      /\ Cardinality(checking \ {c}) = Cardinality(checking) - 1
  BY <1>1, FS_RemoveElement
<1>3. Cardinality(checking) \in Nat /\ Cardinality(checking \ {c}) \in Nat
  BY <1>1, <1>2, FS_CardinalityType
<1>4. Cardinality(checking \ {c}) = 0
  BY <1>1, <1>2, <1>3
<1> QED BY <1>2, <1>4, FS_EmptySet

\* A reservation that is refused leaves the gate as it was.
LEMMA ReserveRefusedKeepsIInv ==
    ASSUME IInv, NEW c \in checking, ReserveRefused(c)
    PROVE  IInv'
<1>1. checking' = {} /\ UNCHANGED <<active, task, stream>>
  BY LookedUp DEF ReserveRefused
<1>2. CheckingIsTyped'
  BY <1>1, FS_EmptySet DEF IInv, CheckingIsTyped
<1>3. OneRelease'
  BY <1>1, FS_EmptySet DEF IInv, OneRelease
<1>4. IsStream' /\ EntriesAreOfTheTask' /\ IdNamesOneOperation'
  BY <1>1 DEF IInv, IsStream, EntriesAreOfTheTask, IdNamesOneOperation
<1> QED BY <1>2, <1>3, <1>4 DEF IInv

\* A reservation is given to an operation of which nothing is stored, while
\* no other runs.
LEMMA ReservedKeepsIInv ==
    ASSUME IInv, None \notin Operation, NEW c \in checking, Reserved(c)
    PROVE  IInv'
<1>1. /\ checking' = {} /\ active = None /\ active' = c.op
      /\ c.op \in Operation
      /\ UNCHANGED stream
      /\ \A i \in DOMAIN stream : stream[i].op # c.op
  BY LookedUp DEF IInv, CheckingIsTyped, OneRelease, Reserved, Persisted
<1>2. /\ DOMAIN task' = Operation
      /\ DOMAIN task'[c.op] = Fields
      /\ \A q \in Operation : q # c.op => task'[q] = task[q]
  BY <1>1 DEF IInv, CheckingIsTyped, Reserved, Idle, Fields
<1>3. CheckingIsTyped'
  BY <1>1, <1>2, FS_EmptySet DEF IInv, CheckingIsTyped
<1>4. OneRelease'
  BY <1>1, <1>2, FS_EmptySet DEF IInv, OneRelease
<1>5. IsStream' /\ EntriesAreOfTheTask' /\ IdNamesOneOperation'
  BY <1>1, <1>2 DEF IInv, IsStream, EntriesAreOfTheTask, IdNamesOneOperation
<1> QED BY <1>3, <1>4, <1>5 DEF IInv

\* What happens around the operations disturbs none of them, but for the
\* restart, which ends them all.
LEMMA EnvironmentKeepsIInv ==
    ASSUME IInv, Environment \/ UNCHANGED vars
    PROVE  IInv'
<1>1. CASE Restart
  <2>1. /\ checking' = {} /\ UNCHANGED stream
        /\ DOMAIN task' = Operation
        /\ \A op \in Operation : /\ DOMAIN task'[op] = Fields
                                 /\ task'[op].step = "idle"
    BY <1>1 DEF Restart, Idle, Fields
  <2>2. CheckingIsTyped'
    BY <2>1, FS_EmptySet DEF CheckingIsTyped
  <2>3. OneRelease'
    BY <2>1, FS_EmptySet DEF OneRelease
  <2>4. IsStream' /\ EntriesAreOfTheTask' /\ IdNamesOneOperation'
    BY <2>1 DEF IInv, IsStream, EntriesAreOfTheTask, IdNamesOneOperation
  <2> QED BY <2>2, <2>3, <2>4 DEF IInv
<1>2. CASE UNCHANGED <<checking, active, task, stream>>
  BY <1>2 DEF IInv, CheckingIsTyped, OneRelease, IsStream,
              EntriesAreOfTheTask, IdNamesOneOperation
<1>3. Environment /\ ~Restart => UNCHANGED <<checking, active, task, stream>>
  BY DEF Environment, LatePatch, CanaryPodStarts, Retag, RoomMutation, gateVars
<1>4. UNCHANGED vars => UNCHANGED <<checking, active, task, stream>>
  BY DEF vars, gateVars
<1> QED BY <1>1, <1>2, <1>3, <1>4

-----------------------------------------------------------------------------

\* Every step keeps the invariant.
LEMMA NextIInv ==
    ASSUME None \notin Operation, IInv, [Next]_vars
    PROVE  IInv'
<1>1. CASE \E op \in Operation : Request(op)
  BY <1>1, RequestKeepsIInv DEF Request
<1>2. CASE \E op \in Operation : Canary(op)
  BY <1>2, CanaryProceeds, ProceedsKeepsIInv
<1>3. CASE \E op \in Operation : Handoff(op)
  BY <1>3, HandoffProceeds, ProceedsKeepsIInv
<1>4. CASE \E c \in checking : Reserving(c)
  BY <1>4, ReserveRefusedKeepsIInv, ReservedKeepsIInv DEF Reserving
<1>5. CASE Environment \/ UNCHANGED vars
  BY <1>5, EnvironmentKeepsIInv
<1> QED BY <1>1, <1>2, <1>3, <1>4, <1>5 DEF Next

\* At most one release operation runs (release-control.ts:32-62), and all the
\* stored events of an operation id are those of one operation, through
\* failed publishes, lost answers and restarts.
THEOREM OneReleaseAlways ==
    ASSUME None \notin Operation
    PROVE  Spec => [](OneRelease /\ IdNamesOneOperation)
<1>1. Init => IInv
  BY InitIInv
<1>2. IInv /\ [Next]_vars => IInv'
  BY NextIInv
<1>3. IInv => OneRelease /\ IdNamesOneOperation
  BY DEF IInv
<1> QED BY <1>1, <1>2, <1>3, PTL DEF Spec

-----------------------------------------------------------------------------
(* What reaches the live rooms: LiveIsValidated and ApprovedLeavesNoLoad.   *)

\* What an operation knows of the image it validates or deploys: every poll has
\* seen the image that was ready, an approved one was found healthy and its load
\* was stopped, and a handoff deploys an image that was found healthy.
Known(op) ==
    /\ task[op].step \in {"patching", "announcing", "readiness", "starting"}
         => task[op].healthy = {}
    /\ task[op].step = "polling" =>
         /\ task[op].polls \in Nat
         /\ task[op].healthy \subseteq {task[op].digest}
         /\ task[op].polls # 0 => task[op].healthy = {task[op].digest}
    /\ task[op].step = "cleaning" /\ task[op].approved
         => task[op].healthy = {task[op].digest}
    /\ task[op].step = "deciding" /\ task[op].approved
         => task[op].digest \in validated /\ op \notin load
    /\ task[op].step = "waves" => task[op].digest \in validated

\* An approval that is stored was of a healthy image, whose load was stopped; its
\* operation has nothing to do but to seal the bundle.
ApprovalsHold ==
    \A i \in DOMAIN stream :
        stream[i].subject = "PromotionApproved" =>
            /\ stream[i].digest \in validated
            /\ stream[i].op \notin load
            /\ stream[i].op \in Operation
            /\ task[stream[i].op].step \in {"sealing", "idle"}

\* A bundle is the last event of its operation, which has ended.
BundlesEnd ==
    \A i \in DOMAIN stream :
        stream[i].subject = "EvidenceBundleSealed" =>
            /\ stream[i].op \in Operation
            /\ task[stream[i].op].step = "idle"
            /\ \A j \in DOMAIN stream : stream[j].op = stream[i].op => j <= i

LiveInv ==
    /\ DOMAIN image = Room
    /\ LiveIsValidated
    /\ \A op \in Operation : Known(op)
    /\ ApprovalsHold
    /\ BundlesEnd

LEMMA InitLiveInv == Init => LiveInv
<1> SUFFICES ASSUME Init PROVE LiveInv
  OBVIOUS
<1>1. \A op \in Operation : task[op].step = "idle"
  BY DEF Init, Idle
<1>2. \A op \in Operation : Known(op)
  BY <1>1 DEF Known
<1> QED BY <1>2 DEF Init, LiveInv, LiveIsValidated, ApprovalsHold, BundlesEnd

\* The image that an approval is found for was found healthy: the last event of
\* its operation is the bundle, and the approval before it names the same image
\* (sealedCanaryApprovalForRevision, release-control.ts).
LEMMA ApprovedIsValidated ==
    ASSUME IInv, LiveInv, NEW revision, NEW d \in ApprovedDigests(revision)
    PROVE  d \in validated
<1>1. PICK i \in DOMAIN stream : /\ stream[i].subject = "EvidenceBundleSealed"
                                 /\ Sealed(stream[i].op, revision)
                                 /\ d = stream[i].digest
  BY DEF ApprovedDigests
<1> DEFINE mine == {k \in DOMAIN stream : stream[k].op = stream[i].op}
           last == CHOOSE k \in mine : \A j \in mine : j <= k
<1>2. DOMAIN stream \subseteq Nat
  BY DEF IInv, IsStream
<1>3. i \in mine /\ \A j \in mine : j <= i
  BY <1>1 DEF LiveInv, BundlesEnd
<1>4. last \in mine /\ \A j \in mine : j <= last
  BY <1>3
<1> HIDE DEF last
<1>5. last = i
  BY <1>2, <1>3, <1>4
<1>6. PICK k \in mine : /\ stream[k].subject = "PromotionApproved"
                        /\ stream[k].digest = stream[last].digest
  BY <1>1 DEF Sealed, last
<1> QED BY <1>1, <1>5, <1>6 DEF LiveInv, ApprovalsHold

\* How a running operation changes what is known of images, and what it may
\* publish.
Learns(op) ==
    /\ task[op].step # "idle"
    /\ \A q \in Operation : q # op => task'[q] = task[q]
    /\ Known(op)'
    /\ validated \subseteq validated'
    /\ load' \subseteq load \cup {op}
    /\ op \in load' => op \in load \/ task[op].step = "starting"
    /\ task[op].step = "sealing" => task'[op].step = "idle"
    /\ \/ image' = image
       \/ /\ task[op].step = "waves"
          /\ image' = [image EXCEPT ![Head(task[op].rooms)] = task[op].digest]

PublishesKnown(op) ==
    \/ stream' = stream
    \/ \E subject, digest, complete :
          /\ stream' = Append(stream, Entry(op, subject, digest, complete))
          /\ subject = "PromotionApproved" =>
                /\ digest \in validated
                /\ op \notin load'
                /\ task'[op].step \in {"sealing", "idle"}
          /\ subject = "EvidenceBundleSealed" => task'[op].step = "idle"

LEMMA LearnsKeepsLiveInv ==
    ASSUME IInv, LiveInv, NEW op \in Operation, Learns(op), PublishesKnown(op)
    PROVE  LiveInv'
<1>1. DOMAIN image' = Room /\ LiveIsValidated'
  BY DEF LiveInv, LiveIsValidated, Known, Learns
<1>2. ASSUME NEW q \in Operation PROVE Known(q)'
  <2>1. CASE q = op
    BY <2>1 DEF Learns
  <2>2. CASE q # op
    BY <2>2 DEF Learns, LiveInv, Known
  <2> QED BY <2>1, <2>2
<1>3. \A i \in DOMAIN stream :
         stream[i].subject = "EvidenceBundleSealed" => stream[i].op # op
  BY DEF LiveInv, BundlesEnd, Learns
<1>4. PICK S : stream \in Seq(S)
  BY DEF IInv, IsStream
<1>5. \A i \in DOMAIN stream : stream[i].subject = "PromotionApproved" =>
         /\ stream[i].digest \in validated'
         /\ stream[i].op \notin load'
         /\ stream[i].op \in Operation
         /\ task'[stream[i].op].step \in {"sealing", "idle"}
  BY DEF LiveInv, ApprovalsHold, Learns
<1>6. CASE stream' = stream
  <2>1. ApprovalsHold'
    BY <1>5, <1>6 DEF ApprovalsHold
  <2>2. BundlesEnd'
    BY <1>3, <1>6 DEF LiveInv, BundlesEnd, Learns
  <2> QED BY <1>1, <1>2, <2>1, <2>2 DEF LiveInv
<1>7. ASSUME NEW subject, NEW digest, NEW complete,
             stream' = Append(stream, Entry(op, subject, digest, complete)),
             subject = "PromotionApproved" =>
                /\ digest \in validated
                /\ op \notin load'
                /\ task'[op].step \in {"sealing", "idle"},
             subject = "EvidenceBundleSealed" => task'[op].step = "idle"
      PROVE  LiveInv'
  <2> DEFINE e == Entry(op, subject, digest, complete)
  <2>1. e.op = op /\ e.subject = subject /\ e.digest = digest
    BY DEF Entry
  <2>2. stream' = Append(stream, e)
    BY <1>7
  <2> HIDE DEF e
  <2>3. /\ DOMAIN stream = 1..Len(stream) /\ Len(stream) \in Nat
        /\ DOMAIN stream' = 1..Len(stream) + 1
        /\ \A i \in DOMAIN stream : stream'[i] = stream[i]
        /\ stream'[Len(stream) + 1] = e
    <3>1. stream \in Seq(S \cup {e})
      <4>1. stream \in [1..Len(stream) -> S] /\ Len(stream) \in Nat
        BY <1>4
      <4>2. stream \in [1..Len(stream) -> S \cup {e}]
        BY <4>1
      <4> QED BY <4>1, <4>2
    <3> QED BY <2>2, <3>1
  <2>4. \A i \in DOMAIN stream' : i \in DOMAIN stream \/ i = Len(stream) + 1
    BY <2>3
  <2>5. ApprovalsHold'
    BY <1>5, <1>7, <2>1, <2>3, <2>4 DEF ApprovalsHold, Learns
  <2>6. BundlesEnd'
    <3> SUFFICES ASSUME NEW i \in DOMAIN stream',
                        stream'[i].subject = "EvidenceBundleSealed"
                 PROVE  /\ stream'[i].op \in Operation
                        /\ task'[stream'[i].op].step = "idle"
                        /\ \A j \in DOMAIN stream' :
                              stream'[j].op = stream'[i].op => j <= i
      BY DEF BundlesEnd
    <3>1. CASE i \in DOMAIN stream
      BY <1>3, <2>1, <2>3, <2>4, <3>1 DEF LiveInv, BundlesEnd, Learns
    <3>2. CASE i = Len(stream) + 1
      BY <1>7, <2>1, <2>3, <3>2
    <3> QED BY <2>4, <3>1, <3>2
  <2> QED BY <1>1, <1>2, <2>5, <2>6 DEF LiveInv
<1> QED BY <1>6, <1>7 DEF PublishesKnown

\* A validation approves an image only after every poll has found it healthy and
\* its load was stopped (runCanaryValidation).
LEMMA CanaryLearns ==
    ASSUME IInv, LiveInv, MaxPolls \in Nat \ {0},
           NEW op \in Operation, Canary(op)
    PROVE  Learns(op) /\ PublishesKnown(op)
<1> USE DEF IInv, CheckingIsTyped, LiveInv, Known, Learns, PublishesKnown, At,
            Fields
<1>1. CASE Patch(op)
  BY <1>1 DEF Patch, Goes
<1>2. CASE PatchTimesOut(op)
  BY <1>2 DEF PatchTimesOut, Abort, Idle
<1>3. CASE Announce(op)
  <2>1. Learns(op)
    BY <1>3 DEF Announce, Goes, clusterVars
  <2>2. stream' = Append(stream,
                         Entry(op, "ReleasePolicyEvaluated", None, FALSE))
    BY <1>3 DEF Announce, Publishes
  <2> QED BY <2>1, <2>2
<1>4. CASE AnnounceFails(op)
  BY <1>4 DEF AnnounceFails, PublishFails, Abort, Idle, clusterVars
<1>5. CASE Waits(op)
  BY <1>5 DEF Waits, clusterVars
<1>6. CASE BecomesReady(op)
  BY <1>6 DEF BecomesReady, clusterVars
<1>7. CASE NotReady(op)
  BY <1>7 DEF NotReady, clusterVars
<1>8. CASE LoadStarts(op)
  BY <1>8 DEF LoadStarts, Goes
<1>9. CASE LoadUnavailable(op)
  BY <1>9 DEF LoadUnavailable
<1>10. CASE HealthyPoll(op)
  BY <1>10 DEF HealthyPoll, clusterVars
<1>11. CASE FailedPoll(op)
  BY <1>11 DEF FailedPoll, Spoiled, clusterVars
<1>12. CASE PollsEnd(op)
  BY <1>12 DEF PollsEnd, Goes, clusterVars
<1>13. CASE LoadStops(op)
  <2>1. task[op].approved => task[op].digest \in validated'
    <3>1. Cardinality({task[op].digest}) = 1
      BY FS_Singleton
    <3> QED BY <1>13, <3>1 DEF LoadStops
  <2>2. validated \subseteq validated' /\ load' = load \ {op}
    BY <1>13 DEF LoadStops
  <2>3. /\ \A q \in Operation : q # op => task'[q] = task[q]
        /\ task'[op].step = "deciding"
        /\ task'[op].approved = task[op].approved
        /\ task'[op].digest = task[op].digest
    BY <1>13 DEF LoadStops, Goes
  <2> QED BY <1>13, <2>1, <2>2, <2>3 DEF LoadStops
<1>14. CASE LoadStopFails(op)
  BY <1>14 DEF LoadStopFails, Uncleaned, clusterVars
<1>15. CASE Decide(op)
  BY <1>15 DEF Decide, Publishes, Decision, Goes, clusterVars
<1>16. CASE Seal(op)
  BY <1>16 DEF Seal, Publishes, Bundle, Release, Idle, clusterVars
<1>17. CASE ValidationFails(op)
  BY <1>17 DEF ValidationFails, PublishFails, Decision, Bundle, Release, Idle
<1> QED BY <1>1, <1>2, <1>3, <1>4, <1>5, <1>6, <1>7, <1>8, <1>9, <1>10,
           <1>11, <1>12, <1>13, <1>14, <1>15, <1>16, <1>17 DEF Canary

\* A handoff deploys what it was approved for (main.ts and canary-rollout.ts).
LEMMA HandoffLearns ==
    ASSUME IInv, LiveInv, NEW op \in Operation, Handoff(op)
    PROVE  Learns(op) /\ PublishesKnown(op)
<1> USE DEF IInv, CheckingIsTyped, LiveInv, Known, Learns, PublishesKnown, At,
            Fields, clusterVars
<1>1. CASE Approve(op)
  <2>1. PICK d \in ApprovedDigests(task[op].revision) :
           task' = [task EXCEPT ![op].step = "waves", ![op].digest = d,
                                ![op].rooms = Captured(op)]
    BY <1>1 DEF Approve
  <2>2. d \in validated
    BY ApprovedIsValidated
  <2> QED BY <1>1, <2>1, <2>2 DEF Approve
<1>2. CASE NotApproved(op)
  BY <1>2 DEF NotApproved, Abort, Idle
<1>3. CASE HandOff(op)
  <2>1. Learns(op)
    BY <1>3 DEF HandOff, TargetImage
  <2>2. stream' = Append(stream, Entry(op, "RolloutWaveCompleted",
                                       TargetImage(op), TRUE))
    BY <1>3 DEF HandOff, Publishes
  <2> QED BY <2>1, <2>2
<1>4. CASE HandOffFails(op)
  BY <1>4 DEF HandOffFails, Publishes, Release, Idle, TargetImage
<1>5. CASE WavesEnd(op)
  BY <1>5 DEF WavesEnd, Goes, Release, Idle
<1>6. CASE Reports(op)
  BY <1>6 DEF Reports, Publishes, PublishFails, Report, Release, Idle
<1>7. CASE TargetUnresolved(op)
  BY <1>7 DEF TargetUnresolved, Release, Abort, Idle
<1> QED BY <1>1, <1>2, <1>3, <1>4, <1>5, <1>6, <1>7 DEF Handoff

\* A reservation is for an operation of which nothing is stored.
LEMMA ReservedKeepsLiveInv ==
    ASSUME IInv, LiveInv, NEW c \in checking, Reserved(c)
    PROVE  LiveInv'
<1>1. /\ c.op \in Operation
      /\ \A i \in DOMAIN stream : stream[i].op # c.op
      /\ \A q \in Operation : q # c.op => task'[q] = task[q]
      /\ UNCHANGED <<image, validated, stream, load>>
  BY DEF IInv, CheckingIsTyped, Reserved, Persisted, clusterVars
<1>2. /\ task'[c.op].step \in {"patching", "approving"}
      /\ task'[c.op].healthy = {}
  BY <1>1 DEF IInv, CheckingIsTyped, Reserved, Idle
<1>3. ASSUME NEW q \in Operation PROVE Known(q)'
  BY <1>1, <1>2 DEF LiveInv, Known
<1>4. LiveIsValidated' /\ ApprovalsHold' /\ BundlesEnd'
  BY <1>1 DEF LiveInv, LiveIsValidated, ApprovalsHold, BundlesEnd
<1> QED BY <1>1, <1>3, <1>4 DEF LiveInv

\* A restart forgets the operations; nothing else around them changes an image of
\* a live room, what was found healthy, or the load.
LEMMA EnvironmentKeepsLiveInv ==
    ASSUME IInv, LiveInv, Environment \/ UNCHANGED vars
    PROVE  LiveInv'
<1>1. /\ UNCHANGED <<image, validated, stream, load>>
      /\ task' = task \/ \A op \in Operation : task'[op].step = "idle"
  BY DEF Environment, LatePatch, CanaryPodStarts, Retag, RoomMutation, Restart,
         Idle, clusterVars, vars
<1> QED BY <1>1 DEF LiveInv, LiveIsValidated, Known, ApprovalsHold, BundlesEnd

\* A live room only runs an image that a canary was found healthy with, although
\* tags move, pods restart and publishes fail; and an approved canary has left no
\* bots in the canary room (canary.ts, release-control.ts).
THEOREM LiveIsValidatedAlways ==
    ASSUME None \notin Operation, MaxPolls \in Nat \ {0}
    PROVE  Spec => [](LiveIsValidated /\ ApprovedLeavesNoLoad)
<1>1. Init => IInv /\ LiveInv
  BY InitIInv, InitLiveInv
<1>2. ASSUME IInv, LiveInv, [Next]_vars PROVE (IInv /\ LiveInv)'
  <2>1. IInv'
    BY <1>2, NextIInv
  <2>2. ASSUME NEW op \in Operation, Request(op) PROVE LiveInv'
    BY <1>2, <2>2 DEF Request, ReserveBegins, clusterVars, LiveInv,
       LiveIsValidated, Known, ApprovalsHold, BundlesEnd
  <2>3. ASSUME NEW op \in Operation, Canary(op) \/ Handoff(op) PROVE LiveInv'
    BY <1>2, <2>3, CanaryLearns, HandoffLearns, LearnsKeepsLiveInv
  <2>4. ASSUME NEW c \in checking, Reserving(c) PROVE LiveInv'
    <3>1. CASE ReserveRefused(c)
      BY <1>2, <3>1 DEF ReserveRefused, clusterVars, LiveInv, LiveIsValidated,
         Known, ApprovalsHold, BundlesEnd
    <3> QED BY <1>2, <2>4, <3>1, ReservedKeepsLiveInv DEF Reserving
  <2>5. CASE Environment \/ UNCHANGED vars
    BY <1>2, <2>1, <2>5, EnvironmentKeepsLiveInv
  <2> QED BY <1>2, <2>1, <2>2, <2>3, <2>4, <2>5 DEF Next
<1>3. LiveInv => LiveIsValidated /\ ApprovedLeavesNoLoad
  BY DEF LiveInv, ApprovalsHold, ApprovedLeavesNoLoad
<1> QED BY <1>1, <1>2, <1>3, PTL DEF Spec

-----------------------------------------------------------------------------
(* The types.                                                              *)

\* The rooms are numbered from 1 on.
RoomsAreOrdinals == \E n \in Nat : Room = 1..n

CanaryFields == {"id", "revision", "digest"}

\* A deployment of the canary room, also one that is still on its way.
DeploymentTyped(d) ==
    /\ DOMAIN d = CanaryFields
    /\ d.revision \in Revision \cup {None}
    /\ d.digest \in Digest \cup {None}

TaskTyped(op) ==
    /\ task[op].kind \in Kinds \cup {None}
    /\ task[op].step \in CanarySteps \cup HandoffSteps \cup {"idle"}
    /\ task[op].revision \in Revision \cup {None}
    /\ task[op].digest \in Digest \cup {None}
    /\ task[op].healthy \subseteq Digest
    /\ task[op].rooms \in Seq(Room)

GateTyped ==
    /\ \A c \in checking : /\ c.kind \in Kinds
                           /\ c.revision \in Revision
                           /\ c.rooms \in Seq(Room)
    /\ knownOperationIds \subseteq Operation

\* The rooms that run are the first ones.
ClusterTyped ==
    /\ DeploymentTyped(canary)
    /\ \A p \in patches : DeploymentTyped(p)
    /\ load \subseteq Operation
    /\ tag \in [Revision -> {1, 2}]
    /\ image \in [Room -> Digest \cup {None}]
    /\ activeRooms \subseteq Room
    /\ \E k \in Nat : activeRooms = 1..k

StreamTyped ==
    \A i \in DOMAIN stream : /\ stream[i].subject \in Subjects
                             /\ stream[i].digest \in Digest \cup {None}

FindingsTyped == validated \subseteq Digest /\ faults \subseteq Fault

TypeInv ==
    /\ active \in Operation \cup {None}
    /\ \A op \in Operation : TaskTyped(op)
    /\ GateTyped /\ ClusterTyped /\ StreamTyped /\ FindingsTyped

LEMMA InitTypeInv == Init /\ RoomsAreOrdinals => TypeInv
<1> SUFFICES ASSUME Init, RoomsAreOrdinals PROVE TypeInv
  OBVIOUS
<1>1. \A op \in Operation : TaskTyped(op)
  <2>1. <<>> \in Seq(Room)
    OBVIOUS
  <2> QED BY <2>1 DEF Init, TaskTyped, Idle
<1>2. activeRooms \subseteq Room /\ \E k \in Nat : activeRooms = 1..k
  <2>1. PICK n \in Nat : Room = 1..n
    BY DEF RoomsAreOrdinals
  <2>2. Cardinality(Room) = n
    BY <2>1, FS_Interval
  <2>3. PICK k \in 0..n : activeRooms = {r \in Room : r <= k}
    BY <2>2 DEF Init
  <2>4. activeRooms = 1..k
    BY <2>1, <2>3
  <2> QED BY <2>3, <2>4
<1>3. ClusterTyped
  BY <1>2 DEF Init, ClusterTyped, DeploymentTyped, CanaryFields
<1> QED BY <1>1, <1>3 DEF Init, TypeInv, GateTyped, StreamTyped, FindingsTyped

\* The rooms that a rollout captures are rooms, in the order of their ordinals:
\* as the active ones are the first ones, there is such an order.
LEMMA CapturedIsTyped ==
    ASSUME TypeInv, NEW op \in Operation
    PROVE  Captured(op) \in Seq(Room)
<1>1. CASE task[op].kind = "handoff"
  BY <1>1 DEF TypeInv, TaskTyped, Captured
<1>2. CASE task[op].kind # "handoff"
  <2>1. PICK k \in Nat : activeRooms = 1..k
    BY DEF TypeInv, ClusterTyped
  <2>2. Cardinality(activeRooms) = k
    BY <2>1, FS_Interval
  <2> DEFINE sorted(s) == \A i, j \in DOMAIN s : i < j => s[i] < s[j]
             first == [i \in 1..k |-> i]
  <2>3. first \in [1..k -> activeRooms] /\ sorted(first)
    BY <2>1
  <2>4. Captured(op) = CHOOSE s \in [1..k -> activeRooms] : sorted(s)
    BY <1>2, <2>2 DEF Captured
  <2> HIDE DEF sorted
  <2>5. Captured(op) \in [1..k -> activeRooms]
    BY <2>3, <2>4
  <2>6. Captured(op) \in [1..k -> Room]
    BY <2>5 DEF TypeInv, ClusterTyped
  <2> QED BY <2>6
<1> QED BY <1>1, <1>2

\* How a running operation changes the data: its own task, the canary room, the
\* image of one room.
Handles(op) ==
    /\ TaskTyped(op)'
    /\ knownOperationIds' \subseteq knownOperationIds
    /\ canary' \in {canary, Deployed(task[op].id, task[op].revision)}
    /\ patches' \subseteq
          patches \cup {Deployed(task[op].id, task[op].revision)}
    /\ load' \subseteq load \cup {op}
    /\ UNCHANGED <<tag, activeRooms>>
    /\ \/ image' = image
       \/ \E r \in Room : image' = [image EXCEPT ![r] = task[op].digest]
    /\ validated' \subseteq validated \cup task[op].healthy
    /\ faults' = faults \/ \E kind : Occurs(kind)

PublishesTyped(op) ==
    \/ stream' = stream
    \/ \E subject \in Subjects, digest \in Digest \cup {None} :
          \E complete :
             stream' = Append(stream, Entry(op, subject, digest, complete))

LEMMA HandlesKeepsTypeInv ==
    ASSUME IInv, TypeInv, NEW op \in Operation, Proceeds(op), Handles(op),
           PublishesTyped(op)
    PROVE  TypeInv'
<1>1. active' \in Operation \cup {None}
  BY DEF TypeInv, Proceeds, Settled
<1>2. ASSUME NEW q \in Operation PROVE TaskTyped(q)'
  BY DEF TypeInv, TaskTyped, Handles, Proceeds
<1>3. GateTyped'
  BY DEF TypeInv, GateTyped, Handles, Proceeds
<1>4. DeploymentTyped(Deployed(task[op].id, task[op].revision))
  BY DEF TypeInv, TaskTyped, DeploymentTyped, Deployed, CanaryFields
<1>5. image' \in [Room -> Digest \cup {None}]
  BY DEF TypeInv, ClusterTyped, TaskTyped, Handles
<1>6. ClusterTyped'
  <2>1. DeploymentTyped(canary)' /\ \A p \in patches' : DeploymentTyped(p)
    <3> DEFINE d == Deployed(task[op].id, task[op].revision)
    <3>1. canary' \in {canary, d} /\ patches' \subseteq patches \cup {d}
      BY DEF Handles
    <3>2. DeploymentTyped(d) /\ DeploymentTyped(canary)
      BY <1>4 DEF TypeInv, ClusterTyped
    <3> HIDE DEF d
    <3>3. DeploymentTyped(canary')
      BY <3>1, <3>2
    <3> QED BY <3>1, <3>2, <3>3 DEF TypeInv, ClusterTyped, DeploymentTyped
  <2> QED BY <1>5, <2>1 DEF TypeInv, ClusterTyped, Handles, DeploymentTyped
<1>7. StreamTyped'
  <2>1. CASE stream' = stream
    BY <2>1 DEF TypeInv, StreamTyped
  <2>2. ASSUME NEW subject \in Subjects, NEW digest \in Digest \cup {None},
               NEW complete,
               stream' = Append(stream, Entry(op, subject, digest, complete))
        PROVE  StreamTyped'
    <3> DEFINE e == Entry(op, subject, digest, complete)
    <3>1. e.subject = subject /\ e.digest = digest
      BY DEF Entry
    <3>2. PICK S : stream \in Seq(S)
      BY DEF IInv, IsStream
    <3> HIDE DEF e
    <3>3. stream' = Append(stream, e)
      BY <2>2 DEF e
    <3>4. \A i \in DOMAIN Append(stream, e) :
             \/ i \in DOMAIN stream /\ Append(stream, e)[i] = stream[i]
             \/ Append(stream, e)[i] = e
      BY <3>2, Appended
    <3> QED BY <2>2, <3>1, <3>3, <3>4 DEF TypeInv, StreamTyped
  <2> QED BY <2>1, <2>2 DEF PublishesTyped
<1>8. FindingsTyped'
  BY DEF TypeInv, TaskTyped, FindingsTyped, Handles, Occurs
<1> QED BY <1>1, <1>2, <1>3, <1>6, <1>7, <1>8 DEF TypeInv

\* What an operation observes of the canary room is an image, or nothing.
LEMMA ObservedIsTyped ==
    ASSUME TypeInv, NEW op \in Operation
    PROVE  Observed(op) \in Digest \cup {None}
  BY DEF TypeInv, ClusterTyped, DeploymentTyped, Observed

\* Every step of a validation handles the data of its operation.
LEMMA CanaryHandles ==
    ASSUME IInv, TypeInv, NEW op \in Operation, Canary(op)
    PROVE  Handles(op) /\ PublishesTyped(op)
<1>1. /\ DOMAIN task = Operation /\ DOMAIN task[op] = Fields
      /\ TaskTyped(op)
      /\ Observed(op) \in Digest \cup {None}
      /\ <<>> \in Seq(Room)
  BY ObservedIsTyped DEF IInv, CheckingIsTyped, TypeInv
<1> USE <1>1 DEF TaskTyped, Handles, PublishesTyped, At, gateVars, clusterVars,
            Fields, CanarySteps
<1>2. CASE Patch(op)
  BY <1>2 DEF Patch, Goes
<1>3. CASE PatchTimesOut(op)
  BY <1>3 DEF PatchTimesOut, Abort, Idle
<1>4. CASE Announce(op)
  BY <1>4 DEF Announce, Publishes, Goes, Subjects
<1>5. CASE AnnounceFails(op)
  BY <1>5 DEF AnnounceFails, PublishFails, Abort, Idle, Subjects
<1>6. CASE Waits(op)
  BY <1>6 DEF Waits
<1>7. CASE BecomesReady(op)
  BY <1>7 DEF BecomesReady
<1>8. CASE NotReady(op)
  BY <1>8 DEF NotReady
<1>9. CASE LoadStarts(op)
  BY <1>9 DEF LoadStarts, Goes
<1>10. CASE LoadUnavailable(op)
  BY <1>10 DEF LoadUnavailable
<1>11. CASE HealthyPoll(op)
  BY <1>11 DEF HealthyPoll
<1>12. CASE FailedPoll(op)
  BY <1>12 DEF FailedPoll, Spoiled
<1>13. CASE PollsEnd(op)
  BY <1>13 DEF PollsEnd, Goes
<1>14. CASE LoadStops(op)
  BY <1>14 DEF LoadStops, Goes
<1>15. CASE LoadStopFails(op)
  BY <1>15 DEF LoadStopFails, Uncleaned
<1>16. CASE Decide(op)
  BY <1>16 DEF Decide, Publishes, Decision, Goes, Subjects
<1>17. CASE Seal(op)
  BY <1>17 DEF Seal, Publishes, Bundle, Release, Idle, Subjects
<1>18. CASE ValidationFails(op)
  BY <1>18 DEF ValidationFails, PublishFails, Decision, Bundle, Release, Idle,
     Subjects
<1> QED BY <1>2, <1>3, <1>4, <1>5, <1>6, <1>7, <1>8, <1>9, <1>10, <1>11,
           <1>12, <1>13, <1>14, <1>15, <1>16, <1>17, <1>18 DEF Canary

\* So does every step of a handoff, which replaces the image of a room.
LEMMA HandoffHandles ==
    ASSUME IInv, TypeInv, NEW op \in Operation, Handoff(op)
    PROVE  Handles(op) /\ PublishesTyped(op)
<1>1. /\ DOMAIN task = Operation /\ DOMAIN task[op] = Fields
      /\ TaskTyped(op)
      /\ Captured(op) \in Seq(Room)
      /\ <<>> \in Seq(Room)
  BY CapturedIsTyped DEF IInv, CheckingIsTyped, TypeInv
<1>2. task[op].rooms # <<>> => /\ Head(task[op].rooms) \in Room
                               /\ Tail(task[op].rooms) \in Seq(Room)
  BY <1>1 DEF TaskTyped
<1> USE <1>1 DEF TaskTyped, Handles, PublishesTyped, At, gateVars, clusterVars,
            Fields, HandoffSteps
<1>3. CASE Approve(op)
  <2>1. PICK d \in ApprovedDigests(task[op].revision) :
           task' = [task EXCEPT ![op].step = "waves", ![op].digest = d,
                                ![op].rooms = Captured(op)]
    BY <1>3 DEF Approve
  <2>2. d \in Digest \cup {None}
    BY DEF ApprovedDigests, TypeInv, StreamTyped
  <2> QED BY <1>3, <2>1, <2>2 DEF Approve
<1>4. CASE NotApproved(op)
  BY <1>4 DEF NotApproved, Abort, Idle
<1>5. CASE HandOff(op)
  <2>1. Handles(op)
    BY <1>2, <1>5 DEF HandOff, TargetImage, Publishes
  <2>2. PublishesTyped(op)
    BY <1>5 DEF HandOff, Publishes, TargetImage, Subjects
  <2> QED BY <2>1, <2>2
<1>6. CASE HandOffFails(op)
  <2>1. Handles(op)
    BY <1>2, <1>6 DEF HandOffFails, TargetImage, Release, Idle, Publishes
  <2>2. PublishesTyped(op)
    BY <1>6 DEF HandOffFails, Publishes, TargetImage, Subjects
  <2> QED BY <2>1, <2>2
<1>7. CASE WavesEnd(op)
  <2>1. (Goes(op, "reporting") /\ UNCHANGED gateVars) \/ Release(op)
    BY <1>7 DEF WavesEnd
  <2>4. /\ \/ task' = [task EXCEPT ![op].step = "reporting", ![op].polls = 0]
           \/ task' = [task EXCEPT ![op] = Idle]
        /\ UNCHANGED knownOperationIds
    BY <2>1 DEF Goes, Release
  <2>2. TaskTyped(op)'
    <3>1. CASE task' = [task EXCEPT ![op].step = "reporting", ![op].polls = 0]
      BY <3>1
    <3>2. CASE task' = [task EXCEPT ![op] = Idle]
      BY <3>2 DEF Idle
    <3> QED BY <2>4, <3>1, <3>2
  <2>3. knownOperationIds' \subseteq knownOperationIds
    BY <2>4
  <2> QED BY <1>7, <2>2, <2>3 DEF WavesEnd
<1>8. CASE Reports(op)
  BY <1>8 DEF Reports, Publishes, PublishFails, Report, Release, Idle, Subjects
<1>9. CASE TargetUnresolved(op)
  <2>1. /\ task' = [task EXCEPT ![op] = Idle]
        /\ \/ UNCHANGED knownOperationIds
           \/ knownOperationIds' = knownOperationIds \ {op}
    BY <1>9 DEF TargetUnresolved, Release, Abort
  <2>2. TaskTyped(op)'
    BY <2>1 DEF Idle
  <2>3. knownOperationIds' \subseteq knownOperationIds
    BY <2>1
  <2> QED BY <1>9, <2>2, <2>3 DEF TargetUnresolved
<1> QED BY <1>3, <1>4, <1>5, <1>6, <1>7, <1>8, <1>9 DEF Handoff

\* A request names a kind, a revision, and a room that runs.
LEMMA RequestKeepsTypeInv ==
    ASSUME TypeInv, NEW op \in Operation, Request(op)
    PROVE  TypeInv'
<1>1. PICK revision \in Revision, kind \in Kinds, rooms \in Seq(Room) :
          ReserveBegins(kind, op, revision, rooms)
  <2>1. \A room \in activeRooms : <<room>> \in Seq(Room)
    BY DEF TypeInv, ClusterTyped
  <2>2. <<>> \in Seq(Room)
    OBVIOUS
  <2> QED BY <2>1, <2>2 DEF Request, Kinds
<1>2. GateTyped'
  BY <1>1 DEF ReserveBegins, TypeInv, GateTyped
<1>3. UNCHANGED <<active, task, clusterVars, stream, validated, faults>>
  BY <1>1 DEF ReserveBegins
<1> QED BY <1>2, <1>3 DEF TypeInv, TaskTyped, ClusterTyped, DeploymentTyped,
           StreamTyped, FindingsTyped, clusterVars

\* The reserved operation is the one that was asked for.
LEMMA ReservingKeepsTypeInv ==
    ASSUME IInv, TypeInv, NEW c \in checking, Reserving(c)
    PROVE  TypeInv'
<1>1. /\ c.op \in Operation /\ c.kind \in Kinds /\ c.revision \in Revision
      /\ c.rooms \in Seq(Room)
      /\ DOMAIN task = Operation
  BY DEF IInv, CheckingIsTyped, TypeInv, GateTyped
<1>2. /\ active' \in {active, c.op}
      /\ checking' \subseteq checking
      /\ knownOperationIds' \subseteq knownOperationIds \cup {c.op}
      /\ UNCHANGED <<clusterVars, stream, validated, faults>>
  BY DEF Reserving, ReserveRefused, Reserved
<1>3. ASSUME NEW q \in Operation PROVE TaskTyped(q)'
  <2>1. CASE task'[q] = task[q]
    BY <2>1 DEF TypeInv, TaskTyped
  <2>2. CASE Reserved(c) /\ q = c.op
    BY <1>1, <2>2 DEF Reserved, Idle, TaskTyped, CanarySteps, HandoffSteps
  <2> QED BY <1>1, <2>1, <2>2 DEF Reserving, ReserveRefused, Reserved
<1> QED BY <1>1, <1>2, <1>3 DEF TypeInv, GateTyped, ClusterTyped,
           DeploymentTyped, StreamTyped, FindingsTyped, clusterVars

\* A pod of the canary room runs a build of its revision, and the rooms that run
\* stay the first ones when one is started or stopped.
LEMMA EnvironmentKeepsTypeInv ==
    ASSUME TypeInv, RoomsAreOrdinals, Environment \/ UNCHANGED vars
    PROVE  TypeInv'
<1> USE DEF TypeInv, TaskTyped, GateTyped, ClusterTyped, DeploymentTyped,
            StreamTyped, FindingsTyped, gateVars, clusterVars
<1>1. CASE \E p \in patches : LatePatch(p)
  BY <1>1 DEF LatePatch
<1>2. CASE CanaryPodStarts
  <2>1. /\ canary' = [canary EXCEPT !.digest = [revision |-> canary.revision,
                                               push |-> tag[canary.revision]]]
        /\ canary.revision \in Revision
    BY <1>2 DEF CanaryPodStarts
  <2>2. [revision |-> canary.revision, push |-> tag[canary.revision]] \in Digest
    BY <2>1 DEF Digest
  <2>3. DeploymentTyped(canary')
    BY <2>1, <2>2 DEF CanaryFields
  <2> QED BY <1>2, <2>3 DEF CanaryPodStarts
<1>3. CASE \E r \in Revision : Retag(r)
  BY <1>3 DEF Retag, Occurs
<1>4. ASSUME NEW room \in Room, RoomMutation(room) PROVE TypeInv'
  <2>1. PICK n \in Nat : Room = 1..n
    BY DEF RoomsAreOrdinals
  <2>2. PICK k \in Nat : activeRooms = 1..k
    OBVIOUS
  <2>3. activeRooms' = 1..room \/ activeRooms' = 1..room - 1
    <3>1. /\ \A q \in Room : /\ q < room => q \in activeRooms
                             /\ q > room => q \notin activeRooms
          /\ activeRooms' \in {activeRooms \cup {room}, activeRooms \ {room}}
      BY <1>4 DEF RoomMutation
    <3>2. room \in 1..n /\ n \in Nat /\ k \in Nat /\ k <= n
      <4>1. activeRooms \subseteq Room
        OBVIOUS
      <4>2. 1..k \subseteq 1..n
        BY <2>1, <2>2, <4>1
      <4>3. k = 0 \/ k \in 1..k
        BY <2>2
      <4>4. k <= n
        BY <4>2, <4>3
      <4> QED BY <2>1, <4>4
    <3>3. k >= room - 1
      <4> SUFFICES ASSUME room > 1 PROVE room - 1 <= k
        BY <3>2
      <4>1. PICK q \in 1..n : q = room - 1
        BY <3>2
      <4>2. q < room
        BY <3>2, <4>1
      <4>3. q \in 1..k
        BY <2>1, <2>2, <3>1, <4>2
      <4> QED BY <4>1, <4>3
    <3>4. k <= room
      <4> SUFFICES ASSUME k > room PROVE FALSE
        BY <3>2
      <4>1. PICK q \in 1..n : q = room + 1
        BY <3>2
      <4>2. q > room
        BY <3>2, <4>1
      <4>3. q \notin 1..k
        BY <2>1, <2>2, <3>1, <4>2
      <4> QED BY <3>2, <4>1, <4>3
    <3>5. k = room - 1 \/ k = room
      BY <3>2, <3>3, <3>4
    <3>6. /\ 1..room - 1 \cup {room} = 1..room
          /\ (1..room - 1) \ {room} = 1..room - 1
          /\ 1..room \cup {room} = 1..room
          /\ (1..room) \ {room} = 1..room - 1
      BY <3>2
    <3> QED BY <2>2, <3>1, <3>5, <3>6
  <2>4. activeRooms' \subseteq Room /\ \E j \in Nat : activeRooms' = 1..j
    BY <2>1, <2>3
  <2> QED BY <1>4, <2>4 DEF RoomMutation, Occurs
<1>5. CASE Restart
  <2>1. <<>> \in Seq(Room)
    OBVIOUS
  <2> QED BY <1>5, <2>1 DEF Restart, Idle, Occurs
<1>6. CASE UNCHANGED vars
  BY <1>6 DEF vars
<1> QED BY <1>1, <1>2, <1>3, <1>4, <1>5, <1>6 DEF Environment

\* The gate, the operations, the canary room and the live rooms stay well formed
\* (release-control.ts, canary.ts, canary-rollout.ts), through failed publishes,
\* late patches and restarts; a rollout only captures rooms.
THEOREM TypeOKAlways ==
    ASSUME None \notin Operation, RoomsAreOrdinals
    PROVE  Spec => []TypeOK
<1>1. Init => IInv /\ TypeInv
  BY InitIInv, InitTypeInv
<1>2. ASSUME IInv, TypeInv, [Next]_vars PROVE (IInv /\ TypeInv)'
  <2>1. ASSUME NEW op \in Operation, Canary(op) \/ Handoff(op) PROVE TypeInv'
    BY <1>2, <2>1, CanaryProceeds, HandoffProceeds, CanaryHandles,
       HandoffHandles, HandlesKeepsTypeInv
  <2>2. TypeInv'
    BY <1>2, <2>1, RequestKeepsTypeInv, ReservingKeepsTypeInv,
       EnvironmentKeepsTypeInv DEF Next
  <2> QED BY <1>2, <2>2, NextIInv
<1>3. IInv /\ TypeInv => TypeOK
  BY DEF IInv, CheckingIsTyped, TypeInv, TaskTyped, GateTyped, ClusterTyped,
     DeploymentTyped, StreamTyped, FindingsTyped, TypeOK
<1> QED BY <1>1, <1>2, <1>3, PTL DEF Spec

=============================================================================
