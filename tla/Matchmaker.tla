----------------------------- MODULE Matchmaker -----------------------------
(***************************************************************************)
(* Admission to the game rooms (services/api-server/src/matchmaker.ts).    *)
(*                                                                         *)
(* findGame() limits how many requests it lets through per second, and     *)
(* then awaits the room directory: the orchestrator's room list, and the   *)
(* summary of each room in it, which HttpRoomDirectory fetches once for    *)
(* all the requests that wait and caches for a short time.                 *)
(*                                                                         *)
(* Of a room it matters only whether the orchestrator offers it (listed    *)
(* as active, not join-locked) and whether its summary finds it open       *)
(* (running, not join-locked, with a free seat); both change at any time.  *)
(* Which of the open rooms has the fewest players is left open, and the    *)
(* metrics and logs are left out.                                          *)
(***************************************************************************)
EXTENDS Naturals, FiniteSets

CONSTANTS
    MaxRequests,    \* the requests are 1..MaxRequests, as they arrive
    Room,
    None,
    MaxPerSecond,   \* MAX_FIND_GAME_PER_SECOND
    Second,         \* a second, in ticks of the clock
    CacheTtl,       \* how long the list is cached
    RoomsTimeout, SummaryTimeout,   \* of the two parts of a fetch
    MaxTime,        \* bound on the clock
    MaxChanges,     \* bound on the changes of the rooms
    MaxFailures     \* bound on the failed calls, of each kind once

Request == 1..MaxRequests

VARIABLES
    now,
    request,        \* what has become of each request
    admittedAt,     \* the requests whose arrival is remembered as admitted
    cached,         \* the open rooms of the last list, and when it expires
    refresh,        \* the request that fetches for all who wait
    fetch,          \* of each request: the fetch it has begun
    offered, open,  \* the rooms as they are
    since,          \* when each room was last offered or taken back, ...
    openSince,      \* ... opened or closed
    changes,
    failures        \* the kinds of calls that have failed

directoryVars == <<cached, refresh, fetch>>
roomVars == <<offered, open, since, openSince, changes>>
vars == <<now, request, admittedAt, directoryVars, roomVars, failures>>

Steps == {"new", "waiting", "accepted", "rate_limited",
          "directory_unavailable", "no_room"}
New == [step |-> "new", at |-> 0, asks |-> None, list |-> None, room |-> None]

TypeOK ==
    /\ now \in 0..MaxTime
    /\ request \in [Request -> [step : Steps, at : 0..MaxTime,
                                asks : Room \cup {None},
                                list : Request \cup {None},
                                room : Room \cup {None}]]
    /\ admittedAt \subseteq Request
    /\ cached = None \/ cached \in [expiresAt : Nat, rooms : SUBSET Room]
    /\ refresh \in Request \cup {None}
    /\ \A q \in Request :
          fetch[q] = None \/ fetch[q] \in [begun : 0..MaxTime,
                                           part : {"rooms", "summaries"},
                                           left : SUBSET Room,
                                           found : SUBSET Room]
    /\ offered \subseteq Room /\ open \subseteq Room
    /\ since \in [Room -> 0..MaxTime] /\ openSince \in [Room -> 0..MaxTime]
    /\ changes \in 0..MaxChanges /\ failures \subseteq {"rooms", "summaries"}

Init ==
    /\ now = 0
    /\ request = [q \in Request |-> New]
    /\ admittedAt = {}
    /\ cached = None
    /\ refresh = None
    /\ fetch = [q \in Request |-> None]
    /\ offered = Room /\ open = Room
    /\ since = [r \in Room |-> 0] /\ openSince = [r \in Room |-> 0]
    /\ changes = 0 /\ failures = {}

----------------------------------------------------------------------------
(* Matchmaker.findGame                                                     *)

\* The requests that were admitted in the last second.
RecentAdmitted == {q \in admittedAt : request[q].at + Second > now}

\* What a request answers, given the list: the room it asks for, or any.
Choices(asks, rooms) == IF asks = None THEN rooms ELSE rooms \cap {asks}

Answered(q, step, r) ==
    [request[q] EXCEPT !.step = step, !.list = None, !.room = r]

Answers(q, rooms) ==
    IF Choices(q.asks, rooms) = {}
    THEN {[q EXCEPT !.step = "no_room", !.list = None]}
    ELSE {[q EXCEPT !.step = "accepted", !.list = None, !.room = r] :
          r \in Choices(q.asks, rooms)}

IsNext(q) ==
    /\ request[q].step = "new"
    /\ \A p \in 1..q - 1 : request[p].step # "new"

Arrived(asks) == [New EXCEPT !.at = now, !.asks = asks]

RateLimited(q, asks) ==
    /\ IsNext(q)
    /\ Cardinality(RecentAdmitted) >= MaxPerSecond
    /\ request' = [request EXCEPT ![q] =
                      [Arrived(asks) EXCEPT !.step = "rate_limited"]]
    /\ admittedAt' = RecentAdmitted
    /\ UNCHANGED <<now, directoryVars, roomVars, failures>>

\* Mutant: a request counts only once it has its room.
AdmittedLater(q) == RecentAdmitted \ {q}

\* The capacity is reserved before the list is awaited.
Admitted(q) == RecentAdmitted \cup {q}

MayEnter(q) ==
    /\ IsNext(q)
    /\ Cardinality(RecentAdmitted) < MaxPerSecond

\* Mutant: a list does not expire.
IsCachedForEver == cached # None

\* HttpRoomDirectory.list has a list that has not expired, ...
IsCached == cached # None /\ cached.expiresAt > now

AnsweredFromCache(q, asks) ==
    /\ MayEnter(q)
    /\ IsCached
    /\ \E a \in Answers(Arrived(asks), cached.rooms) :
          request' = [request EXCEPT ![q] = a]
    /\ admittedAt' = Admitted(q)
    /\ UNCHANGED <<now, directoryVars, roomVars, failures>>

\* ... or it waits for the one that is being fetched, ...
Waits(q, asks, for) ==
    /\ request' = [request EXCEPT ![q] =
                      [Arrived(asks) EXCEPT !.step = "waiting", !.list = for]]
    /\ admittedAt' = Admitted(q)

JoinsRefresh(q, asks) ==
    /\ MayEnter(q)
    /\ ~IsCached
    /\ refresh # None
    /\ Waits(q, asks, refresh)
    /\ UNCHANGED <<now, directoryVars, roomVars, failures>>

\* ... or it fetches one.
StartsRefresh(q, asks) ==
    /\ MayEnter(q)
    /\ ~IsCached
    /\ refresh = None
    /\ refresh' = q
    /\ fetch' = [fetch EXCEPT ![q] = [begun |-> now, part |-> "rooms",
                                      left |-> {}, found |-> {}]]
    /\ Waits(q, asks, q)
    /\ UNCHANGED <<now, cached, roomVars, failures>>

----------------------------------------------------------------------------
(* HttpRoomDirectory.fetchRecords                                          *)

Fails(part) ==
    /\ part \notin failures
    /\ Cardinality(failures) < MaxFailures
    /\ failures' = failures \cup {part}

\* The orchestrator answers with its rooms; their summaries are asked for.
RoomsFetched(q) ==
    /\ fetch[q] # None
    /\ fetch[q].part = "rooms"
    /\ fetch' = [fetch EXCEPT ![q] = [begun |-> now, part |-> "summaries",
                                      left |-> offered, found |-> {}]]
    /\ UNCHANGED <<now, request, admittedAt, cached, refresh, roomVars,
                   failures>>

\* A room answers with its summary, ...
SummaryFetched(q, r) ==
    /\ fetch[q] # None
    /\ r \in fetch[q].left
    /\ fetch' = [fetch EXCEPT ![q].left = @ \ {r},
                              ![q].found = @ \cup ({r} \cap open)]
    /\ UNCHANGED <<now, request, admittedAt, cached, refresh, roomVars,
                   failures>>

\* ... or not in time: it counts as inactive.
SummaryFails(q, r) ==
    /\ fetch[q] # None
    /\ r \in fetch[q].left
    /\ Fails("summaries")
    /\ fetch' = [fetch EXCEPT ![q].left = @ \ {r}]
    /\ UNCHANGED <<now, request, admittedAt, cached, refresh, roomVars>>

WaitFor(q) == {p \in Request : request[p].step = "waiting"
                                /\ request[p].list = q}

Unless(q) == IF refresh = q THEN None ELSE refresh

\* All have answered: the list is cached, and all who wait for it go on.
Listed(q) ==
    /\ fetch[q] # None
    /\ fetch[q].part = "summaries"
    /\ fetch[q].left = {}
    /\ cached' = [expiresAt |-> now + CacheTtl, rooms |-> fetch[q].found]
    /\ refresh' = Unless(q)
    /\ fetch' = [fetch EXCEPT ![q] = None]
    /\ \E answer \in [WaitFor(q) ->
                        UNION {Answers(request[p], fetch[q].found) :
                               p \in WaitFor(q)}] :
          /\ \A p \in WaitFor(q) : answer[p] \in Answers(request[p],
                                                         fetch[q].found)
          /\ request' = [p \in Request |-> IF p \in WaitFor(q) THEN answer[p]
                                           ELSE request[p]]
    /\ UNCHANGED <<now, admittedAt, roomVars, failures>>

\* The orchestrator does not answer in time: all who wait are rejected, and
\* the next request fetches again.
ListFails(q) ==
    /\ fetch[q] # None
    /\ fetch[q].part = "rooms"
    /\ Fails("rooms")
    /\ refresh' = Unless(q)
    /\ fetch' = [fetch EXCEPT ![q] = None]
    /\ request' = [p \in Request |->
                      IF p \in WaitFor(q)
                      THEN Answered(p, "directory_unavailable", None)
                      ELSE request[p]]
    /\ UNCHANGED <<now, admittedAt, cached, roomVars>>

----------------------------------------------------------------------------
(* The clock and the rooms.                                                *)

Timeout(part) == IF part = "rooms" THEN RoomsTimeout ELSE SummaryTimeout

\* No call outlasts its timeout.
Tick ==
    /\ now < MaxTime
    /\ \A q \in Request :
          fetch[q] # None => now < fetch[q].begun + Timeout(fetch[q].part)
    /\ now' = now + 1
    /\ UNCHANGED <<request, admittedAt, directoryVars, roomVars, failures>>

Toggle(S, r) == IF r \in S THEN S \ {r} ELSE S \cup {r}

RoomChanges(r) ==
    /\ changes < MaxChanges
    /\ changes' = changes + 1
    /\ \/ /\ offered' = Toggle(offered, r)
          /\ since' = [since EXCEPT ![r] = now]
          /\ UNCHANGED <<open, openSince>>
       \/ /\ open' = Toggle(open, r)
          /\ openSince' = [openSince EXCEPT ![r] = now]
          /\ UNCHANGED <<offered, since>>
    /\ UNCHANGED <<now, request, admittedAt, directoryVars, failures>>

FetchProceeds ==
    \E q \in Request :
        \/ RoomsFetched(q) \/ Listed(q)
        \/ \E r \in Room : SummaryFetched(q, r)

Next ==
    \/ \E q \in Request, asks \in Room \cup {None} :
          \/ RateLimited(q, asks)
          \/ AnsweredFromCache(q, asks)
          \/ JoinsRefresh(q, asks) \/ StartsRefresh(q, asks)
    \/ FetchProceeds
    \/ \E q \in Request : ListFails(q) \/ \E r \in Room : SummaryFails(q, r)
    \/ Tick
    \/ \E r \in Room : RoomChanges(r)

Spec == Init /\ [][Next]_vars

----------------------------------------------------------------------------

\* Whatever is awaited between the check and the answer, and however late the
\* answers come, no more requests that arrived within one second pass than the
\* capacity, those that still wait included.
Passed == {q \in Request : request[q].step \in {"waiting", "accepted"}}
PassedFitCapacity ==
    \A t \in 0..MaxTime :
        Cardinality({q \in Passed : request[q].at <= t
                                    /\ request[q].at + Second > t})
            <= MaxPerSecond

\* A room that a request is given was open not longer ago than the cache keeps
\* a list and the summaries take, and offered as long ago as the whole fetch
\* takes, also for those who joined a fetch or found a cached list.
Lately(S, times, r, d) == r \in S \/ now <= times[r] + d
GivenRoomWasOpen ==
    [][\A q \in Request :
          request[q].step # "accepted" /\ request'[q].step = "accepted" =>
              LET r == request'[q].room IN
              /\ Lately(open, openSince, r, CacheTtl + SummaryTimeout)
              /\ Lately(offered, since, r,
                        CacheTtl + SummaryTimeout + RoomsTimeout)]_vars

\* Unless a summary has failed, a request is not turned away from a room that
\* has been offered and open for that long: no stale list hides it.
OpenRoomIsFound ==
    [][\A q \in Request :
          /\ request[q].step # "no_room" /\ request'[q].step = "no_room"
          /\ "summaries" \notin failures
          => \A r \in Choices(request'[q].asks, Room) \cap offered \cap open :
                \/ now <= since[r] + CacheTtl + SummaryTimeout + RoomsTimeout
                \/ now <= openSince[r] + CacheTtl + SummaryTimeout]_vars

=============================================================================
