-------------------------------- MODULE SyncPull --------------------------------
(****************************************************************************)
(* The server's changes reaching a device: SyncScheduler, SyncRound and     *)
(* PullService (mobile/lib), the pull selector (backend/sync/selectors.py)  *)
(* and the transactions that write the pulled rows meanwhile.               *)
(*                                                                          *)
(* A row is its id; the rows are those the actor may see, whose zones do    *)
(* not change. A write takes its updated_at when it saves and is seen by    *)
(* others when it commits. The push half of a round is its outcome here:    *)
(* SyncPush is its model. The cursor 0 is the cursor no pull has written.   *)
(****************************************************************************)
EXTENDS Naturals, FiniteSets

CONSTANTS Customers, Deliveries,  \* the ids of the rows of each collection
          PageSize,               \* PULL_PAGE_SIZE, 500 in the code
          MaxTime,                \* bound: the server's clock
          MaxWrites,              \* bound: writes of the rows
          MaxFailures             \* bound: pulls that fail and apps killed in a round

Rows == Customers \cup Deliveries
Times == 0..MaxTime

ASSUME PullAssumption ==
    /\ Customers \subseteq Nat /\ Deliveries \subseteq Nat /\ IsFiniteSet(Rows)
    /\ Customers \cap Deliveries = {}
    /\ PageSize \in Nat \ {0} /\ MaxTime \in Nat \ {0}
    /\ MaxWrites \in Nat /\ MaxFailures \in Nat

VARIABLES
    now,        \* the server's clock
    rows,       \* the committed rows: updated_at, a version, is_active
    writing,    \* what an open transaction has saved for a row and not committed
    writes,     \* how many writes were begun
    sched,      \* the SyncScheduler, and the launch chain before it is started
    round,      \* SyncRound: none, its push, its pull
    pull,       \* the pull and the page it is fetching
    cursor,     \* sync_cursor on the device
    cache,      \* cached_customer and cached_delivery: the version of a row, 0 when absent
    failures,   \* how many pulls failed
    overtaken   \* history: rows whose latest write a cursor passed while it was committing

vars == <<now, rows, writing, writes, sched, round, pull, cursor, cache, failures, overtaken>>
server == <<now, rows, writing, writes>>
device == <<sched, round, pull, cursor, cache, failures>>

NoWrite == [at |-> 0, active |-> FALSE]

\* A page token's position in one collection: _START, exhausted, or after a row.
Start == [kind |-> "start", at |-> 0, id |-> 0]
Exhausted == [kind |-> "exhausted", at |-> 0, id |-> 0]
Positions == [kind : {"start", "exhausted", "after"}, at : Times, id : Rows \cup {0}]

NoPage == [r \in Rows |-> 0]
Idle == [phase |-> "idle", since |-> 0, time |-> 0, c |-> Start, d |-> Start,
         first |-> TRUE, page |-> NoPage, gone |-> {}, dirty |-> {}]
Pulls == [phase : {"idle", "sample", "customers", "deliveries", "removed", "apply", "advance"},
          since : Times, time : Times, c : Positions, d : Positions, first : BOOLEAN,
          page : [Rows -> Nat], gone : SUBSET Customers, dirty : SUBSET Rows]

TypeOK ==
    /\ now \in Times \ {0}
    /\ rows \in [Rows -> [at : Times \ {0}, ver : Nat \ {0}, active : BOOLEAN]]
    /\ writing \in [Rows -> [at : Times, active : BOOLEAN]]
    /\ writes \in 0..MaxWrites
    /\ sched \in {"launch", "armed", "attempt", "stopped"}
    /\ round \in {"none", "push", "pull"}
    /\ pull \in Pulls
    /\ cursor \in Times
    /\ cache \in [Rows -> Nat]
    /\ failures \in 0..MaxFailures
    /\ overtaken \subseteq Rows

Init ==
    /\ now = 1
    /\ rows = [r \in Rows |-> [at |-> 1, ver |-> 1, active |-> TRUE]]
    /\ writing = [r \in Rows |-> NoWrite]
    /\ writes = 0
    /\ sched = "launch"
    /\ round = "none"
    /\ pull = Idle
    /\ cursor = 0
    /\ cache = [r \in Rows |-> 0]
    /\ failures = 0
    /\ overtaken = {}

----------------------------------------------------------------------------
(* The server's rows change                                                 *)

ClockTicks ==
    /\ now < MaxTime
    /\ now' = now + 1
    /\ UNCHANGED <<rows, writing, writes, device, overtaken>>

\* A service's save() stamps updated_at; the row stays locked until its transaction
\* ends.
Save(r, active) ==
    /\ writes < MaxWrites
    /\ writing[r] = NoWrite
    /\ writing' = [writing EXCEPT ![r] = [at |-> now, active |-> active]]
    /\ writes' = writes + 1
    /\ UNCHANGED <<now, rows, device, overtaken>>

\* update_customer: is_active is one of the fields the form may change.
UpdateCustomer(c, active) == Save(c, active)

\* deactivate_customer: the one removal there is.
DeactivateCustomer(c) == Save(c, FALSE)

\* dispatch, completion and failure: a delivery is never deactivated.
UpdateDelivery(d) == Save(d, TRUE)

Commit(r) ==
    /\ writing[r] # NoWrite
    /\ rows' = [rows EXCEPT ![r] = [at |-> writing[r].at, ver |-> @.ver + 1,
                                    active |-> writing[r].active]]
    /\ writing' = [writing EXCEPT ![r] = NoWrite]
    /\ pull' = IF pull.phase \in {"idle", "sample"} /\ pull.first
                 THEN pull ELSE [pull EXCEPT !.dirty = @ \cup {r}]
    /\ overtaken' = IF writing[r].at < cursor THEN overtaken \cup {r} ELSE overtaken \ {r}
    /\ UNCHANGED <<now, writes, sched, round, cursor, cache, failures>>

----------------------------------------------------------------------------
(* The scheduler and the round                                              *)

\* The launch chain, with a restored session, runs the first round.
LaunchRound ==
    /\ round = "none"
    /\ sched = "launch"
    /\ round' = "push"
    /\ UNCHANGED <<server, sched, pull, cursor, cache, failures, overtaken>>

\* A tick, or the app's return to the foreground, runs each later one. A trigger in
\* mid-round is dropped.
Attempt ==
    /\ round = "none"
    /\ sched = "armed"
    /\ sched' = "attempt"
    /\ round' = "push"
    /\ UNCHANGED <<server, pull, cursor, cache, failures, overtaken>>

\* A round is over: the cadence is armed again, or for ever stopped.
Mut_EndRound_NotRearmed(outcome) ==
    /\ round' = "none"
    /\ sched' = CASE outcome = "unauthenticated" -> "stopped"
                  [] outcome = "failed" -> sched
                  [] OTHER -> "armed"
    /\ pull' = Idle

EndRound(outcome) ==
    /\ round' = "none"
    /\ sched' = IF outcome = "unauthenticated" THEN "stopped" ELSE "armed"
    /\ pull' = Idle

\* The push ended; only Unauthenticated keeps the pull from running. pull() reads
\* the cursor it sends with every page.
PushEnds(outcome) ==
    /\ round = "push"
    /\ \/ outcome = "unauthenticated" /\ EndRound(outcome)
       \/ /\ outcome # "unauthenticated"
          /\ round' = "pull"
          /\ pull' = [Idle EXCEPT !.phase = "sample", !.since = cursor]
          /\ UNCHANGED sched
    /\ UNCHANGED <<server, cursor, cache, failures, overtaken>>

----------------------------------------------------------------------------
(* The pull selector: each query sees what is committed when it runs        *)

\* server_time is sampled before any query.
Sample ==
    /\ pull.phase = "sample"
    /\ pull' = [pull EXCEPT !.phase = "customers", !.time = now]
    /\ UNCHANGED <<server, sched, round, cursor, cache, failures, overtaken>>

\* The keyset order (updated_at, id).
Before(r, s) == rows[r].at < rows[s].at \/ (rows[r].at = rows[s].at /\ r < s)

Mut_After_TiesDropped(r, position) == rows[r].at > position.at
After(r, position) ==
    rows[r].at > position.at \/ (rows[r].at = position.at /\ r > position.id)

Matching(rs, position) ==
    IF position = Exhausted
      THEN {}
      ELSE {r \in rs : rows[r].at >= pull.since /\ (position = Start \/ After(r, position))}

PageOf(found) == {r \in found : Cardinality({s \in found : Before(s, r)}) < PageSize}

\* Where the next page resumes: after the last row of this one, unless it is the last.
NextPosition(found) ==
    IF Cardinality(found) <= PageSize
      THEN Exhausted
      ELSE LET last == CHOOSE r \in PageOf(found) : \A s \in PageOf(found) : ~Before(r, s)
           IN  [kind |-> "after", at |-> rows[last].at, id |-> last]

\* _collect: a page of one collection.
Collected(found) == [r \in Rows |-> IF r \in PageOf(found) THEN rows[r].ver ELSE pull.page[r]]

CollectCustomers ==
    /\ pull.phase = "customers"
    /\ LET found == Matching(Customers, pull.c)
       IN  pull' = [pull EXCEPT !.phase = "deliveries", !.page = Collected(found),
                                !.c = NextPosition(found)]
    /\ UNCHANGED <<server, sched, round, cursor, cache, failures, overtaken>>

CollectDeliveries ==
    /\ pull.phase = "deliveries"
    /\ LET found == Matching(Deliveries, pull.d)
       IN  pull' = [pull EXCEPT !.phase = "removed", !.page = Collected(found),
                                !.d = NextPosition(found)]
    /\ UNCHANGED <<server, sched, round, cursor, cache, failures, overtaken>>

\* _deactivated_customer_ids: on the first page of a pull that is not a bootstrap.
CollectRemoved ==
    /\ pull.phase = "removed"
    /\ pull' = [pull EXCEPT !.phase = "apply",
                            !.gone = IF pull.first /\ pull.since # 0
                                       THEN {r \in Customers : ~rows[r].active
                                                               /\ rows[r].at >= pull.since}
                                       ELSE {}]
    /\ UNCHANGED <<server, sched, round, cursor, cache, failures, overtaken>>

----------------------------------------------------------------------------
(* The device                                                               *)

HasMore == pull.c # Exhausted \/ pull.d # Exhausted

\* CustomerCache.save and remove, in that order, and DeliveryCache.save.
CachedDelivery(d) == IF pull.page[d] > 0 THEN pull.page[d] ELSE cache[d]
CachedCustomer(c) ==
    IF c \in pull.gone THEN 0 ELSE IF pull.page[c] > 0 THEN pull.page[c] ELSE cache[c]

\* One page, one transaction. Then the next page, or the cursor.
ApplyPage ==
    /\ pull.phase = "apply"
    /\ cache' = [r \in Rows |-> IF r \in Customers THEN CachedCustomer(r) ELSE CachedDelivery(r)]
    /\ pull' = [pull EXCEPT !.phase = IF HasMore THEN "sample" ELSE "advance",
                            !.first = FALSE, !.page = NoPage, !.gone = {}]
    /\ UNCHANGED <<server, sched, round, cursor, failures, overtaken>>

\* SyncCursorStore.write: the server's own instant, kept as it came.
WriteCursor(serverTime) == cursor' = serverTime

\* The one write of the cursor: the last page's server_time. The round ends.
AdvanceCursor ==
    /\ pull.phase = "advance"
    /\ WriteCursor(pull.time)
    /\ overtaken' = overtaken \cup {r \in pull.dirty : rows[r].at < pull.time}
    /\ EndRound("ok")
    /\ UNCHANGED <<server, cache, failures>>

\* A page cannot be fetched, parsed or written: pull() returns Err and the pages
\* already applied stay.
PullFails(outcome) ==
    /\ round = "pull" /\ failures < MaxFailures
    /\ failures' = failures + 1
    /\ EndRound(outcome)
    /\ UNCHANGED <<server, cursor, cache, overtaken>>

\* The app is killed, in a round or between two, and opened again with a session.
Relaunch ==
    /\ \/ round = "none" /\ UNCHANGED failures
       \/ round # "none" /\ failures < MaxFailures /\ failures' = failures + 1
    /\ sched' = "launch"
    /\ round' = "none"
    /\ pull' = Idle
    /\ UNCHANGED <<server, cursor, cache, overtaken>>

Writes ==
    \/ \E c \in Customers : DeactivateCustomer(c) \/ \E active \in BOOLEAN : UpdateCustomer(c, active)
    \/ \E d \in Deliveries : UpdateDelivery(d)
    \/ \E r \in Rows : Commit(r)
Answers == Sample \/ CollectCustomers \/ CollectDeliveries \/ CollectRemoved
Failures == \E outcome \in {"failed", "unauthenticated"} : PullFails(outcome)
Progress == LaunchRound \/ Attempt \/ PushEnds("ok") \/ Answers \/ ApplyPage \/ AdvanceCursor

Next ==
    \/ ClockTicks \/ Writes \/ Progress \/ Failures \/ Relaunch
    \/ \E outcome \in {"failed", "unauthenticated"} : PushEnds(outcome)

Spec == Init /\ [][Next]_vars

\* The timer fires, the server answers, the device handles what arrives, and an
\* open transaction commits: nothing is owed to a connection that keeps failing.
FairSpec ==
    /\ Spec
    /\ WF_vars(LaunchRound \/ Attempt)
    /\ WF_vars(\E outcome \in {"ok", "failed", "unauthenticated"} : PushEnds(outcome))
    /\ WF_vars(Answers \/ ApplyPage \/ AdvanceCursor)
    /\ \A r \in Rows : WF_vars(Commit(r))

----------------------------------------------------------------------------
(* Properties                                                               *)

\* A row the cursor has passed is on the device as the server has it, unless a write
\* of it was committing while the cursor passed: PullService, _collect and the
\* cursor together lose nothing else, across pages, ties, failed pulls and restarts.
NothingElseSkipped ==
    \A r \in Rows :
        rows[r].at < cursor /\ rows[r].active /\ r \notin overtaken
            => cache[r] = rows[r].ver

\* A version reaches the device: the scheduler keeps starting rounds after a failed
\* one until a pull has brought the row, unless the cursor overtook it, it was
\* deactivated, or the credential is finished.
CatchesUp ==
    \A r \in Rows :
        rows[r].active ~> \/ cache[r] = rows[r].ver \/ ~rows[r].active
                          \/ r \in overtaken \/ sched = "stopped"

\* P-4 and pull(): a customer deactivated before the cursor is not kept.
DeactivatedRemoved ==
    \A r \in Customers :
        pull.phase = "idle" /\ ~rows[r].active /\ rows[r].at < cursor => cache[r] = 0
=============================================================================
