-------------------------------- MODULE SyncPush --------------------------------
(****************************************************************************)
(* Offline work reaching the server: the device's outbox and the SyncEngine *)
(* that drains it (mobile/lib/data), an unreliable connection, and the      *)
(* receiver sync/services.py with the sync_operation table.                 *)
(*                                                                          *)
(* An operation is its outbox sequence number: the client_uuid is minted    *)
(* with the row, and creation order is the order of the numbers. A batch is *)
(* the set of its operations, because the array is filled and applied in    *)
(* that order. A worker is one POST /sync/push, from the moment it is sent: *)
(* it goes on when the device has stopped waiting for it.                   *)
(****************************************************************************)
EXTENDS Naturals, FiniteSets

CONSTANTS N,         \* bound: how many operations the device ever captures
          Captures,  \* what the device may capture: the operation_type and, for a
                     \* delivery, whether its payload carries delivered_at (the app's do)
          MaxBatch,  \* 200 in the code
          Workers    \* bound: requests the server may be handling at once

Ops == 1..N
Kinds == {"DELIVERY_COMPLETE", "VISIT_CREATE", "OTHER"}

Operations == [type : Kinds, stamped : BOOLEAN]

ASSUME PushAssumption ==
    N \in Nat /\ MaxBatch \in Nat \ {0} /\ Captures \subseteq [Ops -> Operations]

VARIABLES
    outbox,   \* outbox_operation.status on the device
    run,      \* the engine's one run: what it is doing, its batch and its request
    worker,   \* the requests
    rec,      \* sync_operation.status, "NONE" when there is no row
    op,       \* the operations the user will capture, in this order
    target,   \* what the handler would find: a refusal, work to do, or another outcome
    applied   \* the business rows written under the operation's client_uuid

vars == <<outbox, run, worker, rec, op, target, applied>>

Verdicts == {"ACCEPTED", "REJECTED"}
Wire == Verdicts \cup {"DUPLICATE", "NONE"}

IdleRun == [phase |-> "idle", batch |-> {}, request |-> {}]
Runs == [phase : {"idle", "claim", "wait"}, batch : SUBSET Ops, request : SUBSET Workers]

NoAnswers == [u \in Ops |-> "NONE"]
IdleWorker == [phase |-> "idle", todo |-> {}, verdict |-> "NONE", answers |-> NoAnswers]
Requests == [phase : {"idle", "receive", "handler", "save", "done", "failed"}, todo : SUBSET Ops,
             verdict : Wire, answers : [Ops -> Wire]]

TypeOK ==
    /\ outbox \in [Ops -> {"NONE", "PENDING", "IN_FLIGHT", "ACKNOWLEDGED", "REJECTED"}]
    /\ run \in Runs
    /\ worker \in [Workers -> Requests]
    /\ rec \in [Ops -> {"NONE", "RECEIVED"} \cup Verdicts]
    /\ op \in Captures
    /\ target \in [Ops -> {"refused", "open", "taken"}]
    /\ applied \in [Ops -> Nat]

Init ==
    /\ outbox = [u \in Ops |-> "NONE"]
    /\ run = IdleRun
    /\ worker = [w \in Workers |-> IdleWorker]
    /\ rec = [u \in Ops |-> "NONE"]
    /\ op \in Captures
    /\ target \in [Ops -> {"refused", "open"}]
    /\ applied = [u \in Ops |-> 0]

server == <<worker, rec, op, target, applied>>
world == <<op, target, applied>>

----------------------------------------------------------------------------
(* The device                                                               *)

\* append: the next sequence number, committed as PENDING before the user is told.
Capture(u) ==
    /\ outbox[u] = "NONE"
    /\ \A v \in Ops : v < u => outbox[v] # "NONE"
    /\ outbox' = [outbox EXCEPT ![u] = "PENDING"]
    /\ UNCHANGED <<run, server>>

Reclaimed == [u \in Ops |-> IF outbox[u] = "IN_FLIGHT" THEN "PENDING" ELSE outbox[u]]

\* sync(): single-flight; an interrupted push is recovered before anything is sent.
Mut_SyncStart_NoReclaim ==
    /\ run.phase = "idle"
    /\ run' = [run EXCEPT !.phase = "claim"]
    /\ UNCHANGED <<outbox, server>>

SyncStart ==
    /\ run.phase = "idle"
    /\ outbox' = Reclaimed
    /\ run' = [run EXCEPT !.phase = "claim"]
    /\ UNCHANGED server

Pending == {u \in Ops : outbox[u] = "PENDING"}

\* claimBatch: up to MaxBatch PENDING rows in sequence order.
Batches ==
    {batch \in SUBSET Pending :
        /\ Cardinality(batch) <= MaxBatch
        /\ batch = Pending \/ Cardinality(batch) = MaxBatch
        /\ \A u \in batch, v \in Pending \ batch : u < v}

\* The claimed rows are IN_FLIGHT when the request leaves.
ClaimAndSend(w) ==
    /\ run.phase = "claim"
    /\ Pending # {}
    /\ worker[w].phase = "idle"
    /\ \E batch \in Batches :
          /\ outbox' = [u \in Ops |-> IF u \in batch THEN "IN_FLIGHT" ELSE outbox[u]]
          /\ run' = [phase |-> "wait", batch |-> batch, request |-> {w}]
          /\ worker' = [worker EXCEPT ![w] = [IdleWorker EXCEPT !.phase = "receive",
                                                                !.todo = batch]]
    /\ UNCHANGED <<rec, world>>

NothingToSend ==
    /\ run.phase = "claim"
    /\ Pending = {}
    /\ run' = IdleRun
    /\ UNCHANGED <<outbox, server>>

\* _localStatus, and PENDING for whatever the server did not mention.
LocalStatus(wire) ==
    CASE wire \in {"ACCEPTED", "DUPLICATE"} -> "ACKNOWLEDGED"
      [] wire = "REJECTED" -> "REJECTED"
      [] OTHER -> "PENDING"

\* The response arrives: settle in one transaction. A full batch that made progress
\* is followed by another claim, without a reclaim.
Settle(w) ==
    /\ run.phase = "wait" /\ w \in run.request
    /\ worker[w].phase = "done"
    /\ outbox' = [u \in Ops |-> IF u \in run.batch THEN LocalStatus(worker[w].answers[u])
                                                   ELSE outbox[u]]
    /\ worker' = [worker EXCEPT ![w] = IdleWorker]
    /\ run' = IF Cardinality(run.batch) = MaxBatch
                 /\ \E u \in run.batch : outbox'[u] \in {"ACKNOWLEDGED", "REJECTED"}
                THEN [IdleRun EXCEPT !.phase = "claim"]
                ELSE IdleRun
    /\ UNCHANGED <<rec, world>>

\* The push fails on the device: the rows return to PENDING.
Unsettled ==
    /\ run.phase = "wait"
    /\ outbox' = Reclaimed
    /\ run' = IdleRun
PushFails == Unsettled /\ UNCHANGED server

\* The response is a 500: nothing in it says what became of any operation.
ServerError(w) ==
    /\ w \in run.request /\ worker[w].phase = "failed"
    /\ Unsettled
    /\ worker' = [worker EXCEPT ![w] = IdleWorker]
    /\ UNCHANGED <<rec, world>>

\* The request is gone, so the client's timeout ends the wait ...
Answerable == \E w \in run.request : worker[w].phase # "idle"
TimesOut == PushFails /\ ~Answerable

\* ... or the connection drops while the server is still handling it.
Disconnects == PushFails /\ Answerable

\* The app is killed, or settle cannot write: the rows stay as they are.
Abandon ==
    /\ run.phase = "wait" \/ (run.phase = "claim" /\ Pending # {})
    /\ run' = IdleRun
    /\ UNCHANGED <<outbox, server>>

----------------------------------------------------------------------------
(* The receiver: _process_one for each operation of the batch, in order     *)

Mut_Current_Newest(w) == CHOOSE u \in worker[w].todo : \A v \in worker[w].todo : v <= u
Current(w) == CHOOSE u \in worker[w].todo : \A v \in worker[w].todo : u <= v

\* The answer to the current operation; the next one, or the response, is due.
Answer(w, wire) ==
    LET rest == worker[w].todo \ {Current(w)}
    IN  worker' = [worker EXCEPT ![w] =
            [phase |-> IF rest = {} THEN "done" ELSE "receive", todo |-> rest,
             verdict |-> "NONE", answers |-> [@.answers EXCEPT ![Current(w)] = wire]]]

\* The handler, idempotent on client_uuid: it raises a DomainError, writes, or
\* returns what is already there. A visit is looked up by its key before anything
\* else; a delivery must first be visible to the actor.
Refuses(u) ==
    \/ op[u].type = "OTHER"
    \/ target[u] = "refused" /\ ~(op[u].type = "VISIT_CREATE" /\ applied[u] > 0)
Writes(u) == ~Refuses(u) /\ target[u] = "open" /\ applied[u] = 0

\* complete_delivery calls isoformat() on the delivered_at it was given, which here is
\* the string of the payload: once there is something to write it raises what is no
\* DomainError, and its transaction rolls back.
Raises(u) == op[u].type = "DELIVERY_COMPLETE" /\ op[u].stamped /\ Writes(u)

Handle(u) ==
    /\ ~Raises(u)
    /\ applied' = [applied EXCEPT ![u] = IF Writes(u) THEN @ + 1 ELSE @]
Outcome(u) == IF Refuses(u) THEN "REJECTED" ELSE "ACCEPTED"

\* A new client_uuid: the receipt commits in a transaction of its own.
Receive(w) ==
    /\ worker[w].phase = "receive"
    /\ rec[Current(w)] = "NONE"
    /\ rec' = [rec EXCEPT ![Current(w)] = "RECEIVED"]
    /\ worker' = [worker EXCEPT ![w].phase = "handler"]
    /\ UNCHANGED <<outbox, run, world>>

\* _apply after a receipt: the handler's transaction commits first ...
Apply(w) ==
    /\ worker[w].phase = "handler"
    /\ Handle(Current(w))
    /\ worker' = [worker EXCEPT ![w].phase = "save", ![w].verdict = Outcome(Current(w))]
    /\ UNCHANGED <<outbox, run, rec, op, target>>

\* ... and the verdict is saved after it, in another, without a lock or a re-read.
Save(w) ==
    /\ worker[w].phase = "save"
    /\ rec' = [rec EXCEPT ![Current(w)] = worker[w].verdict]
    /\ Answer(w, worker[w].verdict)
    /\ UNCHANGED <<outbox, run, world>>

\* _settle_existing: any status but RECEIVED is terminal and answered DUPLICATE.
Replay(w) ==
    /\ worker[w].phase = "receive"
    /\ rec[Current(w)] \in Verdicts
    /\ Answer(w, "DUPLICATE")
    /\ UNCHANGED <<outbox, run, rec, world>>

\* _recover: the row's lock, the handler and the verdict in one transaction.
Mut_Recover_Duplicate(w) ==
    /\ worker[w].phase = "receive"
    /\ rec[Current(w)] = "RECEIVED"
    /\ Answer(w, "DUPLICATE")
    /\ UNCHANGED <<outbox, run, rec, world>>

Recover(w) ==
    /\ worker[w].phase = "receive"
    /\ rec[Current(w)] = "RECEIVED"
    /\ Handle(Current(w))
    /\ rec' = [rec EXCEPT ![Current(w)] = Outcome(Current(w))]
    /\ Answer(w, Outcome(Current(w)))
    /\ UNCHANGED <<outbox, run, op, target>>

\* _apply catches DomainError and nothing else: under a receipt or a recovery, any
\* other exception ends the whole request with a 500. The operation stays RECEIVED, and
\* what the request has settled before it keeps its verdict without being answered.
HandlerRaises(w) ==
    /\ \/ worker[w].phase = "handler"
       \/ worker[w].phase = "receive" /\ rec[Current(w)] = "RECEIVED"
    /\ Raises(Current(w))
    /\ worker' = [worker EXCEPT ![w] = [IdleWorker EXCEPT !.phase = "failed"]]
    /\ UNCHANGED <<outbox, run, rec, world>>

\* The response finds nobody waiting for it.
Unheard(w) ==
    /\ worker[w].phase \in {"done", "failed"} /\ w \notin run.request
    /\ worker' = [worker EXCEPT ![w] = IdleWorker]
    /\ UNCHANGED <<outbox, run, rec, world>>

\* The request is lost, or its process dies: what has committed stays.
WorkerDies(w) ==
    /\ worker[w].phase # "idle"
    /\ worker[w].phase \in {"done", "failed"} => w \in run.request
    /\ worker' = [worker EXCEPT ![w] = IdleWorker]
    /\ UNCHANGED <<outbox, run, rec, world>>

----------------------------------------------------------------------------
\* Meanwhile the office dispatches the delivery or adds the shop (what was refused
\* would now be applied), moves the delivery out of the actor's sight, or records
\* its outcome itself.
OfficeActs(u) ==
    /\ op[u].type # "OTHER"
    /\ \/ target[u] = "refused" /\ target' = [target EXCEPT ![u] = "open"]
       \/ target[u] = "open" /\ target' = [target EXCEPT ![u] = "refused"]
       \/ /\ target[u] = "open" /\ op[u].type = "DELIVERY_COMPLETE" /\ applied[u] = 0
          /\ target' = [target EXCEPT ![u] = "taken"]
    /\ UNCHANGED <<outbox, run, worker, rec, op, applied>>

Device ==
    \/ SyncStart
    \/ NothingToSend
    \/ TimesOut
    \/ \E w \in Workers : ClaimAndSend(w) \/ Settle(w) \/ ServerError(w)

Serve(w) ==
    \/ Receive(w) \/ Apply(w) \/ Save(w) \/ Replay(w) \/ Recover(w)
    \/ HandlerRaises(w) \/ Unheard(w)

Fault == Disconnects \/ Abandon \/ \E w \in Workers : WorkerDies(w)

Next ==
    \/ Device
    \/ \E w \in Workers : Serve(w)
    \/ Fault
    \/ \E u \in Ops : Capture(u) \/ OfficeActs(u)

Spec == Init /\ [][Next]_vars

\* The scheduler re-arms after every attempt, and a request that is not lost is
\* handled to its end.
Fairness == WF_vars(Device) /\ \A w \in Workers : WF_vars(Serve(w))

FairSpec == Spec /\ Fairness

----------------------------------------------------------------------------
(* Properties                                                               *)

\* FR-SYN-004, BR-014, 05 section 11.5: the device lets go of an operation only when the
\* server has a verdict on it, and the verdict is true to the books: an accepted
\* operation was applied (or its delivery already had an outcome), a refused one is
\* kept with its payload. However often the push is cut, killed, resent or raced.
NoSilentLoss ==
    \A u \in Ops :
        /\ outbox[u] \in {"ACKNOWLEDGED", "REJECTED"} => rec[u] \in Verdicts
        /\ rec[u] = "ACCEPTED" => applied[u] = 1 \/ target[u] = "taken"

\* BR-013, PU-1: the server takes up an operation only when it has a verdict on every
\* operation the device captured before it, across batches, retries and recoveries.
SettledInOrder ==
    \A u, v \in Ops : (v < u /\ rec[u] # "NONE") => rec[v] \in Verdicts

\* How far an operation has come, told from the device's row and the server's.
Stage(u) ==
    IF outbox[u] \in {"ACKNOWLEDGED", "REJECTED"} THEN "released"
    ELSE IF rec[u] \in Verdicts THEN "decided"
    ELSE IF rec[u] = "RECEIVED" THEN "taken"
    ELSE IF outbox[u] # "NONE" THEN "held"
    ELSE "none"

Queue == INSTANCE OfflineQueue WITH stage <- [u \in Ops |-> Stage(u)], effect <- applied

\* Batches, resends, crashes, recoveries and requests nobody waits for any more implement
\* the abstract queue (sync_engine.dart, sync/services.py): capture order, one effect, and
\* no operation ever goes back a stage.
ImplementsOfflineQueue == Queue!QueueSpec

\* 05 section 11.2: DUPLICATE is "Already applied", REJECTED is "Keep. Never delete": the device
\* never takes an operation the server refused for a success.
RefusedNeverAcknowledged ==
    \A u \in Ops : outbox[u] = "ACKNOWLEDGED" => rec[u] # "REJECTED"

\* No verdict will come of the operation as things are.
Stranded(u) == rec[u] \notin Verdicts /\ Raises(u)

\* FR-SYN-017: once the connection holds and nothing is killed any more, everything
\* captured gets a verdict, and the device is told it. But a handler that keeps raising
\* holds up its own operation and every later one on the server, and on the device the
\* earlier ones too: a request that ends with a 500 answers nobody, so only when no
\* operation stays stranded does the outbox empty.
Drained ==
    <>[][~Fault]_vars =>
        \A u \in Ops :
            /\ (\A v \in 1..u : <>[]~Stranded(v)) =>
                  (outbox[u] = "PENDING" ~> rec[u] \in Verdicts)
            /\ (\A v \in Ops : <>[]~Stranded(v)) =>
                  (outbox[u] = "PENDING" ~> outbox[u] \in {"ACKNOWLEDGED", "REJECTED"})
=============================================================================
