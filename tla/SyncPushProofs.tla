----------------------------- MODULE SyncPushProofs -----------------------------
(****************************************************************************)
(* Proofs about SyncPush, for any number of operations, requests and faults.*)
(****************************************************************************)
EXTENDS SyncPush, FiniteSetTheorems, WellFoundedInduction, TLAPS

Settled(u) == rec[u] \in Verdicts
Busy(w) == worker[w].phase \in {"receive", "handler", "save"}

\* The device's queue: sequence numbers are handed out in order, and the device lets
\* go only of what the server has settled.
QueueInv ==
    /\ \A u, v \in Ops : (v < u /\ outbox[u] # "NONE") => outbox[v] # "NONE"
    /\ \A u \in Ops : outbox[u] \in {"ACKNOWLEDGED", "REJECTED"} => Settled(u)

\* Rows are IN_FLIGHT only for the push being waited for, or after an abandoned run,
\* and then the next run reclaims them before it claims anything.
RunInv ==
    /\ run.phase = "claim" => \A u \in Ops : outbox[u] # "IN_FLIGHT"
    /\ run.phase = "wait" => \A u \in Ops : outbox[u] = "IN_FLIGHT" <=> u \in run.batch

\* A request has answered only what is settled, and everything older than what it
\* still has to do is settled.
RequestInv(w) ==
    /\ \A u \in Ops : worker[w].answers[u] # "NONE" => Settled(u)
    /\ Busy(w) =>
          /\ worker[w].todo # {}
          /\ \A u \in worker[w].todo, v \in Ops \ worker[w].todo : v < u => Settled(v)
    /\ worker[w].phase \in {"handler", "save"} => rec[Current(w)] # "NONE"
    /\ worker[w].phase = "save" =>
          /\ worker[w].verdict \in Verdicts
          /\ worker[w].verdict = "ACCEPTED" =>
                applied[Current(w)] = 1 \/ target[Current(w)] = "taken"

\* The books: an operation is applied at most once, and accepted only if it was.
BooksInv ==
    \A u \in Ops :
        /\ applied[u] \in {0, 1}
        /\ rec[u] = "ACCEPTED" => applied[u] = 1 \/ target[u] = "taken"

\* The inductive invariant.
SyncInv ==
    /\ TypeOK
    /\ QueueInv
    /\ RunInv
    /\ \A w \in Workers : RequestInv(w)
    /\ BooksInv
    /\ SettledInOrder

----------------------------------------------------------------------------
\* A non-empty set of sequence numbers has an oldest one.
LEMMA OldestExists ==
    ASSUME NEW S \in SUBSET Nat, S # {}
    PROVE  \E u \in S : \A v \in S : u <= v
  <1>1. \E Less : IsWellFoundedOn(Less, Nat) /\ \A x, y \in Nat : x < y => <<x, y>> \in Less
    <2>1. \A x, y \in Nat : x < y => <<x, y>> \in OpToRel(<, Nat)
      BY DEF OpToRel
    <2>2. QED
      BY <2>1, NatLessThanWellFounded
  <1>2. PICK Less : IsWellFoundedOn(Less, Nat) /\ \A x, y \in Nat : x < y => <<x, y>> \in Less
    BY <1>1
  <1>3. PICK u \in S : \A v \in S : ~(<<v, u>> \in Less)
    <2>1. IsWellFoundedOn(Less, Nat) /\ S \subseteq Nat /\ S # {}
      BY <1>2
    <2>2. QED
      BY <2>1, WFMin, Zenon
  <1>4. \A v \in S : ~(v < u)
    BY <1>2, <1>3
  <1>5. QED
    BY <1>4

\* A request always works on the oldest operation it has left.
LEMMA CurrentIsOldest ==
    ASSUME TypeOK, NEW w \in Workers, worker[w].todo # {}
    PROVE  /\ Current(w) \in worker[w].todo
           /\ Current(w) \in Ops
           /\ \A v \in worker[w].todo : Current(w) <= v
  <1>1. worker[w].todo \in SUBSET Ops
    BY DEF TypeOK, Requests
  <1>2. worker[w].todo \in SUBSET Nat
    BY <1>1, PushAssumption DEF Ops
  <1>3. \E u \in worker[w].todo : \A v \in worker[w].todo : u <= v
    BY <1>2, OldestExists
  <1>4. QED
    BY <1>1, <1>3 DEF Current

\* Initially nothing is captured, sent or recorded.
LEMMA InitInv == Init => SyncInv
  <1> SUFFICES ASSUME Init PROVE SyncInv
    OBVIOUS
  <1> USE DEF Init
  <1>1. TypeOK
    BY DEF TypeOK, Runs, IdleRun, Requests, IdleWorker, NoAnswers, Wire
  <1>2. QueueInv
    BY DEF QueueInv
  <1>3. RunInv
    BY DEF RunInv, IdleRun
  <1>4. ASSUME NEW w \in Workers PROVE RequestInv(w)
    BY DEF RequestInv, Busy, IdleWorker, NoAnswers
  <1>5. BooksInv /\ SettledInOrder
    BY DEF BooksInv, SettledInOrder
  <1>6. QED
    BY <1>1, <1>2, <1>3, <1>4, <1>5 DEF SyncInv

----------------------------------------------------------------------------
(* The device's steps                                                       *)

\* A step of the device that neither sends nor settles leaves the requests and the
\* server's tables alone.
LEMMA ServerUntouched ==
    ASSUME SyncInv, UNCHANGED server
    PROVE  (\A w \in Workers : RequestInv(w))' /\ BooksInv' /\ SettledInOrder'
  <1>1. ASSUME NEW w \in Workers PROVE RequestInv(w)'
    BY DEF SyncInv, server, RequestInv, Busy, Settled, Current
  <1>2. BooksInv' /\ SettledInOrder'
    BY DEF SyncInv, server, BooksInv, SettledInOrder
  <1>3. QED
    BY <1>1, <1>2

\* Reclaiming turns IN_FLIGHT rows into PENDING ones and nothing else.
LEMMA ReclaimInv ==
    ASSUME SyncInv, outbox' = Reclaimed, rec' = rec
    PROVE  /\ outbox' \in [Ops -> {"NONE", "PENDING", "IN_FLIGHT", "ACKNOWLEDGED", "REJECTED"}]
           /\ \A u \in Ops : outbox'[u] # "IN_FLIGHT"
           /\ QueueInv'
  <1>1. ASSUME NEW u \in Ops
        PROVE  /\ outbox[u] = "IN_FLIGHT" => outbox'[u] = "PENDING"
               /\ outbox[u] # "IN_FLIGHT" => outbox'[u] = outbox[u]
    BY DEF Reclaimed
  <1>2. outbox' \in [Ops -> {"NONE", "PENDING", "IN_FLIGHT", "ACKNOWLEDGED", "REJECTED"}]
    BY DEF SyncInv, TypeOK, Reclaimed
  <1>3. QueueInv'
    BY <1>1 DEF SyncInv, QueueInv, Settled
  <1>4. QED
    BY <1>1, <1>2, <1>3

\* The steps that leave the server alone.
LEMMA QuietDeviceStep ==
    ASSUME SyncInv,
           SyncStart \/ NothingToSend \/ PushFails \/ Abandon \/ \E u \in Ops : Capture(u)
    PROVE  SyncInv'
  <1>1. UNCHANGED server
    BY DEF SyncStart, NothingToSend, PushFails, Abandon, Capture
  <1>2. (\A w \in Workers : RequestInv(w))' /\ BooksInv' /\ SettledInOrder'
    BY <1>1, ServerUntouched
  <1>3. IdleRun \in Runs
    BY DEF IdleRun, Runs
  <1>4. CASE SyncStart
    <2>1. run' \in Runs /\ run'.phase = "claim"
      BY <1>4 DEF SyncStart, SyncInv, TypeOK, Runs
    <2>2. TypeOK'
      BY <1>1, <1>4, <2>1, ReclaimInv DEF SyncStart, SyncInv, TypeOK, server
    <2>3. QueueInv' /\ RunInv'
      BY <1>1, <1>4, <2>1, ReclaimInv DEF SyncStart, RunInv, server
    <2>4. QED
      BY <1>2, <2>2, <2>3 DEF SyncInv
  <1>5. CASE PushFails
    <2>1. TypeOK'
      BY <1>1, <1>3, <1>5, ReclaimInv DEF PushFails, Unsettled, SyncInv, TypeOK, server
    <2>2. QueueInv' /\ RunInv'
      BY <1>1, <1>5, ReclaimInv DEF PushFails, Unsettled, RunInv, IdleRun, server
    <2>3. QED
      BY <1>2, <2>1, <2>2 DEF SyncInv
  <1>6. CASE NothingToSend \/ Abandon
    <2>1. outbox' = outbox /\ run' = IdleRun
      BY <1>6 DEF NothingToSend, Abandon
    <2>2. TypeOK'
      BY <1>1, <1>3, <2>1 DEF SyncInv, TypeOK, server
    <2>3. QueueInv' /\ RunInv'
      BY <1>1, <2>1 DEF SyncInv, QueueInv, RunInv, IdleRun, Settled, server
    <2>4. QED
      BY <1>2, <2>2, <2>3 DEF SyncInv
  <1>7. ASSUME NEW u \in Ops, Capture(u) PROVE SyncInv'
    <2>1. run' = run /\ \A v \in Ops : outbox'[v] = IF v = u THEN "PENDING" ELSE outbox[v]
      BY <1>7 DEF Capture, SyncInv, TypeOK
    <2>2. TypeOK'
      BY <1>1, <1>7, <2>1 DEF Capture, SyncInv, TypeOK, server
    <2>3. QueueInv'
      <3>1. ASSUME NEW a \in Ops, NEW b \in Ops, b < a, outbox'[a] # "NONE"
            PROVE  outbox'[b] # "NONE"
        BY <1>7, <2>1, <3>1 DEF Capture, SyncInv, QueueInv
      <3>2. ASSUME NEW a \in Ops, outbox'[a] \in {"ACKNOWLEDGED", "REJECTED"}
            PROVE  Settled(a)'
        BY <1>1, <2>1, <3>2 DEF SyncInv, QueueInv, Settled, server
      <3>3. QED
        BY <3>1, <3>2 DEF QueueInv
    <2>4. RunInv'
      BY <1>7, <2>1 DEF Capture, SyncInv, RunInv
    <2>5. QED
      BY <1>2, <2>2, <2>3, <2>4 DEF SyncInv
  <1>8. QED
    BY <1>4, <1>5, <1>6, <1>7

\* Sending: a batch is the oldest pending rows, so everything before them is settled.
LEMMA SendStep ==
    ASSUME SyncInv, NEW w \in Workers, ClaimAndSend(w)
    PROVE  SyncInv'
  <1>0. TypeOK /\ QueueInv /\ RunInv
    BY DEF SyncInv
  <1>1. PICK batch \in Batches :
          /\ outbox' = [u \in Ops |-> IF u \in batch THEN "IN_FLIGHT" ELSE outbox[u]]
          /\ run' = [phase |-> "wait", batch |-> batch, request |-> {w}]
          /\ worker' = [worker EXCEPT ![w] = [IdleWorker EXCEPT !.phase = "receive",
                                                                !.todo = batch]]
    BY DEF ClaimAndSend
  <1>2. rec' = rec /\ target' = target /\ op' = op /\ applied' = applied
    BY DEF ClaimAndSend, world
  <1>3. batch \subseteq Pending /\ \A u \in batch, v \in Pending \ batch : u < v
    BY DEF Batches
  <1>4. batch # {}
    <2>1. batch = Pending \/ Cardinality(batch) = MaxBatch
      BY DEF Batches
    <2>2. Cardinality({}) = 0
      BY FS_EmptySet
    <2>3. QED
      BY <2>1, <2>2, PushAssumption DEF ClaimAndSend
  <1>5. batch \subseteq Ops /\ \A u \in batch : outbox[u] = "PENDING"
    BY <1>3 DEF Pending
  <1>6. worker'[w] = [IdleWorker EXCEPT !.phase = "receive", !.todo = batch]
    BY <1>0, <1>1 DEF TypeOK
  <1>7. /\ worker'[w].phase = "receive" /\ worker'[w].todo = batch
        /\ worker'[w].answers = NoAnswers /\ worker'[w] \in Requests
    BY <1>5, <1>6 DEF IdleWorker, Requests, Wire, NoAnswers
  <1>8. TypeOK'
    <2>1. run' \in Runs
      BY <1>1, <1>5 DEF Runs
    <2>2. worker' \in [Workers -> Requests]
      BY <1>0, <1>1, <1>6, <1>7 DEF TypeOK
    <2>3. outbox' \in [Ops -> {"NONE", "PENDING", "IN_FLIGHT", "ACKNOWLEDGED", "REJECTED"}]
      BY <1>0, <1>1 DEF TypeOK
    <2>4. QED
      BY <1>0, <1>2, <2>1, <2>2, <2>3 DEF TypeOK
  <1>9. QueueInv'
    BY <1>0, <1>1, <1>2, <1>5 DEF QueueInv, Settled
  <1>10. RunInv'
    <2>1. run'.phase = "wait" /\ run'.batch = batch
      BY <1>1
    <2>2. run.phase = "claim"
      BY DEF ClaimAndSend
    <2>3. QED
      BY <1>0, <1>1, <2>1, <2>2 DEF RunInv
  <1>11. RequestInv(w)'
    <2>1. ASSUME NEW u \in batch, NEW v \in Ops \ batch, v < u PROVE Settled(v)
      <3>1. outbox[v] # "NONE" /\ outbox[v] # "IN_FLIGHT"
        BY <1>0, <1>5, <2>1 DEF QueueInv, RunInv, ClaimAndSend
      <3>2. outbox[v] # "PENDING"
        <4>1. SUFFICES ASSUME outbox[v] = "PENDING" PROVE FALSE
          OBVIOUS
        <4>2. v \in Pending \ batch
          BY <2>1, <4>1 DEF Pending
        <4>3. u < v
          BY <1>3, <4>2
        <4>4. u \in Nat /\ v \in Nat
          BY <1>5, <2>1, PushAssumption DEF Ops
        <4>5. QED
          BY <2>1, <4>3, <4>4
      <3>3. QED
        BY <1>0, <3>1, <3>2 DEF TypeOK, QueueInv
    <2>2. QED
      BY <1>2, <1>4, <1>7, <2>1 DEF RequestInv, Busy, Settled, NoAnswers
  <1>12. ASSUME NEW x \in Workers, x # w PROVE RequestInv(x)'
    <2>1. worker'[x] = worker[x]
      BY <1>0, <1>1, <1>12 DEF TypeOK
    <2>2. QED
      BY <1>2, <2>1 DEF SyncInv, RequestInv, Busy, Settled, Current
  <1>13. BooksInv' /\ SettledInOrder'
    BY <1>2 DEF SyncInv, BooksInv, SettledInOrder
  <1>14. QED
    BY <1>8, <1>9, <1>10, <1>11, <1>12, <1>13 DEF SyncInv

----------------------------------------------------------------------------
(* The receiver's steps                                                     *)

\* The server's tables only move forward: a receipt and a verdict are never taken
\* back, nor is a business row or an outcome.
Forward ==
    \A u \in Ops :
        /\ Settled(u) => Settled(u)'
        /\ rec[u] # "NONE" => rec'[u] # "NONE"
        /\ applied[u] = 1 => applied'[u] = 1
        /\ target[u] = "taken" => target'[u] = "taken"

\* A request is not disturbed by what the others do.
LEMMA OtherRequests ==
    ASSUME SyncInv, Forward, NEW x \in Workers, worker'[x] = worker[x]
    PROVE  RequestInv(x)'
  <1>0. RequestInv(x) /\ TypeOK
    BY DEF SyncInv
  <1>1. Current(x)' = Current(x) /\ Busy(x)' = Busy(x)
    BY DEF Current, Busy
  <1>2. Busy(x) => Current(x) \in Ops
    BY <1>0, CurrentIsOldest DEF RequestInv
  <1>3. (\A u \in Ops : worker[x].answers[u] # "NONE" => Settled(u))'
    BY <1>0 DEF RequestInv, Forward
  <1>4. (Busy(x) =>
          /\ worker[x].todo # {}
          /\ \A u \in worker[x].todo, v \in Ops \ worker[x].todo : v < u => Settled(v))'
    BY <1>0, <1>1 DEF RequestInv, Forward
  <1>5. (worker[x].phase \in {"handler", "save"} => rec[Current(x)] # "NONE")'
    BY <1>0, <1>1, <1>2 DEF RequestInv, Forward, Busy
  <1>6. (worker[x].phase = "save" =>
          /\ worker[x].verdict \in Verdicts
          /\ worker[x].verdict = "ACCEPTED" =>
                applied[Current(x)] = 1 \/ target[Current(x)] = "taken")'
    BY <1>0, <1>1, <1>2 DEF RequestInv, Forward, Busy
  <1>7. QED
    BY <1>3, <1>4, <1>5, <1>6 DEF RequestInv

\* Nor is the device, while its own rows are left alone.
LEMMA DeviceUndisturbed ==
    ASSUME SyncInv, Forward, UNCHANGED <<outbox, run>>
    PROVE  QueueInv' /\ RunInv'
  <1>1. QueueInv'
    BY DEF SyncInv, QueueInv, Forward
  <1>2. RunInv'
    BY DEF SyncInv, RunInv
  <1>3. QED
    BY <1>1, <1>2

\* Answering the oldest operation left, once it is settled.
LEMMA AnswerStep ==
    ASSUME SyncInv, NEW w \in Workers, Busy(w), NEW wire \in Wire, Answer(w, wire),
           Forward, rec'[Current(w)] \in Verdicts
    PROVE  /\ worker' \in [Workers -> Requests]
           /\ \A x \in Workers : x # w => worker'[x] = worker[x]
           /\ RequestInv(w)'
  <1> DEFINE rest == worker[w].todo \ {Current(w)}
             new == [phase |-> IF rest = {} THEN "done" ELSE "receive", todo |-> rest,
                     verdict |-> "NONE",
                     answers |-> [worker[w].answers EXCEPT ![Current(w)] = wire]]
  <1>0. TypeOK /\ RequestInv(w) /\ worker[w] \in Requests
    BY DEF SyncInv, TypeOK
  <1>1. Current(w) \in worker[w].todo /\ Current(w) \in Ops /\ worker[w].todo \subseteq Ops
    BY <1>0, CurrentIsOldest DEF RequestInv, Requests
  <1>2. worker' = [worker EXCEPT ![w] = new]
    BY DEF Answer
  <1>3. new \in Requests
    BY <1>0, <1>1 DEF Requests, Wire
  <1>4. worker'[w] = new /\ worker' \in [Workers -> Requests]
    BY <1>0, <1>2, <1>3 DEF TypeOK
  <1>5. /\ worker'[w].todo = rest
        /\ worker'[w].phase = IF rest = {} THEN "done" ELSE "receive"
        /\ worker'[w].answers = [worker[w].answers EXCEPT ![Current(w)] = wire]
    BY <1>4
  <1>6. ASSUME NEW u \in Ops, worker'[w].answers[u] # "NONE" PROVE Settled(u)'
    <2>1. CASE u = Current(w)
      BY <2>1 DEF Settled
    <2>2. CASE u # Current(w)
      BY <1>0, <1>5, <1>6, <2>2 DEF RequestInv, Forward, Requests
    <2>3. QED
      BY <2>1, <2>2
  <1>7. ASSUME NEW u \in rest, NEW v \in Ops \ rest, v < u PROVE Settled(v)'
    <2>1. CASE v = Current(w)
      BY <2>1 DEF Settled
    <2>2. CASE v # Current(w)
      BY <1>0, <1>7, <2>2 DEF RequestInv, Forward
    <2>3. QED
      BY <2>1, <2>2
  <1>8. RequestInv(w)'
    BY <1>5, <1>6, <1>7 DEF RequestInv, Busy
  <1>9. \A x \in Workers : x # w => worker'[x] = worker[x]
    BY <1>0, <1>2 DEF TypeOK
  <1>10. QED
    BY <1>4, <1>8, <1>9

\* A verdict and its business rows agree, whichever path produced them.
LEMMA HandlerOutcome ==
    ASSUME SyncInv, NEW u \in Ops, Handle(u), target' = target
    PROVE  /\ applied' \in [Ops -> Nat]
           /\ \A v \in Ops : applied'[v] \in {0, 1} /\ (applied[v] = 1 => applied'[v] = 1)
           /\ Outcome(u) \in Verdicts
           /\ Outcome(u) = "ACCEPTED" => applied'[u] = 1 \/ target'[u] = "taken"
  <1>0. /\ applied \in [Ops -> Nat] /\ \A v \in Ops : applied[v] \in {0, 1}
        /\ target[u] \in {"refused", "open", "taken"}
    BY DEF SyncInv, TypeOK, BooksInv
  <1>1. applied' = [applied EXCEPT ![u] = IF Writes(u) THEN applied[u] + 1 ELSE applied[u]]
    BY DEF Handle
  <1>2. Writes(u) => applied[u] = 0
    BY DEF Writes
  <1>3. applied'[u] = IF Writes(u) THEN 1 ELSE applied[u]
    BY <1>0, <1>1, <1>2
  <1>4. \A v \in Ops : v # u => applied'[v] = applied[v]
    BY <1>0, <1>1
  <1>5. Outcome(u) = "ACCEPTED" => applied'[u] = 1 \/ target'[u] = "taken"
    BY <1>0, <1>3 DEF Outcome, Writes, Refuses
  <1>6. applied' \in [Ops -> Nat]
    BY <1>0, <1>1
  <1>7. QED
    BY <1>0, <1>3, <1>4, <1>2, <1>5, <1>6 DEF Outcome, Verdicts

\* What a verdict or a receipt for the oldest operation left does to the order.
LEMMA InOrderStep ==
    ASSUME SyncInv, NEW w \in Workers, Busy(w), NEW r \in {"RECEIVED"} \cup Verdicts,
           rec' = [rec EXCEPT ![Current(w)] = r],
           r = "RECEIVED" => rec[Current(w)] = "NONE"
    PROVE  /\ rec' \in [Ops -> {"NONE", "RECEIVED"} \cup Verdicts]
           /\ \A u \in Ops : (Settled(u) => Settled(u)') /\ (rec[u] # "NONE" => rec'[u] # "NONE")
           /\ SettledInOrder'
  <1>0. TypeOK /\ RequestInv(w) /\ SettledInOrder
    BY DEF SyncInv
  <1>1. /\ Current(w) \in worker[w].todo /\ Current(w) \in Ops
        /\ \A v \in worker[w].todo : Current(w) <= v
    BY <1>0, CurrentIsOldest DEF RequestInv
  <1>2. \A u \in Ops : rec'[u] = IF u = Current(w) THEN r ELSE rec[u]
    BY <1>0, <1>1 DEF TypeOK
  <1>3. \A u \in Ops : (Settled(u) => Settled(u)') /\ (rec[u] # "NONE" => rec'[u] # "NONE")
    BY <1>2 DEF Settled, Verdicts
  <1>4. ASSUME NEW u \in Ops, NEW v \in Ops, v < u, rec'[u] # "NONE" PROVE rec'[v] \in Verdicts
    <2>1. u \in Nat /\ v \in Nat /\ Current(w) \in Nat
      BY <1>1, PushAssumption DEF Ops
    <2>2. CASE u = Current(w)
      <3>1. v \notin worker[w].todo
        BY <1>1, <1>4, <2>1, <2>2
      <3>2. Settled(v)
        BY <1>0, <1>1, <1>4, <2>2, <3>1 DEF RequestInv
      <3>3. QED
        BY <1>3, <3>2 DEF Settled
    <2>3. CASE u # Current(w)
      <3>1. rec[u] # "NONE"
        BY <1>2, <1>4, <2>3
      <3>2. rec[v] \in Verdicts
        BY <1>0, <1>4, <3>1 DEF SettledInOrder
      <3>3. QED
        BY <1>3, <3>2 DEF Settled
    <2>4. QED
      BY <2>2, <2>3
  <1>5. SettledInOrder'
    BY <1>4 DEF SettledInOrder
  <1>6. rec' \in [Ops -> {"NONE", "RECEIVED"} \cup Verdicts]
    BY <1>0 DEF TypeOK
  <1>7. QED
    BY <1>3, <1>5, <1>6

FailedWorker == [IdleWorker EXCEPT !.phase = "failed"]

\* A request that ends, or fails, leaves nothing behind.
LEMMA EndedRequest ==
    ASSUME SyncInv, NEW w \in Workers, NEW end \in {IdleWorker, FailedWorker},
           worker' = [worker EXCEPT ![w] = end], UNCHANGED <<rec, world>>
    PROVE  /\ worker' \in [Workers -> Requests]
           /\ \A x \in Workers : RequestInv(x)'
           /\ BooksInv' /\ SettledInOrder'
  <1>1. end \in Requests
    BY DEF IdleWorker, FailedWorker, Requests, Wire, NoAnswers
  <1>2. /\ worker'[w] = end /\ \A x \in Workers : x # w => worker'[x] = worker[x]
        /\ worker' \in [Workers -> Requests]
    BY <1>1 DEF SyncInv, TypeOK
  <1>3. RequestInv(w)'
    BY <1>2 DEF RequestInv, Busy, IdleWorker, FailedWorker, NoAnswers
  <1>4. Forward
    BY DEF Forward, Settled, world
  <1>5. ASSUME NEW x \in Workers PROVE RequestInv(x)'
    BY <1>2, <1>3, <1>4, OtherRequests
  <1>6. BooksInv' /\ SettledInOrder'
    BY DEF SyncInv, BooksInv, SettledInOrder, world
  <1>7. QED
    BY <1>2, <1>5, <1>6

\* Settling: a row leaves the queue only on an answer, and answers are settled.
LEMMA SettleStep ==
    ASSUME SyncInv, NEW w \in Workers, Settle(w)
    PROVE  SyncInv'
  <1>0. TypeOK /\ QueueInv /\ RunInv /\ RequestInv(w)
    BY DEF SyncInv
  <1>1. /\ worker' \in [Workers -> Requests]
        /\ \A x \in Workers : RequestInv(x)'
        /\ BooksInv' /\ SettledInOrder'
    BY EndedRequest DEF Settle
  <1>2. /\ run.phase = "wait" /\ rec' = rec /\ target' = target /\ op' = op /\ applied' = applied
        /\ outbox' = [u \in Ops |-> IF u \in run.batch THEN LocalStatus(worker[w].answers[u])
                                                       ELSE outbox[u]]
        /\ run' = IdleRun \/ run' = [IdleRun EXCEPT !.phase = "claim"]
    BY DEF Settle, world
  <1>3. ASSUME NEW u \in Ops
        PROVE  /\ LocalStatus(worker[w].answers[u]) \in {"PENDING", "ACKNOWLEDGED", "REJECTED"}
               /\ LocalStatus(worker[w].answers[u]) # "PENDING" => Settled(u)
    BY <1>0 DEF LocalStatus, RequestInv
  <1>4. TypeOK'
    <2>1. run' \in Runs
      BY <1>2 DEF IdleRun, Runs
    <2>2. outbox' \in [Ops -> {"NONE", "PENDING", "IN_FLIGHT", "ACKNOWLEDGED", "REJECTED"}]
      BY <1>0, <1>2, <1>3 DEF TypeOK
    <2>3. QED
      BY <1>0, <1>1, <1>2, <2>1, <2>2 DEF TypeOK
  <1>5. \A u \in Ops : (outbox[u] = "NONE") <=> (outbox'[u] = "NONE")
    BY <1>0, <1>2, <1>3 DEF RunInv
  <1>6. QueueInv'
    <2>1. \A u, v \in Ops : (v < u /\ outbox'[u] # "NONE") => outbox'[v] # "NONE"
      BY <1>0, <1>5 DEF QueueInv
    <2>2. ASSUME NEW u \in Ops, outbox'[u] \in {"ACKNOWLEDGED", "REJECTED"}
          PROVE  Settled(u)'
      <3>1. Settled(u)
        BY <1>0, <1>2, <1>3, <2>2 DEF QueueInv
      <3>2. QED
        BY <1>2, <3>1 DEF Settled
    <2>3. QED
      BY <2>1, <2>2 DEF QueueInv
  <1>7. RunInv'
    <2>1. \A u \in Ops : outbox'[u] # "IN_FLIGHT"
      BY <1>0, <1>2, <1>3 DEF RunInv
    <2>2. run'.phase # "wait"
      BY <1>2 DEF IdleRun
    <2>3. QED
      BY <2>1, <2>2 DEF RunInv
  <1>8. QED
    BY <1>1, <1>4, <1>6, <1>7 DEF SyncInv

\* The receipt of a new operation.
LEMMA ReceiveStep ==
    ASSUME SyncInv, NEW w \in Workers, Receive(w)
    PROVE  SyncInv'
  <1>0. TypeOK /\ RequestInv(w) /\ worker[w] \in Requests
    BY DEF SyncInv, TypeOK
  <1>1. /\ worker[w].phase = "receive" /\ Busy(w) /\ rec[Current(w)] = "NONE"
        /\ rec' = [rec EXCEPT ![Current(w)] = "RECEIVED"]
        /\ worker' = [worker EXCEPT ![w].phase = "handler"]
        /\ outbox' = outbox /\ run' = run /\ target' = target /\ op' = op /\ applied' = applied
    BY DEF Receive, Busy, world
  <1>2. Current(w) \in Ops /\ worker[w].todo # {}
    BY <1>0, <1>1, CurrentIsOldest DEF RequestInv
  <1>3. /\ rec' \in [Ops -> {"NONE", "RECEIVED"} \cup Verdicts]
        /\ \A u \in Ops : (Settled(u) => Settled(u)') /\ (rec[u] # "NONE" => rec'[u] # "NONE")
        /\ SettledInOrder'
    BY <1>1, InOrderStep
  <1>4. Forward
    BY <1>1, <1>3 DEF Forward
  <1>5. /\ worker'[w] = [worker[w] EXCEPT !.phase = "handler"]
        /\ \A x \in Workers : x # w => worker'[x] = worker[x]
        /\ worker' \in [Workers -> Requests]
    BY <1>0, <1>1 DEF TypeOK, Requests
  <1>6. /\ worker'[w].phase = "handler" /\ worker'[w].todo = worker[w].todo
        /\ worker'[w].answers = worker[w].answers
    BY <1>0, <1>5 DEF Requests
  <1>7. RequestInv(w)'
    <2>1. Current(w)' = Current(w)
      BY <1>6 DEF Current
    <2>2. rec'[Current(w)] = "RECEIVED"
      BY <1>0, <1>1, <1>2 DEF TypeOK
    <2>3. QED
      BY <1>0, <1>1, <1>3, <1>6, <2>1, <2>2 DEF RequestInv, Busy
  <1>8. ASSUME NEW x \in Workers PROVE RequestInv(x)'
    BY <1>4, <1>5, <1>7, OtherRequests
  <1>9. QueueInv' /\ RunInv'
    BY <1>1, <1>4, DeviceUndisturbed
  <1>10. BooksInv'
    BY <1>0, <1>1, <1>2 DEF SyncInv, BooksInv, TypeOK
  <1>11. TypeOK'
    BY <1>0, <1>1, <1>3, <1>5 DEF TypeOK
  <1>12. QED
    BY <1>3, <1>8, <1>9, <1>10, <1>11 DEF SyncInv

\* The handler's own transaction, after a receipt.
LEMMA ApplyStep ==
    ASSUME SyncInv, NEW w \in Workers, Apply(w)
    PROVE  SyncInv'
  <1>0. TypeOK /\ RequestInv(w) /\ worker[w] \in Requests
    BY DEF SyncInv, TypeOK
  <1>1. /\ worker[w].phase = "handler" /\ Busy(w) /\ Handle(Current(w))
        /\ worker' = [worker EXCEPT ![w].phase = "save", ![w].verdict = Outcome(Current(w))]
        /\ outbox' = outbox /\ run' = run /\ rec' = rec /\ target' = target /\ op' = op
    BY DEF Apply, Busy
  <1>2. Current(w) \in Ops /\ worker[w].todo # {}
    BY <1>0, <1>1, CurrentIsOldest DEF RequestInv
  <1>3. /\ applied' \in [Ops -> Nat]
        /\ \A v \in Ops : applied'[v] \in {0, 1} /\ (applied[v] = 1 => applied'[v] = 1)
        /\ Outcome(Current(w)) \in Verdicts
        /\ Outcome(Current(w)) = "ACCEPTED" =>
              applied'[Current(w)] = 1 \/ target'[Current(w)] = "taken"
    BY <1>1, <1>2, HandlerOutcome
  <1>4. Forward
    BY <1>1, <1>3 DEF Forward, Settled
  <1>5. /\ worker'[w] = [worker[w] EXCEPT !.phase = "save", !.verdict = Outcome(Current(w))]
        /\ \A x \in Workers : x # w => worker'[x] = worker[x]
    BY <1>0, <1>1 DEF TypeOK
  <1>6. /\ worker'[w].phase = "save" /\ worker'[w].todo = worker[w].todo
        /\ worker'[w].answers = worker[w].answers
        /\ worker'[w].verdict = Outcome(Current(w))
        /\ worker'[w] \in Requests
    BY <1>0, <1>3, <1>5 DEF Requests, Wire
  <1>7. worker' \in [Workers -> Requests]
    BY <1>0, <1>1, <1>5, <1>6 DEF TypeOK
  <1>8. RequestInv(w)'
    <2>1. Current(w)' = Current(w)
      BY <1>6 DEF Current
    <2>2. rec[Current(w)] # "NONE"
      BY <1>0, <1>1 DEF RequestInv
    <2>3. (\A u \in Ops : worker[w].answers[u] # "NONE" => Settled(u))'
      BY <1>0, <1>1, <1>6 DEF RequestInv, Settled
    <2>4. (Busy(w) =>
            /\ worker[w].todo # {}
            /\ \A u \in worker[w].todo, v \in Ops \ worker[w].todo : v < u => Settled(v))'
      BY <1>0, <1>1, <1>6 DEF RequestInv, Settled
    <2>5. QED
      BY <1>1, <1>3, <1>6, <2>1, <2>2, <2>3, <2>4 DEF RequestInv
  <1>9. ASSUME NEW x \in Workers PROVE RequestInv(x)'
    BY <1>4, <1>5, <1>8, OtherRequests
  <1>10. QueueInv' /\ RunInv'
    BY <1>1, <1>4, DeviceUndisturbed
  <1>11. BooksInv' /\ SettledInOrder'
    BY <1>1, <1>3 DEF SyncInv, BooksInv, SettledInOrder
  <1>12. TypeOK'
    BY <1>0, <1>1, <1>3, <1>7 DEF TypeOK
  <1>13. QED
    BY <1>9, <1>10, <1>11, <1>12 DEF SyncInv

\* The steps that answer the current operation: its verdict is saved after the
\* handler, was there before, or is reached again by the recovery.
LEMMA VerdictStep ==
    ASSUME SyncInv, NEW w \in Workers, Save(w) \/ Replay(w) \/ Recover(w)
    PROVE  SyncInv'
  <1>0. TypeOK /\ RequestInv(w) /\ BooksInv
    BY DEF SyncInv
  <1>1. Busy(w) /\ outbox' = outbox /\ run' = run /\ target' = target /\ op' = op
    BY DEF Save, Replay, Recover, Busy, world
  <1>2. Current(w) \in Ops /\ worker[w].todo # {}
    BY <1>0, <1>1, CurrentIsOldest DEF RequestInv
  <1>3. PICK r \in Verdicts, wire \in Wire :
          /\ rec' = [rec EXCEPT ![Current(w)] = r] /\ Answer(w, wire)
          /\ applied' \in [Ops -> Nat]
          /\ \A v \in Ops : applied'[v] \in {0, 1} /\ (applied[v] = 1 => applied'[v] = 1)
          /\ r = "ACCEPTED" => applied'[Current(w)] = 1 \/ target'[Current(w)] = "taken"
    <2>1. CASE Save(w)
      <3>1. /\ worker[w].verdict \in Verdicts
            /\ worker[w].verdict = "ACCEPTED" =>
                  applied[Current(w)] = 1 \/ target[Current(w)] = "taken"
        BY <1>0, <2>1 DEF Save, RequestInv
      <3>2. /\ rec' = [rec EXCEPT ![Current(w)] = worker[w].verdict]
            /\ Answer(w, worker[w].verdict)
            /\ applied' = applied
        BY <2>1 DEF Save, world
      <3>3. QED
        BY <1>0, <1>1, <3>1, <3>2 DEF TypeOK, BooksInv, Wire
    <2>2. CASE Replay(w)
      <3>1. rec[Current(w)] \in Verdicts /\ Answer(w, "DUPLICATE") /\ rec' = rec /\ applied' = applied
        BY <2>2 DEF Replay, world
      <3>2. rec' = [rec EXCEPT ![Current(w)] = rec[Current(w)]]
        BY <1>0, <1>2, <3>1 DEF TypeOK
      <3>3. QED
        BY <1>0, <1>1, <1>2, <3>1, <3>2 DEF TypeOK, BooksInv, Wire
    <2>3. CASE Recover(w)
      <3>1. /\ Handle(Current(w)) /\ rec' = [rec EXCEPT ![Current(w)] = Outcome(Current(w))]
            /\ Answer(w, Outcome(Current(w)))
        BY <2>3 DEF Recover
      <3>2. /\ applied' \in [Ops -> Nat]
            /\ \A v \in Ops : applied'[v] \in {0, 1} /\ (applied[v] = 1 => applied'[v] = 1)
            /\ Outcome(Current(w)) \in Verdicts
            /\ Outcome(Current(w)) = "ACCEPTED" =>
                  applied'[Current(w)] = 1 \/ target'[Current(w)] = "taken"
        BY <1>1, <1>2, <3>1, HandlerOutcome
      <3>3. QED
        BY <3>1, <3>2 DEF Wire
    <2>4. QED
      BY <2>1, <2>2, <2>3
  <1>4. /\ rec' \in [Ops -> {"NONE", "RECEIVED"} \cup Verdicts]
        /\ \A u \in Ops : (Settled(u) => Settled(u)') /\ (rec[u] # "NONE" => rec'[u] # "NONE")
        /\ SettledInOrder'
    <2>1. r # "RECEIVED"
      BY DEF Verdicts
    <2>2. QED
      BY <1>1, <1>3, <2>1, InOrderStep
  <1>5. \A u \in Ops : rec'[u] = IF u = Current(w) THEN r ELSE rec[u]
    BY <1>0, <1>2, <1>3 DEF TypeOK
  <1>6. Forward
    BY <1>1, <1>3, <1>4 DEF Forward
  <1>7. /\ worker' \in [Workers -> Requests]
        /\ \A x \in Workers : x # w => worker'[x] = worker[x]
        /\ RequestInv(w)'
    <2>1. rec'[Current(w)] \in Verdicts
      BY <1>2, <1>5
    <2>2. QED
      BY <1>1, <1>3, <1>6, <2>1, AnswerStep
  <1>8. ASSUME NEW x \in Workers PROVE RequestInv(x)'
    BY <1>6, <1>7, OtherRequests
  <1>9. QueueInv' /\ RunInv'
    BY <1>1, <1>6, DeviceUndisturbed
  <1>10. BooksInv'
    <2>1. ASSUME NEW u \in Ops, rec'[u] = "ACCEPTED"
          PROVE  applied'[u] = 1 \/ target'[u] = "taken"
      BY <1>0, <1>1, <1>3, <1>5, <2>1 DEF BooksInv
    <2>2. QED
      BY <1>3, <2>1 DEF BooksInv
  <1>11. TypeOK'
    BY <1>0, <1>1, <1>3, <1>4, <1>7 DEF TypeOK
  <1>12. QED
    BY <1>4, <1>8, <1>9, <1>10, <1>11 DEF SyncInv

\* A response nobody waits for, a request that is lost, a process that dies, a handler
\* that raises.
LEMMA RequestGone ==
    ASSUME SyncInv, NEW w \in Workers, Unheard(w) \/ WorkerDies(w) \/ HandlerRaises(w)
    PROVE  SyncInv'
  <1>1. /\ \E end \in {IdleWorker, FailedWorker} : worker' = [worker EXCEPT ![w] = end]
        /\ UNCHANGED <<rec, world>> /\ outbox' = outbox /\ run' = run
    BY DEF Unheard, WorkerDies, HandlerRaises, FailedWorker
  <1>2. /\ worker' \in [Workers -> Requests]
        /\ \A x \in Workers : RequestInv(x)'
        /\ BooksInv' /\ SettledInOrder'
    BY <1>1, EndedRequest
  <1>3. Forward
    BY <1>1 DEF Forward, Settled, world
  <1>4. QueueInv' /\ RunInv'
    BY <1>1, <1>3, DeviceUndisturbed
  <1>5. TypeOK'
    BY <1>1, <1>2 DEF SyncInv, TypeOK, world
  <1>6. QED
    BY <1>2, <1>4, <1>5 DEF SyncInv

\* A 500 reaches the device: the rows return to PENDING, and nothing is let go.
LEMMA ServerErrorStep ==
    ASSUME SyncInv, NEW w \in Workers, ServerError(w)
    PROVE  SyncInv'
  <1>1. /\ worker' = [worker EXCEPT ![w] = IdleWorker] /\ UNCHANGED <<rec, world>>
        /\ outbox' = Reclaimed /\ run' = IdleRun
    BY DEF ServerError, Unsettled
  <1>2. /\ worker' \in [Workers -> Requests]
        /\ \A x \in Workers : RequestInv(x)'
        /\ BooksInv' /\ SettledInOrder'
    BY <1>1, EndedRequest
  <1>3. /\ outbox' \in [Ops -> {"NONE", "PENDING", "IN_FLIGHT", "ACKNOWLEDGED", "REJECTED"}]
        /\ QueueInv'
    BY <1>1, ReclaimInv
  <1>4. RunInv' /\ run' \in Runs
    BY <1>1 DEF RunInv, IdleRun, Runs
  <1>5. TypeOK'
    BY <1>1, <1>2, <1>3, <1>4 DEF SyncInv, TypeOK, world
  <1>6. QED
    BY <1>2, <1>3, <1>4, <1>5 DEF SyncInv

\* The office never undoes an outcome it recorded.
LEMMA OfficeStep ==
    ASSUME SyncInv, NEW u \in Ops, OfficeActs(u)
    PROVE  SyncInv'
  <1>0. TypeOK /\ BooksInv
    BY DEF SyncInv
  <1>1. /\ outbox' = outbox /\ run' = run /\ worker' = worker /\ rec' = rec
        /\ applied' = applied /\ op' = op /\ target[u] # "taken"
    BY DEF OfficeActs
  <1>2. /\ target' \in [Ops -> {"refused", "open", "taken"}]
        /\ \A v \in Ops : target[v] = "taken" => target'[v] = "taken"
    BY <1>0 DEF TypeOK, OfficeActs
  <1>3. Forward
    BY <1>1, <1>2 DEF Forward, Settled
  <1>4. ASSUME NEW x \in Workers PROVE RequestInv(x)'
    BY <1>1, <1>3, OtherRequests
  <1>5. QueueInv' /\ RunInv'
    BY <1>1, <1>3, DeviceUndisturbed
  <1>6. BooksInv' /\ SettledInOrder'
    BY <1>1, <1>2 DEF SyncInv, BooksInv, SettledInOrder
  <1>7. TypeOK'
    BY <1>0, <1>1, <1>2 DEF TypeOK
  <1>8. QED
    BY <1>4, <1>5, <1>6, <1>7 DEF SyncInv

----------------------------------------------------------------------------
\* Every step of the device, the connection, the server and the office.
LEMMA NextInv == SyncInv /\ [Next]_vars => SyncInv'
  <1> SUFFICES ASSUME SyncInv, [Next]_vars PROVE SyncInv'
    OBVIOUS
  <1>1. CASE Device
    BY <1>1, QuietDeviceStep, SendStep, SettleStep, ServerErrorStep DEF Device, TimesOut
  <1>2. ASSUME NEW w \in Workers, Serve(w) PROVE SyncInv'
    BY <1>2, ReceiveStep, ApplyStep, VerdictStep, RequestGone DEF Serve
  <1>3. CASE Fault
    BY <1>3, QuietDeviceStep, RequestGone DEF Fault, Disconnects
  <1>4. ASSUME NEW u \in Ops, Capture(u) \/ OfficeActs(u) PROVE SyncInv'
    BY <1>4, QuietDeviceStep, OfficeStep
  <1>5. CASE UNCHANGED vars
    <2>1. UNCHANGED server /\ outbox' = outbox /\ run' = run
      BY <1>5 DEF vars, server
    <2>2. (\A w \in Workers : RequestInv(w))' /\ BooksInv' /\ SettledInOrder'
      BY <2>1, ServerUntouched
    <2>3. QueueInv' /\ RunInv' /\ TypeOK'
      BY <2>1 DEF SyncInv, QueueInv, RunInv, TypeOK, Settled, server
    <2>4. QED
      BY <2>2, <2>3 DEF SyncInv
  <1>6. QED
    BY <1>1, <1>2, <1>3, <1>4, <1>5 DEF Next

\* The inductive invariant holds in every state of the push protocol.
THEOREM Invariance == Spec => []SyncInv
  <1>1. QED
    BY InitInv, NextInv, PTL DEF Spec

\* Every variable keeps its type: no wire status ever ends up in the outbox.
THEOREM TypeCorrect == Spec => []TypeOK
  <1>1. SyncInv => TypeOK
    BY DEF SyncInv
  <1>2. QED
    BY <1>1, Invariance, PTL

\* FR-SYN-004, BR-014: whatever is cut, killed, resent or raced, the device lets go
\* only of what the server has a verdict on, and an accepted operation is in the books.
THEOREM NoSilentLossHolds == Spec => []NoSilentLoss
  <1>1. SyncInv => NoSilentLoss
    BY DEF SyncInv, QueueInv, BooksInv, NoSilentLoss, Settled
  <1>2. QED
    BY <1>1, Invariance, PTL

\* BR-013, PU-1: operations are taken up in the order the device captured them.
THEOREM SettledInOrderHolds == Spec => []SettledInOrder
  <1>1. SyncInv => SettledInOrder
    BY DEF SyncInv
  <1>2. QED
    BY <1>1, Invariance, PTL
----------------------------------------------------------------------------
(* Refinement: the device's row and the server's, read together, only move  *)
(* forward through the stages of the abstract queue.                        *)

LetGo == {"ACKNOWLEDGED", "REJECTED"}

\* What a request still has to do was captured on the device.
SentInv == \A w \in Workers : \A u \in worker[w].todo : outbox[u] # "NONE"

QueueInvariant == SyncInv /\ SentInv

\* Settling never forgets a row: there is a local status for every answer.
LEMMA LocalStatusKnown ==
    ASSUME NEW wire PROVE LocalStatus(wire) \in {"PENDING", "ACKNOWLEDGED", "REJECTED"}
  BY DEF LocalStatus

\* Steps of the server and the office leave the outbox alone, and a request only ever
\* has less left to do.
LEMMA ServerKeepsSent ==
    ASSUME SyncInv, SentInv, NEW w \in Workers, Serve(w) \/ WorkerDies(w)
    PROVE  SentInv'
  <1>0. TypeOK /\ outbox' = outbox
    BY DEF SyncInv, Serve, Receive, Apply, Save, Replay, Recover, HandlerRaises, Unheard, WorkerDies
  <1>1. CASE Receive(w) \/ Apply(w)
    <2>1. \A x \in Workers : worker'[x].todo = worker[x].todo
      <3>1. CASE Receive(w)
        BY <1>0, <3>1 DEF Receive, TypeOK, Requests
      <3>2. CASE Apply(w)
        <4>1. worker' = [worker EXCEPT ![w].phase = "save", ![w].verdict = Outcome(Current(w))]
          BY <3>2 DEF Apply
        <4>2. QED
          BY <1>0, <4>1 DEF TypeOK, Requests
      <3>3. QED
        BY <1>1, <3>1, <3>2
    <2>2. QED
      BY <1>0, <2>1 DEF SentInv
  <1>2. ASSUME NEW wire, Answer(w, wire) PROVE SentInv'
    <2>1. \A x \in Workers : x # w => worker'[x] = worker[x]
      BY <1>0, <1>2 DEF Answer, TypeOK
    <2>2. worker'[w].todo = worker[w].todo \ {Current(w)}
      BY <1>0, <1>2 DEF Answer, TypeOK
    <2>3. QED
      BY <1>0, <2>1, <2>2 DEF SentInv
  <1>3. CASE Unheard(w) \/ WorkerDies(w) \/ HandlerRaises(w)
    <2>1. \A x \in Workers : x # w => worker'[x] = worker[x]
      BY <1>0, <1>3 DEF Unheard, WorkerDies, HandlerRaises, TypeOK
    <2>2. worker'[w].todo = {}
      BY <1>0, <1>3 DEF Unheard, WorkerDies, HandlerRaises, TypeOK, IdleWorker
    <2>3. QED
      BY <1>0, <2>1, <2>2 DEF SentInv
  <1>4. CASE Save(w)
    BY <1>2, <1>4 DEF Save
  <1>5. CASE Replay(w)
    BY <1>2, <1>5 DEF Replay
  <1>6. CASE Recover(w)
    BY <1>2, <1>6 DEF Recover
  <1>7. QED
    BY <1>1, <1>3, <1>4, <1>5, <1>6 DEF Serve

\* What happened to a row of the outbox when the device moves: nothing is uncaptured,
\* and only a settled push lets go.
RowsKept ==
    \A u \in Ops : /\ (outbox'[u] = "NONE") = (outbox[u] = "NONE")
                   /\ (outbox'[u] \in LetGo) = (outbox[u] \in LetGo)

LEMMA DeviceKeepsRows ==
    ASSUME SyncInv, SyncStart \/ NothingToSend \/ PushFails \/ Abandon
                    \/ \E w \in Workers : ClaimAndSend(w) \/ ServerError(w)
    PROVE  RowsKept
  <1>1. CASE outbox' = outbox
    BY <1>1 DEF RowsKept
  <1>2. CASE outbox' = Reclaimed
    <2>1. ASSUME NEW u \in Ops
          PROVE  /\ outbox[u] = "IN_FLIGHT" => outbox'[u] = "PENDING"
                 /\ outbox[u] # "IN_FLIGHT" => outbox'[u] = outbox[u]
      BY <1>2 DEF Reclaimed
    <2>2. QED
      BY <2>1 DEF RowsKept, LetGo
  <1>3. ASSUME NEW w \in Workers, ClaimAndSend(w) PROVE RowsKept
    <2>1. PICK batch \in Batches :
             outbox' = [u \in Ops |-> IF u \in batch THEN "IN_FLIGHT" ELSE outbox[u]]
      BY <1>3 DEF ClaimAndSend
    <2>2. \A u \in batch : outbox[u] = "PENDING"
      BY DEF Batches, Pending
    <2>3. QED
      BY <2>1, <2>2 DEF RowsKept, LetGo
  <1>4. QED
    BY <1>1, <1>2, <1>3
       DEF SyncStart, NothingToSend, PushFails, ServerError, Unsettled, Abandon

\* A response settles the rows of its batch, all of them in flight until then.
LEMMA SettledRows ==
    ASSUME SyncInv, NEW w \in Workers, Settle(w)
    PROVE  /\ \A u \in Ops : /\ (outbox'[u] = "NONE") = (outbox[u] = "NONE")
                             /\ outbox[u] \in LetGo => outbox'[u] \in LetGo
           /\ \A x \in Workers : worker'[x].todo \subseteq worker[x].todo
  <1>0. TypeOK /\ RunInv
    BY DEF SyncInv
  <1>1. \A u \in Ops : outbox'[u] = IF u \in run.batch THEN LocalStatus(worker[w].answers[u])
                                                       ELSE outbox[u]
    BY DEF Settle
  <1>2. \A u \in Ops : u \in run.batch => outbox[u] = "IN_FLIGHT"
    BY <1>0 DEF RunInv, Settle
  <1>3. \A u \in Ops : u \in run.batch => outbox'[u] \in {"PENDING", "ACKNOWLEDGED", "REJECTED"}
    BY <1>1, LocalStatusKnown
  <1>4. ASSUME NEW u \in Ops
        PROVE  /\ (outbox'[u] = "NONE") = (outbox[u] = "NONE")
               /\ outbox[u] \in LetGo => outbox'[u] \in LetGo
    <2>1. CASE u \in run.batch
      BY <1>2, <1>3, <2>1 DEF LetGo
    <2>2. CASE u \notin run.batch
      BY <1>1, <2>2
    <2>3. QED
      BY <2>1, <2>2
  <1>5. ASSUME NEW x \in Workers PROVE worker'[x].todo \subseteq worker[x].todo
    <2>1. worker' = [worker EXCEPT ![w] = IdleWorker]
      BY DEF Settle
    <2>2. worker'[x] = worker[x] \/ worker'[x] = IdleWorker
      BY <1>0, <2>1 DEF TypeOK
    <2>3. QED
      BY <2>2 DEF IdleWorker
  <1>6. QED
    BY <1>4, <1>5

\* No step has a request work on something that was not captured.
LEMMA NextKeepsSent == SyncInv /\ SentInv /\ [Next]_vars => SentInv'
  <1> SUFFICES ASSUME SyncInv, SentInv, [Next]_vars PROVE SentInv'
    OBVIOUS
  <1>0. TypeOK
    BY DEF SyncInv
  <1>a. ASSUME worker' = worker, \A u \in Ops : outbox[u] # "NONE" => outbox'[u] # "NONE"
        PROVE  SentInv'
    BY <1>0, <1>a DEF SentInv, TypeOK, Requests
  <1>1. CASE SyncStart \/ NothingToSend \/ PushFails \/ Abandon
    <2>1. worker' = worker
      BY <1>1 DEF SyncStart, NothingToSend, PushFails, Abandon, server
    <2>2. QED
      BY <1>1, <1>a, <2>1, DeviceKeepsRows DEF RowsKept
  <1>2. ASSUME NEW w \in Workers, ClaimAndSend(w) PROVE SentInv'
    <2>1. PICK batch \in Batches :
             worker' = [worker EXCEPT ![w] = [IdleWorker EXCEPT !.phase = "receive",
                                                                !.todo = batch]]
      BY <1>2 DEF ClaimAndSend
    <2>2. \A u \in batch : u \in Ops /\ outbox[u] # "NONE"
      BY DEF Batches, Pending
    <2>3. worker'[w].todo = batch
      BY <1>0, <2>1 DEF TypeOK, IdleWorker
    <2>4. \A x \in Workers : x # w => worker'[x] = worker[x]
      BY <1>0, <2>1 DEF TypeOK
    <2>5. \A u \in Ops : outbox[u] # "NONE" => outbox'[u] # "NONE"
      BY <1>2, DeviceKeepsRows DEF RowsKept
    <2>6. \A x \in Workers : worker[x].todo \subseteq Ops
      BY <1>0 DEF TypeOK, Requests
    <2>7. QED
      BY <2>2, <2>3, <2>4, <2>5, <2>6 DEF SentInv
  <1>3. ASSUME NEW w \in Workers, Settle(w) PROVE SentInv'
    <2>1. \A x \in Workers : worker[x].todo \subseteq Ops
      BY <1>0 DEF TypeOK, Requests
    <2>2. QED
      BY <1>3, <2>1, SettledRows DEF SentInv
  <1>b. ASSUME NEW w \in Workers, ServerError(w) PROVE SentInv'
    <2>1. worker' = [worker EXCEPT ![w] = IdleWorker]
      BY <1>b DEF ServerError
    <2>2. \A x \in Workers : worker'[x] = worker[x] \/ worker'[x].todo = {}
      BY <1>0, <2>1 DEF TypeOK, IdleWorker
    <2>3. \A u \in Ops : outbox[u] # "NONE" => outbox'[u] # "NONE"
      BY <1>b, DeviceKeepsRows DEF RowsKept
    <2>4. \A x \in Workers : worker[x].todo \subseteq Ops
      BY <1>0 DEF TypeOK, Requests
    <2>5. QED
      BY <2>2, <2>3, <2>4 DEF SentInv
  <1>4. ASSUME NEW u \in Ops, Capture(u) PROVE SentInv'
    <2>1. worker' = worker /\ \A v \in Ops : v # u => outbox'[v] = outbox[v]
      BY <1>0, <1>4 DEF Capture, server, TypeOK
    <2>2. outbox'[u] = "PENDING"
      BY <1>0, <1>4 DEF Capture, TypeOK
    <2>3. QED
      BY <1>a, <2>1, <2>2
  <1>5. CASE UNCHANGED vars \/ \E u \in Ops : OfficeActs(u)
    BY <1>5, <1>a DEF vars, OfficeActs
  <1>6. CASE Device
    BY <1>1, <1>2, <1>3, <1>6, <1>b DEF Device, TimesOut
  <1>7. CASE Fault
    BY <1>1, <1>7, ServerKeepsSent DEF Fault, Disconnects
  <1>8. QED
    BY <1>4, <1>5, <1>6, <1>7, ServerKeepsSent DEF Next

\* A request never works on what its device has not captured.
LEMMA SentHolds == Spec => []QueueInvariant
  <1>1. Init => SentInv
    BY DEF Init, SentInv, IdleWorker
  <1>2. QueueInvariant /\ [Next]_vars => QueueInvariant'
    BY NextInv, NextKeepsSent DEF QueueInvariant
  <1>3. Init => QueueInvariant
    BY <1>1, InitInv DEF QueueInvariant
  <1>4. QED
    BY <1>2, <1>3, PTL DEF Spec

----------------------------------------------------------------------------
Stages == [u \in Ops |-> Stage(u)]

\* A row that is let go has a verdict, so its stage is told by the record alone otherwise.
LEMMA StageFacts ==
    ASSUME SyncInv, NEW u \in Ops
    PROVE  /\ Stage(u) = "released" <=> outbox[u] \in LetGo
           /\ Stage(u) \in {"decided", "released"} <=> Settled(u)
           /\ Stage(u) = "taken" <=> rec[u] = "RECEIVED"
           /\ Stage(u) = "none" <=> rec[u] = "NONE" /\ outbox[u] = "NONE"
           /\ Stage(u) = "held" <=> rec[u] = "NONE" /\ outbox[u] # "NONE"
           /\ Stage(u) \in {"none", "held", "taken", "decided", "released"}
  <1>1. rec[u] \in {"NONE", "RECEIVED"} \cup Verdicts
    BY DEF SyncInv, TypeOK
  <1>2. outbox[u] \in LetGo => rec[u] \in Verdicts
    BY DEF SyncInv, QueueInv, Settled, LetGo
  <1>3. CASE outbox[u] \in LetGo
    BY <1>2, <1>3 DEF Stage, Settled, LetGo, Verdicts
  <1>4. CASE outbox[u] \notin LetGo
    BY <1>1, <1>4 DEF Stage, Settled, LetGo, Verdicts
  <1>5. QED
    BY <1>3, <1>4

\* The same after the step.
LEMMA StageFactsNext ==
    ASSUME SyncInv', NEW u \in Ops
    PROVE  /\ Stage(u)' = "released" <=> outbox'[u] \in LetGo
           /\ Stage(u)' \in {"decided", "released"} <=> Settled(u)'
           /\ Stage(u)' = "taken" <=> rec'[u] = "RECEIVED"
           /\ Stage(u)' = "none" <=> rec'[u] = "NONE" /\ outbox'[u] = "NONE"
           /\ Stage(u)' = "held" <=> rec'[u] = "NONE" /\ outbox'[u] # "NONE"
           /\ Stage(u)' \in {"none", "held", "taken", "decided", "released"}
  <1>1. rec'[u] \in {"NONE", "RECEIVED"} \cup Verdicts
    BY DEF SyncInv, TypeOK
  <1>2. outbox'[u] \in LetGo => rec'[u] \in Verdicts
    BY DEF SyncInv, QueueInv, Settled, LetGo
  <1>3. CASE outbox'[u] \in LetGo
    BY <1>2, <1>3 DEF Stage, Settled, LetGo, Verdicts
  <1>4. CASE outbox'[u] \notin LetGo
    BY <1>1, <1>4 DEF Stage, Settled, LetGo, Verdicts
  <1>5. QED
    BY <1>3, <1>4

\* Rows that are neither captured nor let go, and a record as settled as it was, leave
\* the operation in its stage.
LEMMA SameStage ==
    ASSUME NEW u \in Ops,
           (outbox'[u] = "NONE") = (outbox[u] = "NONE"),
           (outbox'[u] \in LetGo) = (outbox[u] \in LetGo),
           rec'[u] = rec[u] \/ (Settled(u) /\ Settled(u)')
    PROVE  Stage(u)' = Stage(u)
  <1>1. CASE outbox[u] \in LetGo
    BY <1>1 DEF Stage, LetGo
  <1>2. CASE outbox[u] \notin LetGo /\ rec'[u] = rec[u]
    BY <1>2 DEF Stage, LetGo
  <1>3. CASE outbox[u] \notin LetGo /\ Settled(u) /\ Settled(u)'
    BY <1>3 DEF Stage, LetGo, Settled
  <1>4. QED
    BY <1>1, <1>2, <1>3

QueueStep == [Queue!QueueNext]_(<<Stages, applied>>)

\* Nothing the abstract queue can see.
LEMMA UnseenStep ==
    ASSUME RowsKept, \A u \in Ops : rec'[u] = rec[u] \/ (Settled(u) /\ Settled(u)'),
           applied' = applied
    PROVE  QueueStep
  <1>1. \A u \in Ops : Stage(u)' = Stage(u)
    BY SameStage DEF RowsKept
  <1>2. Stages' = Stages
    BY <1>1 DEF Stages
  <1>3. QED
    BY <1>2 DEF QueueStep

\* append: the operation enters the queue behind all the others.
LEMMA CaptureEnters ==
    ASSUME SyncInv, SyncInv', NEW u \in Ops, Capture(u)
    PROVE  QueueStep
  <1>1. /\ rec' = rec /\ applied' = applied /\ outbox[u] = "NONE" /\ outbox'[u] = "PENDING"
        /\ \A v \in Ops : v # u => outbox'[v] = outbox[v]
        /\ \A v \in Ops : v < u => outbox[v] # "NONE"
    BY DEF Capture, server, SyncInv, TypeOK
  <1>2. \A v \in Ops : v # u => Stage(v)' = Stage(v)
    BY <1>1, SameStage
  <1>3. Stages' = [Stages EXCEPT ![u] = Stage(u)']
    BY <1>2 DEF Stages
  <1>4. CASE rec[u] = "NONE"
    <2>1. Stage(u) = "none" /\ Stage(u)' = "held"
      BY <1>1, <1>4, StageFacts, StageFactsNext
    <2>2. \A v \in Ops : v < u => Stages[v] # "none"
      BY <1>1, StageFacts DEF Stages
    <2>3. Queue!Enter(u)
      BY <1>1, <1>3, <2>1, <2>2 DEF Queue!Enter, Queue!Numbers, Stages, Ops
    <2>4. QED
      BY <2>3 DEF QueueStep, Queue!QueueNext, Queue!Numbers, Ops
  <1>5. CASE rec[u] # "NONE"
    <2>1. Stage(u)' = Stage(u)
      BY <1>1, <1>5 DEF Stage, SyncInv, TypeOK
    <2>2. Stages' = Stages
      BY <1>2, <2>1 DEF Stages
    <2>3. QED
      BY <1>1, <2>2 DEF QueueStep
  <1>6. QED
    BY <1>4, <1>5

\* settle: the device lets go of the rows that got a verdict, and of no others.
LEMMA SettleReleases ==
    ASSUME SyncInv, SyncInv', NEW w \in Workers, Settle(w)
    PROVE  QueueStep
  <1> DEFINE some == {u \in Ops : outbox[u] \notin LetGo /\ outbox'[u] \in LetGo}
  <1>1. rec' = rec /\ applied' = applied
    BY DEF Settle, world
  <1>2. ASSUME NEW u \in some PROVE Stage(u) = "decided" /\ Stage(u)' = "released"
    <2>1. Settled(u)'
      BY <1>2, StageFactsNext
    <2>2. Settled(u)
      BY <1>1, <2>1 DEF Settled
    <2>3. QED
      BY <1>2, <2>2, StageFacts, StageFactsNext
  <1>3. ASSUME NEW u \in Ops, u \notin some PROVE Stage(u)' = Stage(u)
    BY <1>1, <1>3, SettledRows, SameStage
  <1>4. Stages' = [u \in Ops |-> IF u \in some THEN "released" ELSE Stages[u]]
    BY <1>2, <1>3 DEF Stages
  <1>5. \A u \in some : Stages[u] = "decided"
    BY <1>2 DEF Stages
  <1> HIDE DEF some
  <1>6. some \in SUBSET Ops
    BY DEF some
  <1>7. Queue!Release(some)
    BY <1>1, <1>4, <1>5 DEF Queue!Release, Queue!Numbers, Stages, Ops
  <1>8. QED
    BY <1>6, <1>7 DEF QueueStep, Queue!QueueNext, Queue!Numbers, Ops

\* A step of one operation: its stage and its effect, and nobody else's.
LEMMA OneOperation ==
    ASSUME SyncInv, NEW c \in Ops, outbox' = outbox,
           \A v \in Ops : v # c => rec'[v] = rec[v]
    PROVE  Stages' = [Stages EXCEPT ![c] = Stage(c)']
  <1>1. \A v \in Ops : v # c => Stage(v)' = Stage(v)
    BY SameStage
  <1>2. QED
    BY <1>1 DEF Stages

\* The operation a request is working on.
LEMMA WorkedOn ==
    ASSUME SyncInv, NEW w \in Workers, Busy(w)
    PROVE  Current(w) \in Ops /\ Current(w) \in worker[w].todo
  <1>1. TypeOK /\ worker[w].todo # {}
    BY DEF SyncInv, RequestInv
  <1>2. QED
    BY <1>1, CurrentIsOldest

\* The receipt: everything captured earlier is decided.
LEMMA ReceiveTakesUp ==
    ASSUME SyncInv, SentInv, SyncInv', NEW w \in Workers, Receive(w)
    PROVE  QueueStep
  <1>0. PICK c \in Ops : c = Current(w)
    BY WorkedOn DEF Busy, Receive
  <1>1. c \in Ops /\ c \in worker[w].todo
    BY <1>0, WorkedOn DEF Busy, Receive
  <1>2. /\ rec[c] = "NONE" /\ outbox' = outbox /\ applied' = applied
        /\ rec' = [rec EXCEPT ![c] = "RECEIVED"]
    BY <1>0 DEF Receive, world
  <1>3. rec'[c] = "RECEIVED" /\ \A v \in Ops : v # c => rec'[v] = rec[v]
    BY <1>1, <1>2 DEF SyncInv, TypeOK
  <1>4. Stages' = [Stages EXCEPT ![c] = Stage(c)']
    BY <1>1, <1>2, <1>3, OneOperation
  <1>5. outbox[c] # "NONE"
    BY <1>1 DEF SentInv
  <1>6. Stage(c) = "held" /\ Stage(c)' = "taken"
    BY <1>1, <1>2, <1>3, <1>5, StageFacts, StageFactsNext
  <1>7. ASSUME NEW v \in Ops, v < c PROVE Stages[v] \in {"decided", "released"}
    <2>1. rec'[v] \in Verdicts
      BY <1>1, <1>3, <1>7 DEF SyncInv, SettledInOrder
    <2>2. v # c
      BY <1>3, <2>1 DEF Verdicts
    <2>3. Settled(v)
      BY <1>3, <2>1, <2>2 DEF Settled
    <2>4. QED
      BY <2>3, StageFacts DEF Stages
  <1>8. Queue!TakeUp(c)
    BY <1>1, <1>2, <1>4, <1>6, <1>7 DEF Queue!TakeUp, Queue!Numbers, Stages, Ops
  <1>9. QED
    BY <1>1, <1>8 DEF QueueStep, Queue!QueueNext, Queue!Numbers, Ops

\* The handler writes at most once, and only for an operation that was taken up.
LEMMA HandleHappens ==
    ASSUME SyncInv, NEW c \in Ops, rec[c] # "NONE", Handle(c)
    PROVE  Queue!Happen(c) \/ applied' = applied
  <1>1. CASE Writes(c)
    <2>1. applied[c] = 0
      BY <1>1 DEF Writes
    <2>2. applied' = [applied EXCEPT ![c] = 1]
      BY <1>1, <2>1 DEF Handle, SyncInv, TypeOK
    <2>3. Stage(c) \in {"taken", "decided", "released"}
      BY StageFacts
    <2>4. QED
      BY <2>1, <2>2, <2>3 DEF Queue!Happen, Stages
  <1>2. CASE ~Writes(c)
    BY <1>2 DEF Handle, SyncInv, TypeOK
  <1>3. QED
    BY <1>1, <1>2

\* The handler's own transaction, before the verdict.
LEMMA ApplyHappens ==
    ASSUME SyncInv, NEW w \in Workers, Apply(w)
    PROVE  QueueStep
  <1>0. PICK c \in Ops : c = Current(w)
    BY WorkedOn DEF Busy, Apply
  <1>1. c \in Ops /\ rec[c] # "NONE"
    BY <1>0 DEF Apply, SyncInv, RequestInv
  <1>2. Handle(c) /\ outbox' = outbox /\ rec' = rec
    BY <1>0 DEF Apply
  <1>3. Stages' = Stages
    BY <1>2 DEF Stages, Stage
  <1>4. CASE Queue!Happen(c)
    <2>1. Queue!Happen(c) /\ [u \in Ops |-> Stage(u)]' = [u \in Ops |-> Stage(u)]
      BY <1>3, <1>4 DEF Stages
    <2>2. QED
      BY <1>1, <2>1 DEF QueueStep, Queue!QueueNext, Queue!Numbers, Ops
  <1>5. CASE applied' = applied
    BY <1>3, <1>5 DEF QueueStep
  <1>6. QED
    BY <1>1, <1>2, <1>4, <1>5, HandleHappens

\* A verdict decides, with the handler's work (recovery) or after it; a verdict written over
\* another one leaves the operation decided.
LEMMA VerdictDecides ==
    ASSUME SyncInv, SyncInv', NEW w \in Workers, Save(w) \/ Recover(w)
    PROVE  QueueStep
  <1>0. PICK c \in Ops : c = Current(w)
    BY WorkedOn DEF Busy, Save, Recover
  <1>1. /\ outbox' = outbox /\ rec[c] # "NONE"
        /\ \E r \in Verdicts : rec' = [rec EXCEPT ![c] = r]
        /\ Queue!Happen(c) \/ applied' = applied
    <2>1. CASE Save(w)
      BY <1>0, <2>1 DEF Save, world, SyncInv, RequestInv
    <2>2. CASE Recover(w)
      <3>1. rec[c] # "NONE" /\ Handle(c)
        BY <1>0, <2>2 DEF Recover
      <3>2. Outcome(c) \in Verdicts
        BY DEF Outcome, Verdicts
      <3>3. QED
        BY <1>0, <2>2, <3>1, <3>2, HandleHappens DEF Recover
    <2>3. QED
      BY <2>1, <2>2
  <1>2. Settled(c)' /\ \A v \in Ops : v # c => rec'[v] = rec[v]
    BY <1>0, <1>1 DEF SyncInv, TypeOK, Settled
  <1>3. Stages' = [Stages EXCEPT ![c] = Stage(c)']
    BY <1>0, <1>1, <1>2, OneOperation
  <1>4. CASE rec[c] = "RECEIVED"
    <2>1. Stage(c) = "taken" /\ outbox'[c] \notin LetGo
      BY <1>0, <1>1, <1>4, StageFacts
    <2>2. Stage(c)' = "decided"
      BY <1>0, <1>2, <2>1, StageFactsNext
    <2>3. Queue!Decide(c)
      BY <1>0, <1>1, <1>3, <2>1, <2>2 DEF Queue!Decide, Stages
    <2>4. QED
      BY <1>0, <2>3 DEF QueueStep, Queue!QueueNext, Queue!Numbers, Ops
  <1>5. CASE rec[c] # "RECEIVED"
    <2>1. Settled(c)
      BY <1>0, <1>1, <1>5 DEF SyncInv, TypeOK, Settled
    <2>2. Stage(c)' = Stage(c)
      BY <1>0, <1>1, <1>2, <2>1, SameStage
    <2>3. Stages' = Stages
      BY <1>3, <2>2 DEF Stages
    <2>4. CASE Queue!Happen(c)
      <3>1. Queue!Happen(c) /\ [u \in Ops |-> Stage(u)]' = [u \in Ops |-> Stage(u)]
        BY <2>3, <2>4 DEF Stages
      <3>2. QED
        BY <1>0, <3>1 DEF QueueStep, Queue!QueueNext, Queue!Numbers, Ops
    <2>5. CASE applied' = applied
      BY <2>3, <2>5 DEF QueueStep
    <2>6. QED
      BY <1>1, <2>4, <2>5
  <1>6. QED
    BY <1>4, <1>5

\* Every step of the device, the connection, the server and the office is a step of the
\* abstract queue, or one it does not see.
LEMMA EveryStepQueues ==
    ASSUME SyncInv, SentInv, SyncInv', [Next]_vars
    PROVE  QueueStep
  <1>1. CASE SyncStart \/ NothingToSend \/ PushFails \/ Abandon
             \/ \E w \in Workers : ClaimAndSend(w) \/ ServerError(w)
    <2>1. rec' = rec /\ applied' = applied
      BY <1>1 DEF SyncStart, NothingToSend, PushFails, Abandon, ClaimAndSend, ServerError, server, world
    <2>2. QED
      BY <1>1, <2>1, DeviceKeepsRows, UnseenStep
  <1>2. ASSUME outbox' = outbox, rec' = rec, applied' = applied
        PROVE  QueueStep
    BY <1>2, UnseenStep DEF RowsKept
  <1>3. ASSUME NEW w \in Workers, Serve(w) PROVE QueueStep
    <2>1. CASE Replay(w) \/ HandlerRaises(w) \/ Unheard(w)
      BY <1>2, <2>1 DEF Replay, HandlerRaises, Unheard, world
    <2>2. QED
      BY <1>3, <2>1, ReceiveTakesUp, ApplyHappens, VerdictDecides DEF Serve
  <1>4. ASSUME NEW w \in Workers, WorkerDies(w) PROVE QueueStep
    BY <1>2, <1>4 DEF WorkerDies, world
  <1>5. ASSUME NEW u \in Ops, OfficeActs(u) PROVE QueueStep
    BY <1>2, <1>5 DEF OfficeActs
  <1>6. CASE UNCHANGED vars
    BY <1>2, <1>6 DEF vars
  <1>7. CASE Device
    BY <1>1, <1>7, SettleReleases DEF Device, TimesOut
  <1>8. CASE Fault
    BY <1>1, <1>4, <1>8 DEF Fault, Disconnects
  <1>9. QED
    BY <1>3, <1>5, <1>6, <1>7, <1>8, CaptureEnters DEF Next

\* FR-SYN-004, BR-013, BR-014: for any number of operations, batches and requests, and
\* whatever is lost, killed, resent or raced, the push protocol implements the abstract
\* queue: capture order, at most one effect, and no way back.
THEOREM OfflineQueueImplemented == Spec => ImplementsOfflineQueue
  <1>1. Init => Queue!QueueInit
    <2> SUFFICES ASSUME Init PROVE Queue!QueueInit
      OBVIOUS
    <2>1. \A u \in Ops : Stage(u) = "none"
      BY DEF Init, Stage, Verdicts
    <2>2. QED
      BY <2>1 DEF Init, Queue!QueueInit, Queue!Numbers, Ops
  <1>2. QueueInvariant /\ QueueInvariant' /\ [Next]_vars => [Queue!QueueNext]_Queue!queue
    BY EveryStepQueues DEF QueueInvariant, QueueStep, Queue!queue, Stages
  <1>3. QED
    BY <1>1, <1>2, SentHolds, PTL DEF Spec, ImplementsOfflineQueue, Queue!QueueSpec
=============================================================================
