----------------------------- MODULE OfflineQueue -----------------------------
(****************************************************************************)
(* What offline capture promises about the operations of one device, with   *)
(* no batch, request, crash or resend in sight (FR-SYN-004, BR-013, BR-014):*)
(* each goes one way through its stages, the server takes one up only when  *)
(* it has decided all the earlier ones, what it causes happens at most once *)
(* and never before it was taken up, and the device gives up its copy only  *)
(* of what is decided. SyncPush implements it.                              *)
(****************************************************************************)
EXTENDS Naturals

CONSTANT N

VARIABLES stage,   \* how far each operation has come
          effect   \* how often what it asks for was done

queue == <<stage, effect>>

Numbers == 1..N

QueueInit ==
    /\ stage = [u \in Numbers |-> "none"]
    /\ effect = [u \in Numbers |-> 0]

\* The user's work is captured under the next number.
Enter(u) ==
    /\ stage[u] = "none"
    /\ \A v \in Numbers : v < u => stage[v] # "none"
    /\ stage' = [stage EXCEPT ![u] = "held"]
    /\ UNCHANGED effect

\* The server takes it up: nothing captured earlier is undecided.
TakeUp(u) ==
    /\ stage[u] = "held"
    /\ \A v \in Numbers : v < u => stage[v] \in {"decided", "released"}
    /\ stage' = [stage EXCEPT ![u] = "taken"]
    /\ UNCHANGED effect

\* What the operation asks for is done, once.
Happen(u) ==
    /\ stage[u] \in {"taken", "decided", "released"}
    /\ effect[u] = 0
    /\ effect' = [effect EXCEPT ![u] = 1]

\* The server decides, and may do it in the same transaction.
Decide(u) ==
    /\ stage[u] = "taken"
    /\ stage' = [stage EXCEPT ![u] = "decided"]
    /\ Happen(u) \/ UNCHANGED effect

\* The device learns what was decided, of several operations at once, and lets go.
Release(some) ==
    /\ \A u \in some : stage[u] = "decided"
    /\ stage' = [u \in Numbers |-> IF u \in some THEN "released" ELSE stage[u]]
    /\ UNCHANGED effect

QueueNext ==
    \/ \E u \in Numbers : Enter(u) \/ TakeUp(u) \/ Decide(u) \/ (Happen(u) /\ UNCHANGED stage)
    \/ \E some \in SUBSET Numbers : Release(some)

QueueSpec == QueueInit /\ [][QueueNext]_queue
=============================================================================
