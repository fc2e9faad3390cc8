---------------------------- MODULE PendingQueue ----------------------------
(***************************************************************************)
(* What a pool promises to the engine: a queue of transactions and nothing *)
(* else.  Every decision is made by looking at the queue itself.  The      *)
(* engine's module is built on the same operators of PoolOps.              *)
(***************************************************************************)
EXTENDS PoolOps

CONSTANT Batches  \* the slices Requeue may be called with

VARIABLES
    queue,
    returning  \* what a Requeue that holds the lock still has to look at

queueVars == <<queue, returning>>

QueueInit == queue = <<>> /\ returning = <<>>

Submitted(t) ==
    /\ returning = <<>>
    /\ queue' = Added(queue, t)
    /\ UNCHANGED returning

FirstTaken(limit) ==
    /\ returning = <<>>
    /\ queue' = SubSeq(queue, DrainSize(queue, limit) + 1, Len(queue))
    /\ UNCHANGED returning

TakenAway(S) ==
    /\ returning = <<>>
    /\ queue' \in Picked(queue, S)
    /\ UNCHANGED returning

ReturnStarted(batch) ==
    /\ returning = <<>>
    /\ returning' = batch
    /\ UNCHANGED queue

ReturnedOne ==
    /\ returning # <<>>
    /\ queue' = Added(queue, Head(returning))
    /\ returning' = IF StopsRequeue(queue, Head(returning))
                    THEN <<>> ELSE Tail(returning)

QueueNext ==
    \/ \E t \in Txs : Submitted(t)
    \/ \E limit \in 0 .. Len(queue) : FirstTaken(limit)
    \/ \E S \in SUBSET DOMAIN queue : TakenAway(S)
    \/ \E batch \in Batches : ReturnStarted(batch)
    \/ ReturnedOne

QueueSpec == QueueInit /\ [][QueueNext]_queueVars
=============================================================================
