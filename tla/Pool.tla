-------------------------------- MODULE Pool --------------------------------
(***************************************************************************)
(* One mempool of core/engine.go, TxPool or TaskPool, with the three       *)
(* indexes it keeps beside its slice.  The two types are the same code;    *)
(* TxPool has Drain, TaskPool has DrainHighestValue, and this module has   *)
(* both.                                                                   *)
(*                                                                         *)
(* Every method holds p.mu from its first line to its return.  A method    *)
(* without a loop that changes the pool is one step; the loop of Requeue   *)
(* is one step for each transaction, with the lock held in between         *)
(* (returning is the rest of its slice).  A call that returns an error     *)
(* leaves the pool as it was.                                              *)
(***************************************************************************)
EXTENDS PoolOps

CONSTANTS
    Batches,     \* the slices Requeue may be called with
    DrainLimits  \* the limits the drains may be called with

ASSUME BatchesAreSlices == Batches \subseteq Seq(Txs)
ASSUME DrainLimitsAssumption == DrainLimits \subseteq Nat

VARIABLES
    pending,        \* p.pending
    seen,           \* p.seen: the hashes in pending
    bySenderNonce,  \* p.bySenderNonce: slot -> hash
    senderCounts,   \* p.senderCounts: sender -> number pending
    returning

vars == <<pending, seen, bySenderNonce, senderCounts, returning>>

Unlocked == returning = <<>>

\* indexOfHashLocked; 0 where the code has -1.
indexOfHash(h) ==
    IF h \in Elements(pending) THEN CHOOSE i \in DOMAIN pending : pending[i] = h ELSE 0

\* The slot of t is taken: its index entry names a pending transaction.
Taken(t) == Slot(t) \in DOMAIN bySenderNonce /\ indexOfHash(bySenderNonce[Slot(t)]) > 0

Existing(t) == pending[indexOfHash(bySenderNonce[Slot(t)])]

PutSlot(t) == [k \in DOMAIN bySenderNonce \cup {Slot(t)} |->
                    IF k = Slot(t) THEN t ELSE bySenderNonce[k]]

\* Mutant: the replaced transaction stays in seen.
ReplaceKeepsSeen(t) ==
    /\ pending' = [pending EXCEPT ![indexOfHash(bySenderNonce[Slot(t)])] = t]
    /\ seen' = seen \cup {t}
    /\ bySenderNonce' = PutSlot(t)
    /\ UNCHANGED senderCounts

\* The replacement branch of Add and of Requeue.
Replace(t) ==
    /\ pending' = [pending EXCEPT ![indexOfHash(bySenderNonce[Slot(t)])] = t]
    /\ seen' = (seen \ {bySenderNonce[Slot(t)]}) \cup {t}
    /\ bySenderNonce' = PutSlot(t)
    /\ UNCHANGED senderCounts

\* The last lines of Add and of the loop of Requeue.
Enqueue(t) ==
    /\ pending' = Append(pending, t)
    /\ seen' = seen \cup {t}
    /\ bySenderNonce' = PutSlot(t)
    /\ senderCounts' = [senderCounts EXCEPT ![t.from] = @ + 1]

PoolFull == Limit > 0 /\ Len(pending) >= Limit

SenderQueueFull(s) == SenderLimit > 0 /\ senderCounts[s] >= SenderLimit

\* rebuildIndicesLocked, for the slice q; a later entry for a slot wins.
rebuildIndices(q) ==
    /\ seen' = Elements(q)
    /\ bySenderNonce' = [k \in {Slot(t) : t \in Elements(q)} |->
            q[CHOOSE i \in DOMAIN q : Slot(q[i]) = k
                /\ \A j \in DOMAIN q : Slot(q[j]) = k => j <= i]]
    /\ senderCounts' = [s \in Senders |-> Cardinality(FromSender(q, s))]

---------------------------------------------------------------------------
\* Add.  A known hash, an underpriced replacement, a full pool and a full
\* sender queue return without a change.
Add(t) ==
    /\ Unlocked
    /\ t \notin seen
    /\ \/ Taken(t) /\ shouldReplace(Existing(t).value, t.value) /\ Replace(t)
       \/ ~Taken(t) /\ ~PoolFull /\ ~SenderQueueFull(t.from) /\ Enqueue(t)
    /\ UNCHANGED returning

Drain(limit) ==
    /\ Unlocked
    /\ LET rest == SubSeq(pending, DrainSize(pending, limit) + 1, Len(pending))
       IN  pending' = rest /\ rebuildIndices(rest)
    /\ UNCHANGED returning

\* Mutant: the drain ignores nonces and takes whatever is worth most.
DrainIgnoresNonces(limit) ==
    /\ Unlocked
    /\ pending # <<>>
    /\ \E S \in SUBSET DOMAIN pending :
        /\ Cardinality(S) = DrainSize(pending, limit)
        /\ \A i \in S, j \in DOMAIN pending \ S : Dearer(pending[i], pending[j])
        /\ \E rest \in Picked(pending, DOMAIN pending \ S) :
            pending' = rest /\ rebuildIndices(rest)
    /\ UNCHANGED returning

DrainHighestValue(limit) ==
    /\ Unlocked
    /\ pending # <<>>
    /\ LET selected == Elements(HighestValue(pending, limit))
       IN  \E rest \in Picked(pending, {i \in DOMAIN pending : pending[i] \notin selected}) :
            pending' = rest /\ rebuildIndices(rest)
    /\ UNCHANGED returning

RemoveSenderFromNonce(s, n) ==
    /\ Unlocked
    /\ KeptPositions(pending, s, n) # DOMAIN pending
    /\ \E rest \in Picked(pending, KeptPositions(pending, s, n)) :
        pending' = rest /\ rebuildIndices(rest)
    /\ UNCHANGED returning

Requeue(batch) ==
    /\ Unlocked
    /\ returning' = batch
    /\ UNCHANGED <<pending, seen, bySenderNonce, senderCounts>>

\* Mutant: a returned transaction is appended beside the one in its slot.
RequeueOneIgnoresSlot ==
    /\ ~Unlocked
    /\ LET t == Head(returning) IN
        \/ t \in seen /\ UNCHANGED <<pending, seen, bySenderNonce, senderCounts>>
        \/ t \notin seen /\ Enqueue(t)
    /\ returning' = Tail(returning)

\* One turn of the loop of Requeue: continue, or break at a full pool.
RequeueOne ==
    /\ ~Unlocked
    /\ LET t == Head(returning) IN
        \/ /\ \/ t \in seen
              \/ Taken(t) /\ ~shouldReplace(Existing(t).value, t.value)
              \/ ~Taken(t) /\ ~PoolFull /\ SenderQueueFull(t.from)
           /\ returning' = Tail(returning)
           /\ UNCHANGED <<pending, seen, bySenderNonce, senderCounts>>
        \/ /\ t \notin seen /\ Taken(t) /\ shouldReplace(Existing(t).value, t.value)
           /\ Replace(t)
           /\ returning' = Tail(returning)
        \/ /\ t \notin seen /\ ~Taken(t) /\ PoolFull
           /\ returning' = <<>>
           /\ UNCHANGED <<pending, seen, bySenderNonce, senderCounts>>
        \/ /\ t \notin seen /\ ~Taken(t) /\ ~PoolFull /\ ~SenderQueueFull(t.from)
           /\ Enqueue(t)
           /\ returning' = Tail(returning)

---------------------------------------------------------------------------
Init ==
    /\ pending = <<>>
    /\ seen = {}
    /\ bySenderNonce = [k \in {} |-> 0]
    /\ senderCounts = [s \in Senders |-> 0]
    /\ returning = <<>>

Next ==
    \/ \E t \in Txs : Add(t)
    \/ \E limit \in DrainLimits : Drain(limit)
    \/ \E limit \in DrainLimits : DrainHighestValue(limit)
    \/ \E t \in Txs : RemoveSenderFromNonce(t.from, t.nonce)
    \/ \E batch \in Batches : Requeue(batch)
    \/ RequeueOne

Spec == Init /\ [][Next]_vars

---------------------------------------------------------------------------
(***************************************************************************)
(* Properties.                                                             *)
(***************************************************************************)

\* The shape of the pool.
TypeOK ==
    /\ pending \in Seq(Txs)
    /\ seen \subseteq Txs
    /\ DOMAIN bySenderNonce \subseteq Senders \X Nat
    /\ \A k \in DOMAIN bySenderNonce : bySenderNonce[k] \in Txs
    /\ senderCounts \in [Senders -> Nat]
    /\ returning \in Seq(Txs)

(***************************************************************************)
(* The slice holds one transaction per sender and nonce, and the three     *)
(* indexes say of it exactly what it holds, also in the middle of a        *)
(* Requeue and after a replacement, which updates two of them by hand.     *)
(* A stale hash in seen would make Add swallow a transaction; a stale slot *)
(* or count would refuse or admit one wrongly.  No mix of submissions,     *)
(* replacements and requeues exceeds the pool's limit or a sender's.       *)
(***************************************************************************)
IndexesMatchPending ==
    /\ TypeOK
    /\ \A i, j \in DOMAIN pending : Slot(pending[i]) = Slot(pending[j]) => i = j
    /\ seen = Elements(pending)
    /\ DOMAIN bySenderNonce = {Slot(t) : t \in Elements(pending)}
    /\ \A t \in Elements(pending) : bySenderNonce[Slot(t)] = t
    /\ \A s \in Senders : senderCounts[s] = Cardinality(FromSender(pending, s))
    /\ Limit > 0 => Len(pending) <= Limit
    /\ SenderLimit > 0 => \A s \in Senders : senderCounts[s] <= SenderLimit

(***************************************************************************)
(* DrainHighestValue never takes a task of a sender while it leaves an     *)
(* earlier nonce of that sender behind, and leaves no head of a sender it  *)
(* took nothing from that is worth more than something it took.            *)
(***************************************************************************)
DrainKeepsSenderOrder ==
    [][ \A limit \in DrainLimits : DrainHighestValue(limit) =>
            \A t \in Elements(pending) \ Elements(pending'), u \in Elements(pending') :
                /\ t.from = u.from => t.nonce < u.nonce
                /\ ((\A v \in Elements(pending) \ Elements(pending') : v.from # u.from)
                    /\ IsHead(Elements(pending'), u)) => t.value >= u.value ]_vars

(***************************************************************************)
(* Seen from outside the pool is PendingQueue: what Add, the drains,       *)
(* RemoveSenderFromNonce and Requeue decide from the indexes is what they  *)
(* would decide from the slice.                                            *)
(***************************************************************************)
Queue == INSTANCE PendingQueue WITH queue <- pending

ImplementsPendingQueue == Queue!QueueSpec
=============================================================================
