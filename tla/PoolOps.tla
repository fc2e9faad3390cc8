------------------------------ MODULE PoolOps ------------------------------
(***************************************************************************)
(* The operations of TxPool and TaskPool (core/engine.go) on the one thing *)
(* a caller sees of a pool, the slice of pending transactions.  Both pools *)
(* are the same code over two element types.                               *)
(*                                                                         *)
(* A transaction is its content, and so is its hash: two transactions are  *)
(* the same exactly if their hashes are.  rank stands for the timestamp    *)
(* and then the hash, the tie-breakers between equal nonces or values.     *)
(***************************************************************************)
EXTENDS Integers, Sequences, FiniteSets

CONSTANTS
    Senders,
    Txs,         \* the transactions that may be submitted
    Limit,       \* p.limit, 0 for none
    SenderLimit  \* p.senderLimit, 0 for none

Tx == [from : Senders, nonce : Nat, value : Nat, rank : Nat, task : BOOLEAN]

ASSUME TxsAssumption ==
    /\ Txs \subseteq Tx
    /\ \A t, u \in Txs : t.rank = u.rank => t = u
ASSUME LimitsAssumption == Limit \in Nat /\ SenderLimit \in Nat

\* senderNonceKey: the place a transaction takes in its sender's queue.
Slot(t) == <<t.from, t.nonce>>

Elements(q) == {q[i] : i \in DOMAIN q}
FromSender(q, s) == {i \in DOMAIN q : q[i].from = s}

DefaultReplacementBumpBPS == 11000
BasisPoints == 10000

\* The value a replacement has to reach, rounded down.
shouldReplace(current, next) ==
    next >= (current * DefaultReplacementBumpBPS) \div BasisPoints

Full(q) == Limit > 0 /\ Len(q) >= Limit
SenderFull(q, s) == SenderLimit > 0 /\ Cardinality(FromSender(q, s)) >= SenderLimit

Occupied(q, t) == \E u \in Elements(q) : Slot(u) = Slot(t)

\* Add takes the place of the pending transaction with the same slot ...
Replaces(q, t) ==
    /\ t \notin Elements(q)
    /\ \E u \in Elements(q) : Slot(u) = Slot(t) /\ shouldReplace(u.value, t.value)

Replaced(q, t) == [i \in DOMAIN q |-> IF Slot(q[i]) = Slot(t) THEN t ELSE q[i]]

\* ... or goes to the end of the slice when neither limit is reached.
Enters(q, t) ==
    /\ ~Occupied(q, t)
    /\ ~Full(q)
    /\ ~SenderFull(q, t.from)

\* Add returns nil: t is in the pool afterwards.
Accepts(q, t) == t \in Elements(q) \/ Replaces(q, t) \/ Enters(q, t)

Added(q, t) ==
    IF Replaces(q, t) THEN Replaced(q, t)
    ELSE IF Enters(q, t) THEN Append(q, t)
    ELSE q

\* Requeue's loop ends at the first transaction that meets a full pool.
StopsRequeue(q, t) == ~Occupied(q, t) /\ Full(q)

Requeued(q, batch) ==
    LET step[i \in 0 .. Len(batch)] ==
            IF i = 0 THEN [queue |-> q, stopped |-> FALSE]
            ELSE LET before == step[i - 1] IN
                IF before.stopped \/ StopsRequeue(before.queue, batch[i])
                THEN [before EXCEPT !.stopped = TRUE]
                ELSE [before EXCEPT !.queue = Added(@, batch[i])]
    IN  step[Len(batch)].queue

\* The elements of q that are in S, in their order.
Only(q, S) ==
    LET kept[i \in 0 .. Len(q)] ==
            IF i = 0 THEN <<>>
            ELSE IF q[i] \in S THEN Append(kept[i - 1], q[i]) ELSE kept[i - 1]
    IN  kept[Len(q)]

\* The elements of q at the positions S, in their order: one sequence.
Picked(q, S) ==
    {[k \in 1 .. Cardinality(S) |-> q[f[k]]] :
        f \in {g \in [1 .. Cardinality(S) -> S] :
                \A j, k \in 1 .. Cardinality(S) : j < k => g[j] < g[k]}}

\* RemoveSenderFromNonce: the positions it leaves in the pool.
KeptPositions(q, s, n) == {i \in DOMAIN q : ~(q[i].from = s /\ q[i].nonce >= n)}

\* How many transactions Drain and DrainHighestValue take.
DrainSize(q, limit) == IF limit <= 0 \/ limit > Len(q) THEN Len(q) ELSE limit

\* The head of a sender's queue: its lowest nonce.
IsHead(S, t) == \A u \in S : u.from = t.from => t.nonce <= u.nonce

\* DrainHighestValue prefers the dearer head, then the older one.
Dearer(t, u) == t.value > u.value \/ (t.value = u.value /\ t.rank < u.rank)

BestHead(S) ==
    CHOOSE t \in S : IsHead(S, t) /\ \A u \in S \ {t} : IsHead(S, u) => Dearer(t, u)

\* The heads DrainHighestValue takes, best first, until limit are taken.
HighestValue(q, limit) ==
    LET taken[k \in 0 .. DrainSize(q, limit)] ==
            IF k = 0 THEN <<>>
            ELSE Append(taken[k - 1],
                        BestHead(Elements(q) \ Elements(taken[k - 1])))
    IN  taken[DrainSize(q, limit)]
=============================================================================
