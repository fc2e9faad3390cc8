----------------------------- MODULE PoolProofs -----------------------------
(***************************************************************************)
(* Proofs about Pool: the three indexes of TxPool and TaskPool always say  *)
(* what the slice holds, and so a pool behaves as the queue PendingQueue,  *)
(* for any transactions, any limits and any batches.  IndexesMatchPending  *)
(* is inductive as it stands.                                              *)
(***************************************************************************)
EXTENDS Pool, FiniteSetTheorems, WellFoundedInduction, TLAPS

\* The parts of IndexesMatchPending that speak of the slice alone.
OneSlotEach(q) == \A i, j \in DOMAIN q : Slot(q[i]) = Slot(q[j]) => i = j

WithinLimits(q) ==
    /\ Limit > 0 => Len(q) <= Limit
    /\ SenderLimit > 0 => \A s \in Senders : Cardinality(FromSender(q, s)) <= SenderLimit

---------------------------------------------------------------------------
\* What a transaction is made of.
LEMMA TxFacts ==
    ASSUME NEW t \in Txs
    PROVE  /\ t.from \in Senders /\ t.nonce \in Nat /\ t.value \in Nat /\ t.rank \in Nat
           /\ Slot(t) \in Senders \X Nat
    BY TxsAssumption DEF Tx, Slot

\* The first n positions.
LEMMA IntervalSize ==
    ASSUME NEW n \in Nat
    PROVE  IsFiniteSet(1 .. n) /\ Cardinality(1 .. n) = n
<1>1. IsFiniteSet(1 .. n) /\ Cardinality(1 .. n) = IF 1 > n THEN 0 ELSE n - 1 + 1
    BY FS_Interval
<1> QED
    BY <1>1

\* The positions of a sender are finitely many.
LEMMA SenderPositions ==
    ASSUME NEW q \in Seq(Txs), NEW s
    PROVE  /\ IsFiniteSet(FromSender(q, s)) /\ Cardinality(FromSender(q, s)) \in Nat
           /\ FromSender(q, s) \subseteq 1 .. Len(q)
<1>1. Len(q) \in Nat /\ DOMAIN q = 1 .. Len(q)
    OBVIOUS
<1>2. FromSender(q, s) \in SUBSET (1 .. Len(q))
    BY <1>1 DEF FromSender
<1>3. IsFiniteSet(1 .. Len(q))
    BY <1>1, FS_Interval
<1> QED
    BY <1>2, <1>3, FS_Subset, FS_CardinalityType

\* The invariant, with what follows from the rest left out.
Indexed ==
    /\ pending \in Seq(Txs) /\ returning \in Seq(Txs)
    /\ OneSlotEach(pending) /\ WithinLimits(pending)
    /\ seen = Elements(pending)
    /\ DOMAIN bySenderNonce = {Slot(t) : t \in Elements(pending)}
    /\ \A t \in Elements(pending) : bySenderNonce[Slot(t)] = t
    /\ senderCounts \in [Senders -> Nat]
    /\ \A s \in Senders : senderCounts[s] = Cardinality(FromSender(pending, s))

LEMMA IndexFacts == IndexesMatchPending <=> Indexed
<1>1. IndexesMatchPending => Indexed
    BY DEF Indexed, IndexesMatchPending, TypeOK, OneSlotEach, WithinLimits
<1>2. ASSUME Indexed PROVE IndexesMatchPending
    <2>1. Elements(pending) \subseteq Txs
        BY <1>2 DEF Indexed, Elements
    <2>2. DOMAIN bySenderNonce \subseteq Senders \X Nat
        BY <1>2, <2>1, TxFacts DEF Indexed
    <2>3. \A k \in DOMAIN bySenderNonce : bySenderNonce[k] \in Txs
        BY <1>2, <2>1 DEF Indexed
    <2>4. TypeOK
        BY <1>2, <2>1, <2>2, <2>3 DEF Indexed, TypeOK
    <2> QED
        BY <1>2, <2>4 DEF Indexed, IndexesMatchPending, OneSlotEach, WithinLimits
<1> QED
    BY <1>1, <1>2

---------------------------------------------------------------------------
(***************************************************************************)
(* What is left of a slice when some positions are taken out.              *)
(***************************************************************************)

\* r has elements of q at different positions of q: it has no more of
\* anything than q has.
LEMMA SelectedSlice ==
    ASSUME NEW q \in Seq(Txs), NEW r \in Seq(Txs), NEW f \in [DOMAIN r -> DOMAIN q],
           \A j, k \in DOMAIN r : f[j] = f[k] => j = k,
           \A k \in DOMAIN r : r[k] = q[f[k]],
           OneSlotEach(q), WithinLimits(q)
    PROVE  OneSlotEach(r) /\ WithinLimits(r)
<1>1. OneSlotEach(r)
    BY DEF OneSlotEach
<1>2. Len(q) \in Nat /\ Len(r) \in Nat /\ DOMAIN q = 1 .. Len(q) /\ DOMAIN r = 1 .. Len(r)
    OBVIOUS
<1>3. Len(r) <= Len(q)
    <2>1. f \in Injection(1 .. Len(r), 1 .. Len(q))
        BY <1>2 DEF Injection, IsInjective
    <2>2. IsFiniteSet(1 .. Len(q)) /\ Cardinality(1 .. Len(q)) = Len(q)
          /\ Cardinality(1 .. Len(r)) = Len(r)
        BY <1>2, IntervalSize
    <2>3. Cardinality(1 .. Len(r)) <= Cardinality(1 .. Len(q))
        BY <2>1, <2>2, FS_Injection
    <2> QED
        BY <2>2, <2>3
<1>4. ASSUME NEW s \in Senders
      PROVE  Cardinality(FromSender(r, s)) <= Cardinality(FromSender(q, s))
    <2> DEFINE g == [k \in FromSender(r, s) |-> f[k]]
    <2>1. g \in Injection(FromSender(r, s), FromSender(q, s))
        <3>1. g \in [FromSender(r, s) -> FromSender(q, s)]
            BY DEF FromSender
        <3>2. \A j, k \in FromSender(r, s) : g[j] = g[k] => j = k
            BY DEF FromSender
        <3> HIDE DEF g
        <3> QED
            BY <3>1, <3>2 DEF Injection, IsInjective
    <2> HIDE DEF g
    <2> QED
        BY <2>1, SenderPositions, FS_Injection
<1>5. WithinLimits(r)
    <2>1. \A s \in Senders : /\ Cardinality(FromSender(r, s)) \in Nat
                             /\ Cardinality(FromSender(q, s)) \in Nat
        BY SenderPositions
    <2>2. ASSUME SenderLimit > 0, NEW s \in Senders
          PROVE  Cardinality(FromSender(r, s)) <= SenderLimit
        <3>1. Cardinality(FromSender(q, s)) <= SenderLimit
            BY <2>2 DEF WithinLimits
        <3> QED
            BY <1>4, <2>1, <3>1, LimitsAssumption
    <2>3. Limit > 0 => Len(r) <= Limit
        BY <1>2, <1>3, LimitsAssumption DEF WithinLimits
    <2> QED
        BY <2>2, <2>3 DEF WithinLimits
<1> QED
    BY <1>1, <1>5

\* Picked keeps the chosen positions, all of them, in their order.
LEMMA PickedSlice ==
    ASSUME NEW q \in Seq(Txs), NEW S \in SUBSET DOMAIN q, NEW r \in Picked(q, S)
    PROVE  /\ r \in Seq(Txs) /\ Elements(r) = {q[i] : i \in S}
           /\ OneSlotEach(q) /\ WithinLimits(q) => OneSlotEach(r) /\ WithinLimits(r)
<1>1. DOMAIN q = 1 .. Len(q) /\ Len(q) \in Nat
    OBVIOUS
<1>2. IsFiniteSet(S) /\ Cardinality(S) \in Nat
    <2>1. S \in SUBSET (1 .. Len(q)) /\ IsFiniteSet(1 .. Len(q))
        BY <1>1, IntervalSize
    <2> QED
        BY <2>1, FS_Subset, FS_CardinalityType
<1>3. PICK n \in Nat : n = Cardinality(S)
    BY <1>2
<1>4. PICK f \in [1 .. n -> S] : /\ \A j, k \in 1 .. n : j < k => f[j] < f[k]
                                 /\ r = [k \in 1 .. n |-> q[f[k]]]
    BY <1>3 DEF Picked
<1>5. \A j, k \in 1 .. n : f[j] = f[k] => j = k
    <2>1. \A k \in 1 .. n : f[k] \in Int
        BY <1>1, <1>4
    <2> QED
        BY <1>3, <1>4, <2>1
<1>6. r \in Seq(Txs) /\ DOMAIN r = 1 .. n /\ \A k \in 1 .. n : r[k] = q[f[k]]
    <2>1. \A k \in 1 .. n : q[f[k]] \in Txs
        BY <1>4
    <2> QED
        BY <1>3, <1>4, <2>1
<1>7. \A i \in S : \E k \in 1 .. n : f[k] = i
    <2>1. f \in Injection(1 .. n, S)
        BY <1>4, <1>5 DEF Injection, IsInjective
    <2>2. Cardinality(1 .. n) = n
        BY <1>3, IntervalSize
    <2>3. f \in Surjection(1 .. n, S)
        BY <1>2, <1>3, <2>1, <2>2, FS_Injection
    <2> QED
        BY <2>3 DEF Surjection
<1>8. Elements(r) = {q[i] : i \in S}
    BY <1>4, <1>6, <1>7 DEF Elements
<1>9. f \in [DOMAIN r -> DOMAIN q]
    BY <1>4, <1>6
<1> QED
    BY <1>5, <1>6, <1>8, <1>9, SelectedSlice

\* Drain leaves the end of the slice.
LEMMA DrainedSlice ==
    ASSUME NEW q \in Seq(Txs), NEW d \in 0 .. Len(q), OneSlotEach(q), WithinLimits(q)
    PROVE  /\ SubSeq(q, d + 1, Len(q)) \in Seq(Txs)
           /\ OneSlotEach(SubSeq(q, d + 1, Len(q))) /\ WithinLimits(SubSeq(q, d + 1, Len(q)))
<1>1. PICK n \in Nat : n = Len(q) /\ DOMAIN q = 1 .. n
    OBVIOUS
<1>2. d \in Nat /\ d <= n /\ n - d \in Nat
    BY <1>1
<1>3. PICK r : r = SubSeq(q, d + 1, Len(q))
    OBVIOUS
<1>4. r \in Seq(Txs) /\ DOMAIN r = 1 .. n - d /\ \A k \in 1 .. n - d : r[k] = q[d + k]
    BY <1>1, <1>2, <1>3
<1> DEFINE f == [k \in 1 .. n - d |-> d + k]
<1>5. \A k \in 1 .. n - d : k \in Int /\ d + k \in 1 .. n
    BY <1>1, <1>2
<1>6. f \in [1 .. n - d -> 1 .. n]
    BY <1>5
<1>7. \A j, k \in 1 .. n - d : f[j] = f[k] => j = k
    BY <1>2, <1>5
<1>8. \A k \in 1 .. n - d : r[k] = q[f[k]]
    BY <1>4
<1> HIDE DEF f
<1>9. /\ f \in [DOMAIN r -> DOMAIN q] /\ \A j, k \in DOMAIN r : f[j] = f[k] => j = k
      /\ \A k \in DOMAIN r : r[k] = q[f[k]]
    BY <1>1, <1>4, <1>6, <1>7, <1>8
<1>10. OneSlotEach(r) /\ WithinLimits(r)
    BY <1>4, <1>9, SelectedSlice
<1> QED
    BY <1>3, <1>4, <1>10

\* rebuildIndicesLocked makes the indexes of whatever the slice is.
LEMMA RebuiltIndexes ==
    ASSUME NEW q \in Seq(Txs), OneSlotEach(q), WithinLimits(q),
           pending' = q, rebuildIndices(q), returning' \in Seq(Txs)
    PROVE  Indexed'
<1>1. \A s \in Senders : Cardinality(FromSender(q, s)) \in Nat
    BY SenderPositions
<1>2. senderCounts' \in [Senders -> Nat]
      /\ \A s \in Senders : senderCounts'[s] = Cardinality(FromSender(q, s))
    BY <1>1 DEF rebuildIndices
<1>3. seen' = Elements(q) /\ DOMAIN bySenderNonce' = {Slot(t) : t \in Elements(q)}
    BY DEF rebuildIndices
<1>4. ASSUME NEW t \in Elements(q) PROVE bySenderNonce'[Slot(t)] = t
    <2>1. PICK i \in DOMAIN q : q[i] = t
        BY DEF Elements
    <2> DEFINE P(m) == Slot(q[m]) = Slot(t) /\ \A j \in DOMAIN q : Slot(q[j]) = Slot(t) => j <= m
    <2>2. P(i)
        <3>1. \A j \in DOMAIN q : Slot(q[j]) = Slot(t) => j = i
            BY <2>1 DEF OneSlotEach
        <3>2. i <= i
            OBVIOUS
        <3> QED
            BY <2>1, <3>1, <3>2
    <2>3. PICK c : c = CHOOSE m \in DOMAIN q : P(m)
        OBVIOUS
    <2>4. c \in DOMAIN q /\ P(c)
        BY <2>2, <2>3
    <2>5. c = i
        BY <2>1, <2>4 DEF OneSlotEach
    <2>6. bySenderNonce'[Slot(t)] = q[c]
        BY <2>3 DEF rebuildIndices
    <2> QED
        BY <2>1, <2>5, <2>6
<1> QED
    BY <1>2, <1>3, <1>4 DEF Indexed

---------------------------------------------------------------------------
(***************************************************************************)
(* Add and the loop of Requeue, which update the indexes by hand.          *)
(***************************************************************************)

\* What the slot index says of t is so.
LEMMA SlotIndex ==
    ASSUME Indexed, NEW t \in Txs
    PROVE  /\ ~Occupied(pending, t) => ~Taken(t)
           /\ Occupied(pending, t) =>
                /\ Taken(t)
                /\ \E i \in DOMAIN pending :
                    /\ indexOfHash(bySenderNonce[Slot(t)]) = i
                    /\ bySenderNonce[Slot(t)] = pending[i] /\ Existing(t) = pending[i]
                    /\ Slot(pending[i]) = Slot(t) /\ pending[i] \in Elements(pending)
<1>1. CASE ~Occupied(pending, t)
    <2>1. Slot(t) \notin DOMAIN bySenderNonce
        BY <1>1 DEF Indexed, Occupied
    <2> QED
        BY <1>1, <2>1 DEF Taken
<1>2. CASE Occupied(pending, t)
    <2>1. PICK u \in Elements(pending) : Slot(u) = Slot(t)
        BY <1>2 DEF Occupied
    <2>2. PICK i \in DOMAIN pending : pending[i] = u
        BY <2>1 DEF Elements
    <2>3. bySenderNonce[Slot(t)] = u /\ Slot(t) \in DOMAIN bySenderNonce
        BY <2>1 DEF Indexed
    <2>4. PICK c : c = CHOOSE k \in DOMAIN pending : pending[k] = u
        OBVIOUS
    <2>5. c \in DOMAIN pending /\ pending[c] = u
        BY <2>2, <2>4
    <2>6. indexOfHash(u) = c
        BY <2>1, <2>4 DEF indexOfHash
    <2>7. c > 0
        BY <2>5 DEF Indexed
    <2> QED
        BY <1>2, <2>1, <2>3, <2>5, <2>6, <2>7 DEF Taken, Existing
<1> QED
    BY <1>1, <1>2

\* The replacement branch puts t where the old transaction was.
LEMMA ReplacePreserves ==
    ASSUME Indexed, NEW t \in Txs, Taken(t), Replace(t), returning' \in Seq(Txs)
    PROVE  Indexed' /\ pending' = Replaced(pending, t)
<1>1. pending \in Seq(Txs) /\ OneSlotEach(pending) /\ WithinLimits(pending)
    BY DEF Indexed
<1>2. PICK i \in DOMAIN pending :
            /\ indexOfHash(bySenderNonce[Slot(t)]) = i
            /\ bySenderNonce[Slot(t)] = pending[i]
            /\ Slot(pending[i]) = Slot(t) /\ pending[i] \in Elements(pending)
    BY SlotIndex
<1>3. pending' = [pending EXCEPT ![i] = t]
    BY <1>2 DEF Replace
<1>4. /\ pending' \in Seq(Txs) /\ DOMAIN pending' = DOMAIN pending /\ Len(pending') = Len(pending)
      /\ pending'[i] = t /\ \A j \in DOMAIN pending : j # i => pending'[j] = pending[j]
    BY <1>1, <1>3
<1>5. \A j \in DOMAIN pending : Slot(pending[j]) = Slot(t) <=> j = i
    BY <1>1, <1>2 DEF OneSlotEach
<1>6. pending' = Replaced(pending, t)
    BY <1>1, <1>3, <1>5 DEF Replaced
<1>7. \A j \in DOMAIN pending : Slot(pending'[j]) = Slot(pending[j])
    BY <1>2, <1>4
<1>8. OneSlotEach(pending')
    BY <1>1, <1>4, <1>7 DEF OneSlotEach
<1>9. \A s \in Senders : FromSender(pending', s) = FromSender(pending, s)
    <2>1. \A j \in DOMAIN pending : pending'[j].from = pending[j].from
        BY <1>7 DEF Slot
    <2> QED
        BY <1>4, <2>1 DEF FromSender
<1>10. WithinLimits(pending')
    BY <1>1, <1>4, <1>9 DEF WithinLimits
<1>11. Elements(pending') = (Elements(pending) \ {pending[i]}) \cup {t}
    <2>1. \A j \in DOMAIN pending : j # i => pending[j] # pending[i]
        BY <1>1 DEF OneSlotEach
    <2> QED
        BY <1>4, <2>1 DEF Elements
<1>12. seen' = Elements(pending')
    BY <1>2, <1>11 DEF Replace, Indexed
<1>13. DOMAIN bySenderNonce' = {Slot(u) : u \in Elements(pending')}
    <2>1. DOMAIN bySenderNonce' = DOMAIN bySenderNonce \cup {Slot(t)}
        BY DEF Replace, PutSlot
    <2>2. DOMAIN bySenderNonce = {Slot(u) : u \in Elements(pending)}
        BY DEF Indexed
    <2> QED
        BY <1>2, <1>11, <2>1, <2>2
<1>14. ASSUME NEW u \in Elements(pending') PROVE bySenderNonce'[Slot(u)] = u
    <2>1. CASE u = t
        BY <2>1 DEF Replace, PutSlot
    <2>2. CASE u # t
        <3>1. u \in Elements(pending) /\ Slot(u) # Slot(t)
            BY <1>5, <1>11, <1>14, <2>2 DEF Elements
        <3>2. Slot(u) \in DOMAIN bySenderNonce /\ bySenderNonce[Slot(u)] = u
            BY <3>1 DEF Indexed
        <3> QED
            BY <3>1, <3>2 DEF Replace, PutSlot
    <2> QED
        BY <2>1, <2>2
<1>15. senderCounts' \in [Senders -> Nat]
       /\ \A s \in Senders : senderCounts'[s] = Cardinality(FromSender(pending', s))
    BY <1>9 DEF Replace, Indexed
<1> QED
    BY <1>4, <1>6, <1>8, <1>10, <1>12, <1>13, <1>14, <1>15 DEF Indexed

\* One more transaction at the end of the slice.
LEMMA AppendedSender ==
    ASSUME NEW q \in Seq(Txs), NEW t \in Txs, NEW s \in Senders
    PROVE  Cardinality(FromSender(Append(q, t), s)) =
             Cardinality(FromSender(q, s)) + (IF s = t.from THEN 1 ELSE 0)
<1>1. PICK n \in Nat : n = Len(q) /\ DOMAIN q = 1 .. n
    OBVIOUS
<1>2. DOMAIN Append(q, t) = 1 .. n + 1 /\ Append(q, t)[n + 1] = t
      /\ \A j \in 1 .. n : Append(q, t)[j] = q[j]
    BY <1>1
<1>3. n + 1 \notin FromSender(q, s)
    BY <1>1 DEF FromSender
<1>4. CASE s = t.from
    <2>1. FromSender(Append(q, t), s) = FromSender(q, s) \cup {n + 1}
        BY <1>1, <1>2, <1>4 DEF FromSender
    <2>2. Cardinality(FromSender(q, s) \cup {n + 1}) = Cardinality(FromSender(q, s)) + 1
        BY <1>3, SenderPositions, FS_AddElement
    <2> QED
        BY <1>4, <2>1, <2>2
<1>5. CASE s # t.from
    <2>1. FromSender(Append(q, t), s) = FromSender(q, s)
        BY <1>1, <1>2, <1>5 DEF FromSender
    <2> QED
        BY <1>5, <2>1, SenderPositions
<1> QED
    BY <1>4, <1>5

LEMMA EnqueuePreserves ==
    ASSUME Indexed, NEW t \in Txs, ~Taken(t), ~PoolFull, ~SenderQueueFull(t.from),
           Enqueue(t), returning' \in Seq(Txs)
    PROVE  Indexed'
<1>1. pending \in Seq(Txs) /\ OneSlotEach(pending) /\ WithinLimits(pending) /\ t.from \in Senders
      /\ pending' = Append(pending, t) /\ senderCounts \in [Senders -> Nat]
    BY TxFacts DEF Indexed, Enqueue
<1>2. PICK n \in Nat : n = Len(pending) /\ DOMAIN pending = 1 .. n
    BY <1>1
<1>3. /\ pending' \in Seq(Txs) /\ DOMAIN pending' = 1 .. n + 1 /\ Len(pending') = n + 1
      /\ pending'[n + 1] = t /\ \A j \in 1 .. n : pending'[j] = pending[j]
    BY <1>1, <1>2
<1>4. \A j \in 1 .. n : Slot(pending[j]) # Slot(t)
    BY <1>2, SlotIndex DEF Occupied, Elements
<1>5. OneSlotEach(pending')
    <2>1. SUFFICES ASSUME NEW i \in 1 .. n + 1, NEW j \in 1 .. n + 1,
                          Slot(pending'[i]) = Slot(pending'[j])
                   PROVE  i = j
        BY <1>3 DEF OneSlotEach
    <2>2. \A k \in 1 .. n + 1 : k \in 1 .. n \/ k = n + 1
        OBVIOUS
    <2>3. CASE i \in 1 .. n /\ j \in 1 .. n
        BY <1>1, <1>2, <1>3, <2>1, <2>3 DEF OneSlotEach
    <2> QED
        BY <1>3, <1>4, <2>1, <2>2, <2>3
<1>6. \A s \in Senders : Cardinality(FromSender(pending', s)) =
            Cardinality(FromSender(pending, s)) + (IF s = t.from THEN 1 ELSE 0)
    BY <1>1, AppendedSender
<1>7. senderCounts' \in [Senders -> Nat]
      /\ \A s \in Senders : senderCounts'[s] = senderCounts[s] + (IF s = t.from THEN 1 ELSE 0)
    BY <1>1 DEF Enqueue
<1>8. \A s \in Senders : senderCounts[s] = Cardinality(FromSender(pending, s))
    BY DEF Indexed
<1>9. \A s \in Senders : senderCounts'[s] = Cardinality(FromSender(pending', s))
    BY <1>6, <1>7, <1>8
<1>10. WithinLimits(pending')
    <2>1. Limit > 0 => Len(pending') <= Limit
        BY <1>2, <1>3, LimitsAssumption DEF PoolFull
    <2>2. ASSUME SenderLimit > 0, NEW s \in Senders
          PROVE  Cardinality(FromSender(pending', s)) <= SenderLimit
        <3>1. CASE s = t.from
            BY <1>1, <1>7, <1>9, <2>2, <3>1, LimitsAssumption DEF SenderQueueFull
        <3>2. CASE s # t.from
            <4>1. Cardinality(FromSender(pending', s)) = Cardinality(FromSender(pending, s))
                BY <1>1, <1>7, <1>8, <1>9, <3>2
            <4> QED
                BY <1>1, <2>2, <4>1 DEF WithinLimits
        <3> QED
            BY <3>1, <3>2
    <2> QED
        BY <2>1, <2>2 DEF WithinLimits
<1>11. Elements(pending') = Elements(pending) \cup {t}
    <2>1. \A k \in 1 .. n + 1 : k \in 1 .. n \/ k = n + 1
        OBVIOUS
    <2>2. \A k \in 1 .. n : k \in 1 .. n + 1
        OBVIOUS
    <2>3. n + 1 \in 1 .. n + 1
        OBVIOUS
    <2> QED
        BY <1>2, <1>3, <2>1, <2>2, <2>3 DEF Elements
<1>12. seen' = Elements(pending')
    BY <1>11 DEF Enqueue, Indexed
<1>13. DOMAIN bySenderNonce' = {Slot(u) : u \in Elements(pending')}
    <2>1. DOMAIN bySenderNonce' = DOMAIN bySenderNonce \cup {Slot(t)}
        BY DEF Enqueue, PutSlot
    <2>2. DOMAIN bySenderNonce = {Slot(u) : u \in Elements(pending)}
        BY DEF Indexed
    <2> QED
        BY <1>11, <2>1, <2>2
<1>14. ASSUME NEW u \in Elements(pending') PROVE bySenderNonce'[Slot(u)] = u
    <2>1. CASE u = t
        BY <2>1 DEF Enqueue, PutSlot
    <2>2. CASE u # t
        <3>1. u \in Elements(pending) /\ Slot(u) # Slot(t)
            BY <1>2, <1>4, <1>11, <2>2 DEF Elements
        <3>2. Slot(u) \in DOMAIN bySenderNonce /\ bySenderNonce[Slot(u)] = u
            BY <3>1 DEF Indexed
        <3> QED
            BY <3>1, <3>2 DEF Enqueue, PutSlot
    <2> QED
        BY <2>1, <2>2
<1> QED
    BY <1>3, <1>5, <1>7, <1>9, <1>10, <1>12, <1>13, <1>14 DEF Indexed

---------------------------------------------------------------------------
(***************************************************************************)
(* The methods one by one: each keeps the indexes, and is a step of the    *)
(* abstract queue or leaves it alone.                                      *)
(***************************************************************************)

\* The operators of the queue are those of PoolOps.
LEMMA QueueOperators ==
    /\ \A q, t : Queue!Added(q, t) = Added(q, t)
    /\ \A q, t : Queue!StopsRequeue(q, t) <=> StopsRequeue(q, t)
    /\ \A q, d : Queue!DrainSize(q, d) = DrainSize(q, d)
    /\ \A q, S : Queue!Picked(q, S) = Picked(q, S)
<1>0. \A S : Queue!Cardinality(S) = Cardinality(S)
    <2> TAKE S
    <2> QED
        BY DEF Queue!Cardinality, Cardinality
<1>1. \A q, t : Queue!Occupied(q, t) <=> Occupied(q, t)
    BY DEF Queue!Occupied, Queue!Elements, Queue!Slot, Occupied, Elements, Slot
<1>2. \A q : Queue!Full(q) <=> Full(q)
    BY DEF Queue!Full, Full
<1>3. \A q, s : Queue!SenderFull(q, s) <=> SenderFull(q, s)
    <2>1. \A q, s : Queue!FromSender(q, s) = FromSender(q, s)
        BY DEF Queue!FromSender, FromSender
    <2> QED
        BY <1>0, <2>1 DEF Queue!SenderFull, SenderFull
<1>4. \A v, w : Queue!shouldReplace(v, w) <=> shouldReplace(v, w)
    BY DEF Queue!shouldReplace, Queue!DefaultReplacementBumpBPS, Queue!BasisPoints,
           shouldReplace, DefaultReplacementBumpBPS, BasisPoints
<1>5. \A q, t : Queue!Replaces(q, t) <=> Replaces(q, t)
    BY <1>4 DEF Queue!Replaces, Queue!Elements, Queue!Slot, Replaces, Elements, Slot
<1>6. \A q, t : Queue!Replaced(q, t) = Replaced(q, t)
    BY DEF Queue!Replaced, Queue!Slot, Replaced, Slot
<1>7. \A q, t : Queue!Enters(q, t) <=> Enters(q, t)
    BY <1>1, <1>2, <1>3 DEF Queue!Enters, Enters
<1>8. \A q, t : Queue!Added(q, t) = Added(q, t)
    BY <1>5, <1>6, <1>7 DEF Queue!Added, Added
<1>9. \A q, t : Queue!StopsRequeue(q, t) <=> StopsRequeue(q, t)
    BY <1>1, <1>2 DEF Queue!StopsRequeue, StopsRequeue
<1>10. \A q, d : Queue!DrainSize(q, d) = DrainSize(q, d)
    BY DEF Queue!DrainSize, DrainSize
<1>11. \A q, S : Queue!Picked(q, S) = Picked(q, S)
    <2> TAKE q, S
    <2> QED
        BY <1>0, Zenon DEF Queue!Picked, Picked
<1> QED
    BY <1>8, <1>9, <1>10, <1>11

\* What Add decides from the indexes is what the slice says.
LEMMA AddDecisions ==
    ASSUME Indexed, NEW t \in Txs
    PROVE  /\ t \in seen => Added(pending, t) = pending /\ ~StopsRequeue(pending, t)
           /\ (t \notin seen /\ Taken(t)) =>
                /\ ~StopsRequeue(pending, t)
                /\ Added(pending, t) = IF shouldReplace(Existing(t).value, t.value)
                                       THEN Replaced(pending, t) ELSE pending
           /\ (t \notin seen /\ ~Taken(t)) =>
                /\ StopsRequeue(pending, t) <=> PoolFull
                /\ Added(pending, t) = IF ~PoolFull /\ ~SenderQueueFull(t.from)
                                       THEN Append(pending, t) ELSE pending
<1>1. seen = Elements(pending) /\ t.from \in Senders /\ OneSlotEach(pending)
      /\ senderCounts[t.from] = Cardinality(FromSender(pending, t.from))
    BY TxFacts DEF Indexed
<1>2. (PoolFull <=> Full(pending)) /\ (SenderQueueFull(t.from) <=> SenderFull(pending, t.from))
    BY <1>1 DEF PoolFull, Full, SenderQueueFull, SenderFull
<1>3. Taken(t) <=> Occupied(pending, t)
    BY SlotIndex
<1>4. t \in seen => Occupied(pending, t)
    BY <1>1 DEF Occupied
<1>5. Occupied(pending, t) => ~StopsRequeue(pending, t) /\ ~Enters(pending, t)
    BY DEF StopsRequeue, Enters
<1>6. ~Occupied(pending, t) => /\ ~Replaces(pending, t)
                               /\ StopsRequeue(pending, t) <=> Full(pending)
                               /\ Enters(pending, t) <=> (~Full(pending)
                                                          /\ ~SenderFull(pending, t.from))
    BY DEF Occupied, Replaces, StopsRequeue, Enters
<1>7. t \in seen => ~Replaces(pending, t)
    BY <1>1 DEF Replaces
<1>8. ASSUME t \notin seen, Taken(t)
      PROVE  Replaces(pending, t) <=> shouldReplace(Existing(t).value, t.value)
    <2>1. PICK i \in DOMAIN pending : /\ Existing(t) = pending[i]
                                      /\ Slot(pending[i]) = Slot(t)
                                      /\ pending[i] \in Elements(pending)
        BY <1>3, <1>8, SlotIndex
    <2>2. \A u \in Elements(pending) : Slot(u) = Slot(t) => u = pending[i]
        BY <1>1, <2>1 DEF OneSlotEach, Elements
    <2> QED
        BY <1>1, <1>8, <2>1, <2>2 DEF Replaces
<1> QED
    BY <1>2, <1>3, <1>4, <1>5, <1>6, <1>7, <1>8 DEF Added

\* Add.
LEMMA AddStep ==
    ASSUME Indexed, NEW t \in Txs, Add(t)
    PROVE  Indexed' /\ Queue!Submitted(t)
<1>1. returning' = returning /\ returning = <<>> /\ t \notin seen
    BY DEF Add, Unlocked
<1>2. returning' \in Seq(Txs)
    BY <1>1 DEF Indexed
<1>3. CASE Taken(t) /\ shouldReplace(Existing(t).value, t.value) /\ Replace(t)
    <2>1. Indexed' /\ pending' = Replaced(pending, t)
        BY <1>2, <1>3, ReplacePreserves
    <2>2. pending' = Added(pending, t)
        BY <1>1, <1>3, <2>1, AddDecisions
    <2> QED
        BY <1>1, <2>1, <2>2, QueueOperators DEF Queue!Submitted
<1>4. CASE ~Taken(t) /\ ~PoolFull /\ ~SenderQueueFull(t.from) /\ Enqueue(t)
    <2>1. Indexed'
        BY <1>2, <1>4, EnqueuePreserves
    <2>2. pending' = Added(pending, t)
        BY <1>1, <1>4, AddDecisions DEF Enqueue
    <2> QED
        BY <1>1, <2>1, <2>2, QueueOperators DEF Queue!Submitted
<1> QED
    BY <1>3, <1>4 DEF Add

\* One turn of the loop of Requeue.
LEMMA RequeueOneStep ==
    ASSUME Indexed, RequeueOne
    PROVE  Indexed' /\ Queue!ReturnedOne
<1>1. returning # <<>> /\ returning \in Seq(Txs)
    BY DEF RequeueOne, Unlocked, Indexed
<1>2. PICK t \in Txs : t = Head(returning)
    BY <1>1
<1>3. Tail(returning) \in Seq(Txs) /\ <<>> \in Seq(Txs)
    BY <1>1
<1>4. ASSUME returning' \in Seq(Txs), UNCHANGED <<pending, seen, bySenderNonce, senderCounts>>
      PROVE  Indexed'
    BY <1>4 DEF Indexed
<1>5. SUFFICES /\ Indexed' /\ pending' = Added(pending, t)
               /\ returning' = IF StopsRequeue(pending, t) THEN <<>> ELSE Tail(returning)
    BY <1>1, <1>2, QueueOperators DEF Queue!ReturnedOne
<1>6. CASE /\ \/ t \in seen
              \/ Taken(t) /\ ~shouldReplace(Existing(t).value, t.value)
              \/ ~Taken(t) /\ ~PoolFull /\ SenderQueueFull(t.from)
           /\ returning' = Tail(returning)
           /\ UNCHANGED <<pending, seen, bySenderNonce, senderCounts>>
    <2>1. Indexed'
        BY <1>3, <1>4, <1>6
    <2>2. Added(pending, t) = pending /\ ~StopsRequeue(pending, t)
        BY <1>6, AddDecisions
    <2> QED
        BY <1>6, <2>1, <2>2
<1>7. CASE /\ t \notin seen /\ Taken(t) /\ shouldReplace(Existing(t).value, t.value)
           /\ Replace(t)
           /\ returning' = Tail(returning)
    <2>1. Indexed' /\ pending' = Replaced(pending, t)
        BY <1>3, <1>7, ReplacePreserves
    <2> QED
        BY <1>7, <2>1, AddDecisions
<1>8. CASE /\ t \notin seen /\ ~Taken(t) /\ PoolFull
           /\ returning' = <<>>
           /\ UNCHANGED <<pending, seen, bySenderNonce, senderCounts>>
    <2>1. Indexed'
        BY <1>3, <1>4, <1>8
    <2> QED
        BY <1>8, <2>1, AddDecisions
<1>9. CASE /\ t \notin seen /\ ~Taken(t) /\ ~PoolFull /\ ~SenderQueueFull(t.from)
           /\ Enqueue(t)
           /\ returning' = Tail(returning)
    <2>1. Indexed'
        BY <1>3, <1>9, EnqueuePreserves
    <2> QED
        BY <1>9, <2>1, AddDecisions DEF Enqueue
<1> QED
    BY <1>2, <1>6, <1>7, <1>8, <1>9 DEF RequeueOne

\* Drain; a limit above the length of the slice takes all of it.
LEMMA DrainStep ==
    ASSUME Indexed, NEW limit \in DrainLimits, Drain(limit)
    PROVE  Indexed' /\ \E d \in 0 .. Len(pending) : Queue!FirstTaken(d)
<1>1. pending \in Seq(Txs) /\ OneSlotEach(pending) /\ WithinLimits(pending)
      /\ Len(pending) \in Nat /\ limit \in Nat
      /\ returning = <<>> /\ returning' = returning /\ returning' \in Seq(Txs)
    BY DrainLimitsAssumption DEF Indexed, Drain, Unlocked
<1>2. DrainSize(pending, limit) \in 0 .. Len(pending)
    BY <1>1 DEF DrainSize
<1>3. PICK r : r = SubSeq(pending, DrainSize(pending, limit) + 1, Len(pending))
    OBVIOUS
<1>4. pending' = r /\ rebuildIndices(r)
    BY <1>3 DEF Drain
<1>5. r \in Seq(Txs) /\ OneSlotEach(r) /\ WithinLimits(r)
    BY <1>1, <1>2, <1>3, DrainedSlice
<1>6. Indexed'
    BY <1>1, <1>4, <1>5, RebuiltIndexes
<1>7. PICK d \in 0 .. Len(pending) : DrainSize(pending, d) = DrainSize(pending, limit)
    <2>1. CASE limit <= Len(pending)
        BY <1>1, <2>1
    <2>2. CASE limit > Len(pending)
        <3>1. 0 \in 0 .. Len(pending) /\ DrainSize(pending, 0) = DrainSize(pending, limit)
            BY <1>1, <2>2 DEF DrainSize
        <3> QED
            BY <3>1
    <2> QED
        BY <1>1, <2>1, <2>2
<1>8. Queue!FirstTaken(d)
    BY <1>1, <1>3, <1>4, <1>7, QueueOperators DEF Queue!FirstTaken
<1> QED
    BY <1>6, <1>8

\* DrainHighestValue and RemoveSenderFromNonce keep some positions.
LEMMA KeepSome ==
    ASSUME Indexed, Unlocked, returning' = returning, NEW S \in SUBSET DOMAIN pending,
           NEW r \in Picked(pending, S), pending' = r, rebuildIndices(r)
    PROVE  Indexed' /\ Queue!TakenAway(S)
<1>1. pending \in Seq(Txs) /\ OneSlotEach(pending) /\ WithinLimits(pending)
      /\ returning = <<>> /\ returning' \in Seq(Txs)
    BY DEF Indexed, Unlocked
<1>2. r \in Seq(Txs) /\ OneSlotEach(r) /\ WithinLimits(r)
    BY <1>1, PickedSlice
<1>3. Indexed'
    BY <1>1, <1>2, RebuiltIndexes
<1>4. Queue!TakenAway(S)
    BY <1>1, QueueOperators DEF Queue!TakenAway
<1> QED
    BY <1>3, <1>4

\* Every step of a pool.
LEMMA PoolStep ==
    ASSUME Indexed, [Next]_vars
    PROVE  Indexed' /\ [Queue!QueueNext]_(Queue!queueVars)
<1>1. CASE \E t \in Txs : Add(t)
    BY <1>1, AddStep DEF Queue!QueueNext
<1>2. CASE \E limit \in DrainLimits : Drain(limit)
    BY <1>2, DrainStep DEF Queue!QueueNext
<1>3. CASE \E limit \in DrainLimits : DrainHighestValue(limit)
    <2>1. PICK limit \in DrainLimits : DrainHighestValue(limit)
        BY <1>3
    <2>2. PICK S : S = {i \in DOMAIN pending :
                            pending[i] \notin Elements(HighestValue(pending, limit))}
        OBVIOUS
    <2>3. Unlocked /\ returning' = returning
          /\ \E r \in Picked(pending, S) : pending' = r /\ rebuildIndices(r)
        BY <2>1, <2>2 DEF DrainHighestValue
    <2>4. S \in SUBSET DOMAIN pending
        BY <2>2
    <2>5. Indexed' /\ Queue!TakenAway(S)
        BY <2>3, <2>4, KeepSome
    <2> QED
        BY <2>4, <2>5 DEF Queue!QueueNext
<1>4. CASE \E t \in Txs : RemoveSenderFromNonce(t.from, t.nonce)
    <2>1. PICK t \in Txs : RemoveSenderFromNonce(t.from, t.nonce)
        BY <1>4
    <2>2. PICK S : S = KeptPositions(pending, t.from, t.nonce)
        OBVIOUS
    <2>3. Unlocked /\ returning' = returning
          /\ \E r \in Picked(pending, S) : pending' = r /\ rebuildIndices(r)
        BY <2>1, <2>2 DEF RemoveSenderFromNonce
    <2>4. S \in SUBSET DOMAIN pending
        BY <2>2 DEF KeptPositions
    <2>5. Indexed' /\ Queue!TakenAway(S)
        BY <2>3, <2>4, KeepSome
    <2> QED
        BY <2>4, <2>5 DEF Queue!QueueNext
<1>5. CASE \E batch \in Batches : Requeue(batch)
    <2>1. PICK batch \in Batches : Requeue(batch)
        BY <1>5
    <2>2. Indexed' /\ Queue!ReturnStarted(batch)
        BY <2>1, BatchesAreSlices DEF Requeue, Unlocked, Indexed, Queue!ReturnStarted
    <2> QED
        BY <2>2 DEF Queue!QueueNext
<1>6. CASE RequeueOne
    BY <1>6, RequeueOneStep DEF Queue!QueueNext
<1>7. CASE UNCHANGED vars
    BY <1>7 DEF vars, Indexed, Queue!queueVars
<1> QED
    BY <1>1, <1>2, <1>3, <1>4, <1>5, <1>6, <1>7 DEF Next

\* An empty pool has empty indexes.
LEMMA PoolInit == Init => Indexed /\ Queue!QueueInit
<1>1. SUFFICES ASSUME Init PROVE Indexed /\ Queue!QueueInit
    OBVIOUS
<1>2. pending = <<>> /\ returning = <<>> /\ seen = {} /\ Elements(pending) = {}
      /\ pending \in Seq(Txs) /\ returning \in Seq(Txs) /\ Len(pending) = 0
    BY <1>1 DEF Init, Elements
<1>3. \A s \in Senders : Cardinality(FromSender(pending, s)) = 0
    <2>1. \A s \in Senders : FromSender(pending, s) = {}
        BY <1>2 DEF FromSender
    <2> QED
        BY <2>1, FS_EmptySet
<1>4. WithinLimits(pending) /\ OneSlotEach(pending)
    BY <1>2, <1>3, LimitsAssumption DEF WithinLimits, OneSlotEach
<1>5. DOMAIN bySenderNonce = {Slot(t) : t \in Elements(pending)}
    BY <1>1, <1>2 DEF Init
<1>6. senderCounts \in [Senders -> Nat] /\ \A s \in Senders : senderCounts[s] = 0
    BY <1>1 DEF Init
<1> QED
    BY <1>2, <1>3, <1>4, <1>5, <1>6 DEF Indexed, Queue!QueueInit

---------------------------------------------------------------------------
(***************************************************************************)
(* seen, bySenderNonce and senderCounts agree with the slice, which holds  *)
(* one transaction per sender and nonce and keeps both limits, through     *)
(* every sequence of Add, the drains, RemoveSenderFromNonce and Requeue.   *)
(***************************************************************************)
THEOREM IndexesAgree == Spec => []IndexesMatchPending
<1>1. Init => IndexesMatchPending
    BY PoolInit, IndexFacts
<1>2. IndexesMatchPending /\ [Next]_vars => IndexesMatchPending'
    <2>1. ASSUME IndexesMatchPending, [Next]_vars PROVE Indexed'
        BY <2>1, IndexFacts, PoolStep
    <2> QED
        BY <2>1, IndexFacts, PTL
<1> QED
    BY <1>1, <1>2, PTL DEF Spec

(***************************************************************************)
(* A pool is a queue to its callers: what its methods decide from the      *)
(* indexes is what they would decide by looking through the slice.         *)
(***************************************************************************)
THEOREM PoolIsAQueue == Spec => ImplementsPendingQueue
<1>1. Init => Queue!QueueInit
    BY PoolInit
<1>2. IndexesMatchPending /\ [Next]_vars => [Queue!QueueNext]_(Queue!queueVars)
    BY IndexFacts, PoolStep
<1> QED
    BY <1>1, <1>2, IndexesAgree, PTL DEF Spec, ImplementsPendingQueue, Queue!QueueSpec

---------------------------------------------------------------------------
(***************************************************************************)
(* Least and greatest elements.                                            *)
(***************************************************************************)

\* Every nonempty set of naturals has a least element.
LEMMA LeastNatural ==
    ASSUME NEW T, T \subseteq Nat, T # {}
    PROVE  \E x \in T : \A y \in T : x <= y
<1>1. PICK R : R = OpToRel(<, Nat)
    OBVIOUS
<1>2. IsWellFoundedOn(R, Nat)
    BY <1>1, NatLessThanWellFounded
<1>3. PICK x \in T : \A y \in T : ~(<<y, x>> \in R)
    BY <1>2, WFMin
<1>4. ASSUME NEW y \in T PROVE x <= y
    <2>1. y \in Nat /\ x \in Nat
        OBVIOUS
    <2>2. <<y, x>> \notin R
        BY <1>3
    <2>3. y < x => <<y, x>> \in R
        BY <2>1, <1>1 DEF OpToRel
    <2> QED
        BY <2>1, <2>2, <2>3
<1> QED
    BY <1>4

\* A set that holds 0 and with each number below n the next one holds 0 .. n.
LEMMA UpTo ==
    ASSUME NEW n \in Nat, NEW T, 0 \in T, \A k \in 0 .. n - 1 : k \in T => k + 1 \in T
    PROVE  0 .. n \subseteq T
<1> SUFFICES ASSUME (0 .. n) \ T # {} PROVE FALSE
    OBVIOUS
<1>1. PICK x \in (0 .. n) \ T : \A y \in (0 .. n) \ T : x <= y
    <2>1. PICK U : U = (0 .. n) \ T
        OBVIOUS
    <2>2. U \subseteq Nat /\ U # {}
        BY <2>1
    <2> QED
        BY <2>1, <2>2, LeastNatural
<1>2. x # 0 /\ x - 1 \in 0 .. n - 1 /\ x - 1 \in 0 .. n
    BY <1>1
<1>3. x - 1 \in T
    BY <1>1, <1>2
<1> QED
    BY <1>1, <1>2, <1>3

\* m is above all others of S in the relation R.
Greatest(R, S, m) == m \in S /\ \A y \in S \ {m} : <<m, y>> \in R

\* A finite set that R orders totally has a greatest element.
LEMMA FiniteGreatest ==
    ASSUME NEW V, IsFiniteSet(V), NEW R,
           \A x, y \in V : x # y => <<x, y>> \in R \/ <<y, x>> \in R,
           \A x, y, z \in V : <<x, y>> \in R /\ <<y, z>> \in R => <<x, z>> \in R,
           V # {}
    PROVE  \E m : Greatest(R, V, m)
<1> DEFINE Bad == {S \in SUBSET V : S # {} /\ \A m \in S : ~Greatest(R, S, m)}
<1>1. SUFFICES ASSUME Bad # {} PROVE FALSE
    <2>1. V \in SUBSET V
        OBVIOUS
    <2> QED
        BY <1>1, <2>1 DEF Greatest
<1>2. ASSUME NEW S \in SUBSET V
      PROVE  IsFiniteSet(S) /\ Cardinality(S) \in Nat
    BY FS_Subset, FS_CardinalityType
<1>3. PICK S \in Bad : \A T \in Bad : Cardinality(S) <= Cardinality(T)
    <2>1. PICK C : C = {Cardinality(T) : T \in Bad}
        OBVIOUS
    <2>2. C \subseteq Nat /\ C # {}
        BY <1>1, <1>2, <2>1
    <2>3. PICK c \in C : \A d \in C : c <= d
        BY <2>2, LeastNatural
    <2> QED
        BY <2>1, <2>3
<1>4. PICK x \in S : TRUE
    OBVIOUS
<1>5. PICK T : T = S \ {x}
    OBVIOUS
<1>6. T \in SUBSET V /\ Cardinality(T) < Cardinality(S)
    <2>1. Cardinality(S \ {x}) = Cardinality(S) - 1
        BY <1>2, FS_RemoveElement
    <2> QED
        BY <1>2, <1>5, <2>1
<1>7. T \notin Bad
    <2>1. Cardinality(S) \in Nat /\ Cardinality(T) \in Nat
        BY <1>2, <1>6
    <2> QED
        BY <1>3, <1>6, <2>1
<1>8. ~Greatest(R, S, x)
    OBVIOUS
<1>9. T # {}
    BY <1>5, <1>8 DEF Greatest
<1>10. PICK m \in T : Greatest(R, T, m)
    BY <1>6, <1>7, <1>9
<1>11. x \in V /\ m \in V /\ x # m /\ \A y \in S \ {x, m} : <<m, y>> \in R /\ y \in V
    BY <1>5, <1>6, <1>10 DEF Greatest
<1>12. CASE <<m, x>> \in R
    <2>1. Greatest(R, S, m)
        BY <1>5, <1>11, <1>12 DEF Greatest
    <2> QED
        BY <1>5, <2>1
<1>13. CASE <<x, m>> \in R
    <2>1. Greatest(R, S, x)
        BY <1>11, <1>13 DEF Greatest
    <2> QED
        BY <1>8, <2>1
<1> QED
    BY <1>11, <1>12, <1>13

---------------------------------------------------------------------------
(***************************************************************************)
(* DrainHighestValue.                                                      *)
(***************************************************************************)

\* Among tasks with different slots one head is preferred to all others.
LEMMA BestHeadExists ==
    ASSUME NEW S \in SUBSET Txs, IsFiniteSet(S), S # {},
           \A t, u \in S : Slot(t) = Slot(u) => t = u
    PROVE  /\ BestHead(S) \in S /\ IsHead(S, BestHead(S))
           /\ \A u \in S \ {BestHead(S)} : IsHead(S, u) => Dearer(BestHead(S), u)
<1>1. \A t \in S : t.nonce \in Nat /\ t.value \in Nat /\ t.rank \in Nat
    BY TxFacts
<1>2. PICK H : H = {t \in S : IsHead(S, t)}
    OBVIOUS
<1>3. H # {}
    <2>1. PICK N : N = {t.nonce : t \in S}
        OBVIOUS
    <2>2. N \subseteq Nat /\ N # {}
        BY <1>1, <2>1
    <2>3. PICK n \in N : \A m \in N : n <= m
        BY <2>2, LeastNatural
    <2>4. PICK t \in S : t.nonce = n
        BY <2>1, <2>3
    <2>5. IsHead(S, t)
        BY <2>1, <2>3, <2>4 DEF IsHead
    <2> QED
        BY <1>2, <2>5
<1>4. IsFiniteSet(H)
    BY <1>2, FS_Subset
<1>5. PICK R : R = {p \in H \X H : Dearer(p[1], p[2])}
    OBVIOUS
<1>6. \A x, y \in H : <<x, y>> \in R <=> Dearer(x, y)
    BY <1>5
<1>7. \A x, y \in H : x # y => Dearer(x, y) \/ Dearer(y, x)
    <2>1. \A x, y \in H : x # y => x.rank # y.rank
        BY <1>2, TxsAssumption
    <2> QED
        BY <1>1, <1>2, <2>1 DEF Dearer
<1>8. \A x, y, z \in H : Dearer(x, y) /\ Dearer(y, z) => Dearer(x, z)
    BY <1>1, <1>2 DEF Dearer
<1>9. PICK m : Greatest(R, H, m)
    BY <1>3, <1>4, <1>6, <1>7, <1>8, FiniteGreatest
<1>10. m \in S /\ IsHead(S, m) /\ \A u \in S \ {m} : IsHead(S, u) => Dearer(m, u)
    BY <1>2, <1>6, <1>9 DEF Greatest
<1> QED
    BY <1>10 DEF BestHead

\* One more head is taken from the elements E.
NextHead(E, taken) == Append(taken, BestHead(E \ Elements(taken)))

\* What is taken was the best head of what was left at its turn.
LEMMA TakenInTurn ==
    ASSUME NEW q \in Seq(Txs), NEW limit \in Nat, NEW t \in Elements(HighestValue(q, limit))
    PROVE  \E P \in SUBSET Elements(HighestValue(q, limit)) :
                t = BestHead(Elements(q) \ P)
<1> DEFINE E == Elements(q)
           d == DrainSize(q, limit)
           K(g, k) == IF k = 0 THEN <<>> ELSE NextHead(E, g[k - 1])
           Unfolds(g, m) == g = [k \in 0 .. m |-> K(g, k)]
           f == CHOOSE g : Unfolds(g, d)
<1>1. d \in Nat
    BY DEF DrainSize
<1>2. HighestValue(q, limit) = f[d]
    BY DEF HighestValue, NextHead
<1> HIDE DEF d, E
<1>3. \E g : Unfolds(g, d)
    <2> DEFINE T == {m \in 0 .. d : \E g : Unfolds(g, m)}
    <2>1. 0 \in T
        <3>1. PICK g : g = [k \in 0 .. 0 |-> <<>>]
            OBVIOUS
        <3>2. \A k \in 0 .. 0 : K(g, k) = <<>>
            OBVIOUS
        <3>3. Unfolds(g, 0)
            BY <3>1, <3>2
        <3> QED
            BY <1>1, <3>3
    <2>2. ASSUME NEW m \in 0 .. d - 1, m \in T PROVE m + 1 \in T
        <3>1. PICK g : Unfolds(g, m)
            BY <2>2
        <3>2. m \in Nat /\ m + 1 \in 0 .. d
            BY <1>1
        <3>3. PICK h : h = [k \in 0 .. m + 1 |-> K(g, k)]
            OBVIOUS
        <3>4. \A k \in 0 .. m : h[k] = g[k]
            <4>1. \A k \in 0 .. m : k \in 0 .. m + 1
                BY <3>2
            <4> HIDE DEF K
            <4> QED
                BY <3>1, <3>3, <4>1
        <3>5. ASSUME NEW k \in 0 .. m + 1 PROVE K(h, k) = K(g, k)
            <4>1. k # 0 => k - 1 \in 0 .. m
                BY <3>2
            <4> QED
                BY <3>4, <4>1
        <3>6. Unfolds(h, m + 1)
            <4> HIDE DEF K
            <4> QED
                BY <3>3, <3>5
        <3> QED
            BY <3>2, <3>6
    <2> HIDE DEF T
    <2>3. 0 .. d \subseteq T
        BY <1>1, <2>1, <2>2, UpTo
    <2>4. d \in T
        BY <1>1, <2>3
    <2> QED
        BY <2>4 DEF T
<1>4. Unfolds(f, d)
    <2> HIDE DEF Unfolds
    <2> QED
        BY <1>3
<1> HIDE DEF f
<1>5. f[0] = <<>> /\ \A k \in 1 .. d : f[k] = NextHead(E, f[k - 1])
    <2>1. \A k \in 0 .. d : f[k] = K(f, k)
        <3> HIDE DEF K
        <3> QED
            BY <1>4
    <2>2. 0 \in 0 .. d /\ \A k \in 1 .. d : k \in 0 .. d /\ k # 0
        BY <1>1
    <2> QED
        BY <2>1, <2>2
<1> HIDE DEF K, Unfolds
<1> DEFINE Turn(s) == \A u \in Elements(s) : \E P \in SUBSET Elements(s) : u = BestHead(E \ P)
           T == {k \in 0 .. d : (\E A : f[k] \in Seq(A)) /\ Turn(f[k])}
<1>6. 0 \in T
    <2>1. f[0] \in Seq({}) /\ Elements(f[0]) = {}
        BY <1>5 DEF Elements
    <2> QED
        BY <1>1, <2>1
<1>7. ASSUME NEW k \in 0 .. d - 1, k \in T PROVE k + 1 \in T
    <2>1. k + 1 \in 0 .. d /\ k + 1 \in 1 .. d /\ (k + 1) - 1 = k
        BY <1>1
    <2>2. PICK b : b = BestHead(E \ Elements(f[k]))
        OBVIOUS
    <2>3. f[k + 1] = Append(f[k], b)
        BY <1>5, <2>1, <2>2 DEF NextHead
    <2>4. PICK A : f[k] \in Seq(A)
        BY <1>7
    <2>5. PICK s \in Seq(A \cup {b}) : s = f[k]
        BY <2>4
    <2>6. Append(s, b) \in Seq(A \cup {b}) /\ Elements(Append(s, b)) = Elements(s) \cup {b}
        <3>1. PICK n \in Nat : n = Len(s) /\ DOMAIN s = 1 .. n
            OBVIOUS
        <3>2. DOMAIN Append(s, b) = 1 .. n + 1 /\ Append(s, b)[n + 1] = b
              /\ \A j \in 1 .. n : Append(s, b)[j] = s[j]
            BY <3>1
        <3>3. /\ \A j \in 1 .. n + 1 : j \in 1 .. n \/ j = n + 1
              /\ \A j \in 1 .. n : j \in 1 .. n + 1
              /\ n + 1 \in 1 .. n + 1
            OBVIOUS
        <3>4. Elements(Append(s, b)) = Elements(s) \cup {b}
            BY <3>1, <3>2, <3>3 DEF Elements
        <3>5. Append(s, b) \in Seq(A \cup {b})
            OBVIOUS
        <3> QED
            BY <3>4, <3>5
    <2>7. Turn(Append(s, b))
        <3>1. SUFFICES ASSUME NEW u \in Elements(s) \cup {b}
                       PROVE  \E P \in SUBSET (Elements(s) \cup {b}) : u = BestHead(E \ P)
            BY <2>6
        <3>2. CASE u = b
            BY <2>2, <2>5, <3>2
        <3>3. CASE u \in Elements(s)
            <4>1. PICK P \in SUBSET Elements(s) : u = BestHead(E \ P)
                BY <1>7, <2>5, <3>3
            <4> QED
                BY <4>1
        <3> QED
            BY <3>2, <3>3
    <2> QED
        BY <2>1, <2>3, <2>5, <2>6, <2>7
<1> HIDE DEF T
<1>8. 0 .. d \subseteq T
    BY <1>1, <1>6, <1>7, UpTo
<1>9. d \in T
    BY <1>1, <1>8
<1>10. Turn(f[d])
    BY <1>9 DEF T
<1> QED
    BY <1>2, <1>10 DEF E

(***************************************************************************)
(* DrainHighestValue never takes a task while an earlier one of its sender *)
(* stays, and prefers no cheaper head of a sender to a dearer one of a     *)
(* sender it takes nothing from.                                           *)
(***************************************************************************)
THEOREM DrainsInSenderOrder == Spec => DrainKeepsSenderOrder
<1> DEFINE Ordered ==
        \A limit \in DrainLimits : DrainHighestValue(limit) =>
            \A t \in Elements(pending) \ Elements(pending'), u \in Elements(pending') :
                /\ t.from = u.from => t.nonce < u.nonce
                /\ ((\A v \in Elements(pending) \ Elements(pending') : v.from # u.from)
                    /\ IsHead(Elements(pending'), u)) => t.value >= u.value
<1>1. ASSUME IndexesMatchPending PROVE Ordered
    <2>1. SUFFICES ASSUME NEW limit \in DrainLimits, DrainHighestValue(limit),
                          NEW t \in Elements(pending) \ Elements(pending'),
                          NEW u \in Elements(pending')
                   PROVE  /\ t.from = u.from => t.nonce < u.nonce
                          /\ ((\A v \in Elements(pending) \ Elements(pending') : v.from # u.from)
                              /\ IsHead(Elements(pending'), u)) => t.value >= u.value
        OBVIOUS
    <2>2. /\ Indexed /\ pending \in Seq(Txs) /\ OneSlotEach(pending) /\ limit \in Nat
        BY <1>1, IndexFacts, DrainLimitsAssumption DEF Indexed
    <2>3. PICK D : D = Elements(HighestValue(pending, limit))
        OBVIOUS
    <2>4. PICK S : S = {i \in DOMAIN pending : pending[i] \notin D}
        OBVIOUS
    <2>5. pending' \in Picked(pending, S) /\ S \in SUBSET DOMAIN pending
        BY <2>1, <2>3, <2>4 DEF DrainHighestValue
    <2>6. Elements(pending') = {pending[i] : i \in S}
        BY <2>2, <2>5, PickedSlice
    <2>7. Elements(pending') = Elements(pending) \ D
        BY <2>4, <2>6 DEF Elements
    <2>8. t \in D /\ t \in Elements(pending) /\ u \in Elements(pending) /\ u \notin D
        BY <2>7
    <2>9. PICK P \in SUBSET D : t = BestHead(Elements(pending) \ P)
        BY <2>2, <2>3, <2>8, TakenInTurn
    <2>10. PICK L \in SUBSET Txs : L = Elements(pending) \ P /\ u \in L
        <3>1. Elements(pending) \subseteq Txs
            BY <2>2 DEF Elements
        <3>2. u \in Elements(pending) \ P
            BY <2>8, <2>9
        <3> QED
            BY <3>1, <3>2
    <2>11. \A a, b \in L : Slot(a) = Slot(b) => a = b
        BY <2>2, <2>10 DEF OneSlotEach, Elements
    <2>12. IsFiniteSet(L)
        <3> DEFINE g == [i \in DOMAIN pending |-> pending[i]]
        <3>1. IsFiniteSet(DOMAIN pending)
            BY <2>2, IntervalSize
        <3>2. g \in Surjection(DOMAIN pending, Elements(pending))
            BY DEF Surjection, Elements
        <3> HIDE DEF g
        <3>3. IsFiniteSet(Elements(pending))
            BY <3>1, <3>2, FS_Surjection
        <3> QED
            BY <2>10, <3>3, FS_Subset
    <2>13. t \in L /\ IsHead(L, t) /\ \A v \in L \ {t} : IsHead(L, v) => Dearer(t, v)
        BY <2>9, <2>10, <2>11, <2>12, BestHeadExists
    <2>14. t.nonce \in Nat /\ u.nonce \in Nat /\ t.value \in Nat /\ u.value \in Nat /\ t # u
        BY <2>8, <2>10, <2>13, TxFacts
    <2>15. ASSUME t.from = u.from PROVE t.nonce < u.nonce
        <3>1. t.nonce <= u.nonce
            BY <2>10, <2>13, <2>15 DEF IsHead
        <3>2. t.nonce # u.nonce
            BY <2>10, <2>11, <2>13, <2>14, <2>15 DEF Slot
        <3> QED
            BY <2>14, <3>1, <3>2
    <2>16. ASSUME \A v \in Elements(pending) \ Elements(pending') : v.from # u.from,
                  IsHead(Elements(pending'), u)
           PROVE  t.value >= u.value
        <3>1. IsHead(L, u)
            <4>1. ASSUME NEW v \in L, v.from = u.from PROVE u.nonce <= v.nonce
                <5>1. v \in Elements(pending')
                    BY <2>10, <2>16, <4>1
                <5> QED
                    BY <2>16, <4>1, <5>1 DEF IsHead
            <4> QED
                BY <4>1 DEF IsHead
        <3>2. Dearer(t, u)
            BY <2>10, <2>13, <2>14, <3>1
        <3> QED
            BY <2>14, <3>2 DEF Dearer
    <2> QED
        BY <2>15, <2>16
<1>2. IndexesMatchPending /\ [Next]_vars => [Ordered]_vars
    BY <1>1
<1> QED
    BY <1>2, IndexesAgree, PTL DEF Spec, DrainKeepsSenderOrder
=============================================================================
