---------------------------- MODULE EngineProofs ----------------------------
(***************************************************************************)
(* Proofs about the mining engine, for every set of senders and            *)
(* transactions, every partition and every outcome of the crawls, and      *)
(* about the seeder that submits tasks to it.                              *)
(*                                                                         *)
(* The properties speak of the block, of a tick's tasks and of accepted    *)
(* work; none of them is inductive.  What carries them is                  *)
(*   - that a pool keeps one transaction for a slot, or a requeue that     *)
(*     finds the slot of t taken could drop t for a transaction that is    *)
(*     gone already, and a drained batch could hold one nonce twice;       *)
(*   - which of its locals MineOnce still holds at each place (Stage), or  *)
(*     a later place could overwrite work that was never handed on;        *)
(*   - that the tasks of a tick keep their senders' order before they are  *)
(*     crawled (Lanes), since the outcomes are filtered in that order;     *)
(*   - that what was cut stays cut until the block (BelowCutoffs).         *)
(* EngineInv is their conjunction; each action has a lemma of its own that *)
(* it keeps EngineInv and gives up no work without a reason (Conserves).   *)
(* Nothing is assumed of how an imported block changes the nonces.         *)
(*                                                                         *)
(* What the seeder has outstanding is bounded because of SeederInv: the    *)
(* work the miner has drawn from the pools takes at most one drain of      *)
(* nonces (NodeInv), and the slots main still has to fill and the nonces   *)
(* of all that is at the node stay within the bound together (BudgetInv),  *)
(* however stale the two answers are that main computed the slots from;    *)
(* what a reorganisation took back between the two is slip.                *)
(*                                                                         *)
(* Pool and Engine give different meanings to the same names and cannot be *)
(* extended together; the facts about finite sets and sequences that both  *)
(* proofs need are therefore here as well as in PoolProofs.                *)
(***************************************************************************)
EXTENDS Seeder, FiniteSetTheorems, WellFoundedInduction, TLAPS

\* No two transactions of q take the same slot.
OneSlotEach(q) == \A i, j \in DOMAIN q : Slot(q[i]) = Slot(q[j]) => i = j

\* The transactions of a sender are in q in the order of their nonces.
InSenderOrder(q) ==
    \A i, j \in DOMAIN q : (i < j /\ q[i].from = q[j].from) => q[i].nonce < q[j].nonce

---------------------------------------------------------------------------
(***************************************************************************)
(* Transactions, numbers and finite sets.                                  *)
(***************************************************************************)

\* What a transaction is made of.
LEMMA TxFacts ==
    ASSUME NEW t \in Txs
    PROVE  /\ t.from \in Senders /\ t.nonce \in Nat /\ t.value \in Nat /\ t.rank \in Nat
           /\ Slot(t) \in Senders \X Nat
    BY TxsAssumption DEF Tx, Slot

\* The first n positions.
LEMMA IntervalSize ==
    ASSUME NEW n \in Nat
    PROVE  IsFiniteSet(1 .. n) /\ Cardinality(1 .. n) = n
<1>1. IsFiniteSet(1 .. n) /\ Cardinality(1 .. n) = IF 1 > n THEN 0 ELSE n - 1 + 1
    BY FS_Interval
<1> QED
    BY <1>1

\* Every nonempty set of naturals has a least element.
LEMMA LeastNatural ==
    ASSUME NEW T, T \subseteq Nat, T # {}
    PROVE  \E x \in T : \A y \in T : x <= y
<1>1. PICK R : R = OpToRel(<, Nat)
    OBVIOUS
<1>2. IsWellFoundedOn(R, Nat)
    BY <1>1, NatLessThanWellFounded
<1>3. PICK x \in T : \A y \in T : ~(<<y, x>> \in R)
    BY <1>2, WFMin
<1>4. ASSUME NEW y \in T PROVE x <= y
    <2>1. y \in Nat /\ x \in Nat
        OBVIOUS
    <2>2. <<y, x>> \notin R
        BY <1>3
    <2>3. y < x => <<y, x>> \in R
        BY <2>1, <1>1 DEF OpToRel
    <2> QED
        BY <2>1, <2>2, <2>3
<1> QED
    BY <1>4

\* A set that holds 0 and with each number below n the next one holds 0 .. n.
LEMMA UpTo ==
    ASSUME NEW n \in Nat, NEW T, 0 \in T, \A k \in 0 .. n - 1 : k \in T => k + 1 \in T
    PROVE  0 .. n \subseteq T
<1> SUFFICES ASSUME (0 .. n) \ T # {} PROVE FALSE
    OBVIOUS
<1>1. PICK x \in (0 .. n) \ T : \A y \in (0 .. n) \ T : x <= y
    <2>1. PICK U : U = (0 .. n) \ T
        OBVIOUS
    <2>2. U \subseteq Nat /\ U # {}
        BY <2>1
    <2> QED
        BY <2>1, <2>2, LeastNatural
<1>2. x # 0 /\ x - 1 \in 0 .. n - 1 /\ x - 1 \in 0 .. n
    BY <1>1
<1>3. x - 1 \in T
    BY <1>1, <1>2
<1> QED
    BY <1>1, <1>2, <1>3

\* m is above all others of S in the relation R.
Greatest(R, S, m) == m \in S /\ \A y \in S \ {m} : <<m, y>> \in R

\* A finite set that R orders totally has a greatest element.
LEMMA FiniteGreatest ==
    ASSUME NEW V, IsFiniteSet(V), NEW R,
           \A x, y \in V : x # y => <<x, y>> \in R \/ <<y, x>> \in R,
           \A x, y, z \in V : <<x, y>> \in R /\ <<y, z>> \in R => <<x, z>> \in R,
           V # {}
    PROVE  \E m : Greatest(R, V, m)
<1> DEFINE Bad == {S \in SUBSET V : S # {} /\ \A m \in S : ~Greatest(R, S, m)}
<1>1. SUFFICES ASSUME Bad # {} PROVE FALSE
    <2>1. V \in SUBSET V
        OBVIOUS
    <2> QED
        BY <1>1, <2>1 DEF Greatest
<1>2. ASSUME NEW S \in SUBSET V
      PROVE  IsFiniteSet(S) /\ Cardinality(S) \in Nat
    BY FS_Subset, FS_CardinalityType
<1>3. PICK S \in Bad : \A T \in Bad : Cardinality(S) <= Cardinality(T)
    <2>1. PICK C : C = {Cardinality(T) : T \in Bad}
        OBVIOUS
    <2>2. C \subseteq Nat /\ C # {}
        BY <1>1, <1>2, <2>1
    <2>3. PICK c \in C : \A d \in C : c <= d
        BY <2>2, LeastNatural
    <2> QED
        BY <2>1, <2>3
<1>4. PICK x \in S : TRUE
    OBVIOUS
<1>5. PICK T : T = S \ {x}
    OBVIOUS
<1>6. T \in SUBSET V /\ Cardinality(T) < Cardinality(S)
    <2>1. Cardinality(S \ {x}) = Cardinality(S) - 1
        BY <1>2, FS_RemoveElement
    <2> QED
        BY <1>2, <1>5, <2>1
<1>7. T \notin Bad
    <2>1. Cardinality(S) \in Nat /\ Cardinality(T) \in Nat
        BY <1>2, <1>6
    <2> QED
        BY <1>3, <1>6, <2>1
<1>8. ~Greatest(R, S, x)
    OBVIOUS
<1>9. T # {}
    BY <1>5, <1>8 DEF Greatest
<1>10. PICK m \in T : Greatest(R, T, m)
    BY <1>6, <1>7, <1>9
<1>11. x \in V /\ m \in V /\ x # m /\ \A y \in S \ {x, m} : <<m, y>> \in R /\ y \in V
    BY <1>5, <1>6, <1>10 DEF Greatest
<1>12. CASE <<m, x>> \in R
    <2>1. Greatest(R, S, m)
        BY <1>5, <1>11, <1>12 DEF Greatest
    <2> QED
        BY <1>5, <2>1
<1>13. CASE <<x, m>> \in R
    <2>1. Greatest(R, S, x)
        BY <1>11, <1>13 DEF Greatest
    <2> QED
        BY <1>8, <2>1
<1> QED
    BY <1>11, <1>12, <1>13

\* Among tasks with different slots one head is preferred to all others.
LEMMA BestHeadExists ==
    ASSUME NEW S \in SUBSET Txs, IsFiniteSet(S), S # {},
           \A t, u \in S : Slot(t) = Slot(u) => t = u
    PROVE  /\ BestHead(S) \in S /\ IsHead(S, BestHead(S))
           /\ \A u \in S \ {BestHead(S)} : IsHead(S, u) => Dearer(BestHead(S), u)
<1>1. \A t \in S : t.nonce \in Nat /\ t.value \in Nat /\ t.rank \in Nat
    BY TxFacts
<1>2. PICK H : H = {t \in S : IsHead(S, t)}
    OBVIOUS
<1>3. H # {}
    <2>1. PICK N : N = {t.nonce : t \in S}
        OBVIOUS
    <2>2. N \subseteq Nat /\ N # {}
        BY <1>1, <2>1
    <2>3. PICK n \in N : \A m \in N : n <= m
        BY <2>2, LeastNatural
    <2>4. PICK t \in S : t.nonce = n
        BY <2>1, <2>3
    <2>5. IsHead(S, t)
        BY <2>1, <2>3, <2>4 DEF IsHead
    <2> QED
        BY <1>2, <2>5
<1>4. IsFiniteSet(H)
    BY <1>2, FS_Subset
<1>5. PICK R : R = {p \in H \X H : Dearer(p[1], p[2])}
    OBVIOUS
<1>6. \A x, y \in H : <<x, y>> \in R <=> Dearer(x, y)
    BY <1>5
<1>7. \A x, y \in H : x # y => Dearer(x, y) \/ Dearer(y, x)
    <2>1. \A x, y \in H : x # y => x.rank # y.rank
        BY <1>2, TxsAssumption
    <2> QED
        BY <1>1, <1>2, <2>1 DEF Dearer
<1>8. \A x, y, z \in H : Dearer(x, y) /\ Dearer(y, z) => Dearer(x, z)
    BY <1>1, <1>2 DEF Dearer
<1>9. PICK m : Greatest(R, H, m)
    BY <1>3, <1>4, <1>6, <1>7, <1>8, FiniteGreatest
<1>10. m \in S /\ IsHead(S, m) /\ \A u \in S \ {m} : IsHead(S, u) => Dearer(m, u)
    BY <1>2, <1>6, <1>9 DEF Greatest
<1> QED
    BY <1>10 DEF BestHead

---------------------------------------------------------------------------
(***************************************************************************)
(* Pools as sequences.                                                     *)
(***************************************************************************)

\* A transaction at the end of a pool.
LEMMA Appended ==
    ASSUME NEW q \in Seq(Txs), NEW t \in Txs
    PROVE  /\ Append(q, t) \in Seq(Txs)
           /\ Elements(Append(q, t)) = Elements(q) \cup {t}
           /\ OneSlotEach(q) /\ ~Occupied(q, t) => OneSlotEach(Append(q, t))
           /\ (InSenderOrder(q) /\ \A u \in Elements(q) : u.from = t.from => u.nonce < t.nonce)
                => InSenderOrder(Append(q, t))
<1>1. PICK n \in Nat : n = Len(q) /\ DOMAIN q = 1 .. n
    OBVIOUS
<1>2. PICK r : r = Append(q, t) /\ r \in Seq(Txs)
    <2>1. Append(q, t) \in Seq(Txs)
        OBVIOUS
    <2> QED
        BY <2>1
<1>3. /\ DOMAIN r = 1 .. n + 1 /\ r[n + 1] = t
      /\ \A i \in 1 .. n : r[i] = q[i]
    BY <1>1, <1>2
<1>4. /\ \A i \in 1 .. n + 1 : i \in 1 .. n \/ i = n + 1
      /\ \A i \in 1 .. n : i \in 1 .. n + 1 /\ i < n + 1
      /\ n + 1 \in 1 .. n + 1
    OBVIOUS
<1>5. Elements(r) = Elements(q) \cup {t}
    BY <1>1, <1>3, <1>4 DEF Elements
<1>6. ASSUME OneSlotEach(q), ~Occupied(q, t) PROVE OneSlotEach(r)
    <2>1. \A i \in 1 .. n : Slot(q[i]) # Slot(t)
        BY <1>1, <1>6 DEF Occupied, Elements
    <2>2. \A i, j \in 1 .. n : Slot(q[i]) = Slot(q[j]) => i = j
        BY <1>1, <1>6 DEF OneSlotEach
    <2> QED
        BY <1>3, <1>4, <2>1, <2>2 DEF OneSlotEach
<1>7. ASSUME InSenderOrder(q), \A u \in Elements(q) : u.from = t.from => u.nonce < t.nonce
      PROVE  InSenderOrder(r)
    <2>1. \A i \in 1 .. n : q[i].from = t.from => q[i].nonce < t.nonce
        BY <1>1, <1>7 DEF Elements
    <2>2. \A i, j \in 1 .. n : (i < j /\ q[i].from = q[j].from) => q[i].nonce < q[j].nonce
        BY <1>1, <1>7 DEF InSenderOrder
    <2>3. ASSUME NEW i \in 1 .. n + 1, NEW j \in 1 .. n + 1, i < j, r[i].from = r[j].from
          PROVE  r[i].nonce < r[j].nonce
        <3>1. i \in 1 .. n
            BY <2>3
        <3>2. CASE j = n + 1
            BY <1>3, <2>1, <2>3, <3>1, <3>2
        <3>3. CASE j \in 1 .. n
            BY <1>3, <2>2, <2>3, <3>1, <3>3
        <3> QED
            BY <1>4, <3>2, <3>3
    <2> QED
        BY <1>3, <2>3 DEF InSenderOrder
<1> QED
    BY <1>2, <1>5, <1>6, <1>7

\* The empty pool.
LEMMA EmptyPool ==
    <<>> \in Seq(Txs) /\ Elements(<<>>) = {} /\ OneSlotEach(<<>>) /\ InSenderOrder(<<>>)
    BY DEF Elements, OneSlotEach, InSenderOrder

LEMMA PoolElements ==
    ASSUME NEW q \in Seq(Txs)
    PROVE  Elements(q) \subseteq Txs
    BY DEF Elements

\* A pool holds finitely many transactions, one at each place when their
\* slots differ.
LEMMA PoolSize ==
    ASSUME NEW q \in Seq(Txs)
    PROVE  /\ IsFiniteSet(Elements(q)) /\ Cardinality(Elements(q)) \in Nat
           /\ OneSlotEach(q) => Cardinality(Elements(q)) = Len(q)
<1>1. PICK n \in Nat : n = Len(q) /\ DOMAIN q = 1 .. n
    OBVIOUS
<1>2. IsFiniteSet(1 .. n) /\ Cardinality(1 .. n) = n
    BY IntervalSize
<1>3. PICK g : g = [i \in 1 .. n |-> q[i]]
    OBVIOUS
<1>4. g \in Surjection(1 .. n, Elements(q))
    BY <1>1, <1>3 DEF Surjection, Elements
<1>5. IsFiniteSet(Elements(q))
    BY <1>2, <1>4, FS_Surjection
<1>6. ASSUME OneSlotEach(q) PROVE Cardinality(Elements(q)) = n
    <2>1. g \in [1 .. n -> Elements(q)] /\ \A i, j \in 1 .. n : g[i] = g[j] => i = j
        BY <1>1, <1>3, <1>6 DEF OneSlotEach, Elements
    <2>2. g \in Bijection(1 .. n, Elements(q))
        BY <1>4, <2>1 DEF Bijection, Injection, IsInjective
    <2>3. Cardinality(Elements(q)) = Cardinality(1 .. n)
        <3>1. ExistsBijection(1 .. n, Elements(q))
            BY <2>2 DEF ExistsBijection
        <3> QED
            BY <1>2, <1>5, <3>1, FS_Bijection
    <2> QED
        BY <1>2, <2>3
<1> QED
    BY <1>1, <1>5, <1>6, FS_CardinalityType

\* One sequence after another.
LEMMA ConcatElements ==
    ASSUME NEW a \in Seq(Txs), NEW b \in Seq(Txs)
    PROVE  a \o b \in Seq(Txs) /\ Elements(a \o b) = Elements(a) \cup Elements(b)
<1>1. PICK r : r = a \o b
    OBVIOUS
<1>2. PICK m \in Nat, n \in Nat : DOMAIN a = 1 .. m /\ DOMAIN b = 1 .. n /\ m = Len(a) /\ n = Len(b)
    OBVIOUS
<1>3. /\ r \in Seq(Txs) /\ DOMAIN r = 1 .. m + n
      /\ \A i \in 1 .. m : r[i] = a[i]
      /\ \A i \in 1 .. n : r[m + i] = b[i]
    BY <1>1, <1>2
<1>4. ASSUME NEW i \in 1 .. m + n
      PROVE  r[i] \in Elements(a) \cup Elements(b)
    <2>1. CASE i \in 1 .. m
        BY <1>2, <1>3, <2>1 DEF Elements
    <2>2. CASE i \notin 1 .. m
        <3>1. i - m \in 1 .. n /\ m + (i - m) = i
            BY <2>2
        <3> QED
            BY <1>2, <1>3, <3>1 DEF Elements
    <2> QED
        BY <2>1, <2>2
<1>5. Elements(r) \subseteq Elements(a) \cup Elements(b)
    BY <1>3, <1>4 DEF Elements
<1>6. Elements(a) \subseteq Elements(r)
    <2>1. \A i \in 1 .. m : i \in 1 .. m + n
        OBVIOUS
    <2> QED
        BY <1>2, <1>3, <2>1 DEF Elements
<1>7. Elements(b) \subseteq Elements(r)
    <2>1. ASSUME NEW i \in 1 .. n PROVE b[i] \in Elements(r)
        <3>1. PICK j \in 1 .. m + n : j = m + i
            OBVIOUS
        <3>2. r[j] = b[i] /\ j \in DOMAIN r
            BY <1>3, <3>1
        <3> QED
            BY <3>2 DEF Elements
    <2> QED
        BY <1>2, <2>1 DEF Elements
<1> QED
    BY <1>1, <1>3, <1>5, <1>6, <1>7

\* g is a loop of n steps, from a, with the function G as its body.
IsRun(g, n, X, a, G) ==
    g \in [0 .. n -> X] /\ g[0] = a /\ \A k \in 1 .. n : g[k] = G[<<k, g[k - 1]>>]

LEMMA Iterates ==
    ASSUME NEW n \in Nat, NEW X, NEW a \in X, NEW G \in [(1 .. n) \X X -> X]
    PROVE  \E g : IsRun(g, n, X, a, G)
<1> USE DEF IsRun
<1> DEFINE Runs(g, m) == IsRun(g, m, X, a, G)
           T == {m \in 0 .. n : \E g : Runs(g, m)}
<1>1. 0 \in T
    <2>1. PICK g : g = [k \in 0 .. 0 |-> a]
        OBVIOUS
    <2>2. Runs(g, 0)
        BY <2>1
    <2> QED
        BY <2>2
<1>2. ASSUME NEW m \in 0 .. n - 1, m \in T PROVE m + 1 \in T
    <2>1. PICK g : Runs(g, m)
        BY <1>2
    <2>2. m \in Nat /\ m + 1 \in 0 .. n /\ m + 1 \in 1 .. n /\ m \in 0 .. m /\ 0 \in 0 .. m
        OBVIOUS
    <2>3. PICK b : b = G[<<m + 1, g[m]>>]
        OBVIOUS
    <2>4. b \in X
        BY <2>1, <2>2, <2>3
    <2>5. PICK h : h = [k \in 0 .. m + 1 |-> IF k = m + 1 THEN b ELSE g[k]]
        OBVIOUS
    <2>6. h \in [0 .. m + 1 -> X]
        <3>1. \A k \in 0 .. m + 1 : k = m + 1 \/ k \in 0 .. m
            BY <2>2
        <3> QED
            BY <2>1, <2>4, <2>5, <3>1
    <2>7. \A k \in 0 .. m : h[k] = g[k]
        <3>1. \A k \in 0 .. m : k # m + 1 /\ k \in 0 .. m + 1
            BY <2>2
        <3> QED
            BY <2>5, <3>1
    <2>8. ASSUME NEW k \in 1 .. m + 1 PROVE h[k] = G[<<k, h[k - 1]>>]
        <3>1. CASE k = m + 1
            <4>1. h[k] = b /\ k - 1 = m /\ h[m] = g[m]
                BY <2>2, <2>5, <2>7, <3>1
            <4> QED
                BY <2>3, <3>1, <4>1
        <3>2. CASE k \in 1 .. m
            <4>1. k \in 0 .. m /\ k - 1 \in 0 .. m
                BY <2>2, <3>2
            <4>2. h[k] = g[k] /\ h[k - 1] = g[k - 1]
                BY <2>7, <4>1
            <4> QED
                BY <2>1, <3>2, <4>2
        <3> QED
            BY <2>2, <3>1, <3>2
    <2>9. Runs(h, m + 1)
        BY <2>1, <2>2, <2>6, <2>7, <2>8
    <2> QED
        BY <2>2, <2>9
<1> HIDE DEF T
<1>3. n \in T
    <2>1. 0 .. n \subseteq T
        BY <1>1, <1>2, UpTo
    <2> QED
        BY <2>1
<1> HIDE DEF IsRun
<1> QED
    BY <1>3 DEF T

\* Only keeps what is in S, in its order.
LEMMA OnlyKeeps ==
    ASSUME NEW q \in Seq(Txs), NEW S
    PROVE  /\ Only(q, S) \in Seq(Txs) /\ Elements(Only(q, S)) = Elements(q) \cap S
           /\ OneSlotEach(q) => OneSlotEach(Only(q, S))
           /\ InSenderOrder(q) => InSenderOrder(Only(q, S))
<1> DEFINE n == Len(q)
           Step(k, s) == IF q[k] \in S THEN Append(s, q[k]) ELSE s
           Unfolds(g) == g = [k \in 0 .. n |-> IF k = 0 THEN <<>> ELSE Step(k, g[k - 1])]
           f == CHOOSE g : Unfolds(g)
<1>1. n \in Nat /\ DOMAIN q = 1 .. n /\ \A k \in 1 .. n : q[k] \in Txs
    OBVIOUS
<1>2. Only(q, S) = f[n]
    BY DEF Only
<1>3. \E g : Unfolds(g)
    <2>1. PICK G : G = [p \in (1 .. n) \X Seq(Txs) |-> Step(p[1], p[2])]
        OBVIOUS
    <2>2. G \in [(1 .. n) \X Seq(Txs) -> Seq(Txs)]
        <3>1. ASSUME NEW k \in 1 .. n, NEW s \in Seq(Txs) PROVE Step(k, s) \in Seq(Txs)
            BY <1>1, Appended
        <3> QED
            BY <2>1, <3>1
    <2>3. \A k \in 1 .. n, s \in Seq(Txs) : G[<<k, s>>] = Step(k, s)
        BY <2>1
    <2> HIDE DEF n, Step
    <2>4. PICK g \in [0 .. n -> Seq(Txs)] :
            g[0] = <<>> /\ \A k \in 1 .. n : g[k] = G[<<k, g[k - 1]>>]
        <3>1. PICK X : X = Seq(Txs)
            OBVIOUS
        <3>2. <<>> \in X /\ G \in [(1 .. n) \X X -> X]
            BY <2>2, <3>1, EmptyPool
        <3>3. PICK a \in X : a = <<>>
            BY <3>2
        <3>4. \E g : IsRun(g, n, X, a, G)
            <4>1. n \in Nat /\ a \in X /\ G \in [(1 .. n) \X X -> X]
                BY <1>1, <3>2
            <4> QED
                BY <4>1, Iterates
        <3> QED
            BY <3>1, <3>3, <3>4 DEF IsRun
    <2>5. \A k \in 1 .. n : k - 1 \in 0 .. n
        BY <1>1
    <2>6. \A k \in 0 .. n : g[k] = IF k = 0 THEN <<>> ELSE Step(k, g[k - 1])
        <3>1. \A k \in 0 .. n : k = 0 \/ k \in 1 .. n
            BY <1>1
        <3> QED
            BY <2>3, <2>4, <2>5, <3>1
    <2>7. Unfolds(g)
        BY <2>4, <2>6
    <2> QED
        BY <2>7
<1>4. Unfolds(f)
    <2> HIDE DEF Unfolds
    <2> QED
        BY <1>3
<1> HIDE DEF f, n
<1>5. f[0] = <<>> /\ \A k \in 1 .. n : f[k] = Step(k, f[k - 1])
    <2> HIDE DEF Step
    <2> QED
        BY <1>1, <1>4
<1> HIDE DEF Unfolds
<1> DEFINE T == {k \in 0 .. n :
                    /\ f[k] \in Seq(Txs)
                    /\ Elements(f[k]) = {q[i] : i \in 1 .. k} \cap S
                    /\ OneSlotEach(q) => OneSlotEach(f[k])
                    /\ InSenderOrder(q) => InSenderOrder(f[k])}
<1>6. 0 \in T
    <2>1. {q[i] : i \in 1 .. 0} = {} /\ 0 \in 0 .. n
        BY <1>1
    <2>2. f[0] \in Seq(Txs) /\ Elements(f[0]) = {} /\ OneSlotEach(f[0]) /\ InSenderOrder(f[0])
        BY <1>5, EmptyPool
    <2> QED
        BY <2>1, <2>2
<1>7. ASSUME NEW k \in 0 .. n - 1, k \in T PROVE k + 1 \in T
    <2>1. k \in Nat /\ k + 1 \in 1 .. n /\ k + 1 \in 0 .. n /\ (k + 1) - 1 = k
        BY <1>1
    <2>2. PICK s \in Seq(Txs) : s = f[k]
        BY <1>7
    <2>3. PICK t \in Txs : t = q[k + 1]
        BY <1>1, <2>1
    <2>4. Elements(s) = {q[i] : i \in 1 .. k} \cap S
        BY <1>7, <2>2
    <2>5. /\ \A i \in 1 .. k : i \in 1 .. n /\ i # k + 1 /\ i < k + 1 /\ i \in 1 .. k + 1
          /\ \A i \in 1 .. k + 1 : i \in 1 .. k \/ i = k + 1
        BY <1>1, <2>1
    <2>6. {q[i] : i \in 1 .. k + 1} = {q[i] : i \in 1 .. k} \cup {t}
        BY <2>1, <2>3, <2>5
    <2>7. f[k + 1] = IF t \in S THEN Append(s, t) ELSE s
        BY <1>5, <2>1, <2>2, <2>3
    <2>8. CASE t \notin S
        <3>1. f[k + 1] = s /\ Elements(s) = {q[i] : i \in 1 .. k + 1} \cap S
            BY <2>4, <2>6, <2>7, <2>8
        <3> QED
            BY <1>7, <2>1, <2>2, <3>1
    <2>9. CASE t \in S
        <3>1. f[k + 1] = Append(s, t)
            BY <2>7, <2>9
        <3>2. Elements(Append(s, t)) = {q[i] : i \in 1 .. k + 1} \cap S
            <4>1. Elements(Append(s, t)) = Elements(s) \cup {t}
                BY Appended
            <4> QED
                BY <2>4, <2>6, <2>9, <4>1
        <3>3. ASSUME OneSlotEach(q) PROVE OneSlotEach(Append(s, t))
            <4>1. ~Occupied(s, t)
                <5>1. \A i \in 1 .. k : Slot(q[i]) # Slot(t)
                    BY <1>1, <2>1, <2>3, <2>5, <3>3 DEF OneSlotEach
                <5> QED
                    BY <2>4, <5>1 DEF Occupied
            <4>2. OneSlotEach(s)
                BY <1>7, <2>2, <3>3
            <4> QED
                BY <4>1, <4>2, Appended
        <3>4. ASSUME InSenderOrder(q) PROVE InSenderOrder(Append(s, t))
            <4>1. \A u \in Elements(s) : u.from = t.from => u.nonce < t.nonce
                <5>1. \A i \in 1 .. k : q[i].from = t.from => q[i].nonce < t.nonce
                    BY <1>1, <2>1, <2>3, <2>5, <3>4 DEF InSenderOrder
                <5> QED
                    BY <2>4, <5>1
            <4>2. InSenderOrder(s)
                BY <1>7, <2>2, <3>4
            <4> QED
                BY <4>1, <4>2, Appended
        <3>5. Append(s, t) \in Seq(Txs)
            BY Appended
        <3> QED
            BY <2>1, <3>1, <3>2, <3>3, <3>4, <3>5
    <2> QED
        BY <2>8, <2>9
<1> HIDE DEF T
<1>8. n \in T
    <2>1. 0 .. n \subseteq T
        BY <1>1, <1>6, <1>7, UpTo
    <2> QED
        BY <1>1, <2>1
<1>9. Elements(q) = {q[i] : i \in 1 .. n}
    BY <1>1 DEF Elements
<1> QED
    BY <1>2, <1>8, <1>9 DEF T

---------------------------------------------------------------------------
(***************************************************************************)
(* Add and Requeue.                                                        *)
(***************************************************************************)

\* The pools do not overflow: one without a transaction for the slot of t has
\* room for t.
Ample ==
    \A q \in Seq(Txs), t \in Txs :
        OneSlotEach(q) /\ ~Occupied(q, t) => ~Full(q) /\ ~SenderFull(q, t.from)

\* A slot that is occupied stays so when every occupant keeps its slot occupied.
LEMMA OccupiedStays ==
    ASSUME NEW q, NEW r, \A u \in Elements(q) : Occupied(r, u), NEW t, Occupied(q, t)
    PROVE  Occupied(r, t)
    BY DEF Occupied

\* What Add does to a pool.
LEMMA AddedKeeps ==
    ASSUME NEW q \in Seq(Txs), NEW t \in Txs, OneSlotEach(q)
    PROVE  /\ Added(q, t) \in Seq(Txs) /\ OneSlotEach(Added(q, t))
           /\ Elements(Added(q, t)) \subseteq Elements(q) \cup {t}
           /\ \A u \in Elements(q) : Occupied(Added(q, t), u)
           /\ Accepts(q, t) => t \in Elements(Added(q, t))
           /\ Ample => Occupied(Added(q, t), t)
<1>1. CASE Replaces(q, t)
    <2>1. PICK n \in Nat : n = Len(q) /\ DOMAIN q = 1 .. n
        OBVIOUS
    <2>2. PICK r : r = Replaced(q, t) /\ r = Added(q, t)
        BY <1>1 DEF Added
    <2>3. /\ DOMAIN r = 1 .. n
          /\ \A i \in 1 .. n : r[i] = IF Slot(q[i]) = Slot(t) THEN t ELSE q[i]
        BY <2>1, <2>2 DEF Replaced
    <2>4. r \in Seq(Txs)
        <3>1. r = [i \in 1 .. n |-> r[i]]
            BY <2>1, <2>2 DEF Replaced
        <3>2. \A i \in 1 .. n : r[i] \in Txs
            BY <2>1, <2>3
        <3> QED
            BY <3>1, <3>2
    <2>5. \A i \in 1 .. n : Slot(r[i]) = Slot(q[i])
        BY <2>3
    <2>6. OneSlotEach(r)
        BY <2>1, <2>3, <2>5 DEF OneSlotEach
    <2>7. Elements(r) \subseteq Elements(q) \cup {t}
        BY <2>1, <2>3 DEF Elements
    <2>8. \A u \in Elements(q) : Occupied(r, u)
        BY <2>1, <2>3, <2>5 DEF Elements, Occupied
    <2>9. t \in Elements(r)
        BY <1>1, <2>1, <2>3 DEF Replaces, Elements
    <2> QED
        BY <2>2, <2>4, <2>6, <2>7, <2>8, <2>9 DEF Occupied
<1>2. CASE ~Replaces(q, t) /\ Enters(q, t)
    <2>1. Added(q, t) = Append(q, t) /\ ~Occupied(q, t)
        BY <1>2 DEF Added, Enters
    <2>2. /\ Append(q, t) \in Seq(Txs) /\ Elements(Append(q, t)) = Elements(q) \cup {t}
          /\ OneSlotEach(Append(q, t))
        BY <2>1, Appended
    <2> QED
        BY <2>1, <2>2 DEF Occupied
<1>3. CASE ~Replaces(q, t) /\ ~Enters(q, t)
    <2>1. Added(q, t) = q
        BY <1>3 DEF Added
    <2>2. Accepts(q, t) => t \in Elements(q)
        BY <1>3 DEF Accepts
    <2>3. Ample => Occupied(q, t)
        BY <1>3 DEF Ample, Enters
    <2> QED
        BY <2>1, <2>2, <2>3 DEF Occupied
<1> QED
    BY <1>1, <1>2, <1>3

\* One turn of Requeue's loop.
Turn(before, t) ==
    IF before.stopped \/ StopsRequeue(before.queue, t)
    THEN [before EXCEPT !.stopped = TRUE]
    ELSE [before EXCEPT !.queue = Added(@, t)]

Turns == [queue : {q \in Seq(Txs) : OneSlotEach(q)}, stopped : BOOLEAN]

LEMMA TurnKeeps ==
    ASSUME NEW b \in Turns, NEW t \in Txs
    PROVE  /\ Turn(b, t) \in Turns
           /\ Elements(Turn(b, t).queue) \subseteq Elements(b.queue) \cup {t}
           /\ \A u \in Elements(b.queue) : Occupied(Turn(b, t).queue, u)
           /\ Ample /\ ~b.stopped => ~Turn(b, t).stopped /\ Occupied(Turn(b, t).queue, t)
<1>1. b.queue \in Seq(Txs) /\ OneSlotEach(b.queue) /\ b.stopped \in BOOLEAN
    BY DEF Turns
<1>2. b = [queue |-> b.queue, stopped |-> b.stopped]
    BY DEF Turns
<1>3. CASE b.stopped \/ StopsRequeue(b.queue, t)
    <2>1. Turn(b, t) = [queue |-> b.queue, stopped |-> TRUE]
        BY <1>2, <1>3 DEF Turn
    <2>2. Ample => ~StopsRequeue(b.queue, t)
        BY <1>1 DEF Ample, StopsRequeue
    <2>3. \A u \in Elements(b.queue) : Occupied(b.queue, u)
        BY DEF Occupied
    <2> QED
        BY <1>1, <1>3, <2>1, <2>2, <2>3 DEF Turns
<1>4. CASE ~(b.stopped \/ StopsRequeue(b.queue, t))
    <2>1. PICK q : q = Added(b.queue, t)
        OBVIOUS
    <2>2. Turn(b, t) = [queue |-> q, stopped |-> b.stopped]
        BY <1>2, <1>4, <2>1 DEF Turn
    <2>3. /\ q \in Seq(Txs) /\ OneSlotEach(q) /\ Elements(q) \subseteq Elements(b.queue) \cup {t}
          /\ \A u \in Elements(b.queue) : Occupied(q, u)
          /\ Ample => Occupied(q, t)
        BY <1>1, <2>1, AddedKeeps
    <2> QED
        BY <1>1, <1>4, <2>2, <2>3 DEF Turns
<1> QED
    BY <1>3, <1>4

\* What Requeue does to a pool: it gives up no slot, and takes one for each
\* transaction of the batch unless the pool overflows.
LEMMA RequeuedKeeps ==
    ASSUME NEW q \in Seq(Txs), NEW batch \in Seq(Txs), OneSlotEach(q)
    PROVE  /\ Requeued(q, batch) \in Seq(Txs) /\ OneSlotEach(Requeued(q, batch))
           /\ Elements(Requeued(q, batch)) \subseteq Elements(q) \cup Elements(batch)
           /\ \A u \in Elements(q) : Occupied(Requeued(q, batch), u)
           /\ Ample => \A u \in Elements(batch) : Occupied(Requeued(q, batch), u)
<1> DEFINE n == Len(batch)
           start == [queue |-> q, stopped |-> FALSE]
           Unfolds(g) == g = [k \in 0 .. n |-> IF k = 0 THEN start ELSE Turn(g[k - 1], batch[k])]
           f == CHOOSE g : Unfolds(g)
<1>1. n \in Nat /\ DOMAIN batch = 1 .. n /\ \A k \in 1 .. n : batch[k] \in Txs
    OBVIOUS
<1>2. Requeued(q, batch) = f[n].queue
    BY DEF Requeued, Turn
<1>3. start \in Turns /\ start.queue = q /\ ~start.stopped
    BY DEF Turns
<1>4. \E g : Unfolds(g)
    <2>1. PICK G : G = [p \in (1 .. n) \X Turns |-> Turn(p[2], batch[p[1]])]
        OBVIOUS
    <2> HIDE DEF n, start
    <2>2. G \in [(1 .. n) \X Turns -> Turns]
        <3>1. ASSUME NEW k \in 1 .. n, NEW b \in Turns PROVE Turn(b, batch[k]) \in Turns
            BY <1>1, TurnKeeps
        <3> QED
            BY <2>1, <3>1
    <2>3. \A k \in 1 .. n, b \in Turns : G[<<k, b>>] = Turn(b, batch[k])
        BY <2>1
    <2>4. PICK g : IsRun(g, n, Turns, start, G)
        BY <1>1, <1>3, <2>2, Iterates
    <2>5. \A k \in 1 .. n : k - 1 \in 0 .. n
        BY <1>1
    <2>6. \A k \in 0 .. n : g[k] = IF k = 0 THEN start ELSE Turn(g[k - 1], batch[k])
        <3>1. \A k \in 0 .. n : k = 0 \/ k \in 1 .. n
            BY <1>1
        <3> QED
            BY <2>3, <2>4, <2>5, <3>1 DEF IsRun
    <2>7. Unfolds(g)
        BY <2>4, <2>6 DEF IsRun
    <2> QED
        BY <2>7
<1>5. Unfolds(f)
    <2> HIDE DEF Unfolds
    <2> QED
        BY <1>4
<1> HIDE DEF f, n, start
<1>6. f[0] = start /\ \A k \in 1 .. n : f[k] = Turn(f[k - 1], batch[k])
    BY <1>1, <1>5
<1> HIDE DEF Unfolds
<1> DEFINE T == {k \in 0 .. n :
                    /\ f[k] \in Turns
                    /\ Elements(f[k].queue) \subseteq Elements(q) \cup Elements(batch)
                    /\ \A u \in Elements(q) : Occupied(f[k].queue, u)
                    /\ Ample => ~f[k].stopped /\ \A i \in 1 .. k : Occupied(f[k].queue, batch[i])}
<1>7. 0 \in T
    <2>1. \A u \in Elements(q) : Occupied(q, u)
        BY DEF Occupied
    <2> QED
        BY <1>1, <1>3, <1>6, <2>1
<1>8. ASSUME NEW k \in 0 .. n - 1, k \in T PROVE k + 1 \in T
    <2>1. k \in Nat /\ k + 1 \in 1 .. n /\ k + 1 \in 0 .. n /\ (k + 1) - 1 = k
        BY <1>1
    <2>2. PICK b \in Turns : b = f[k]
        BY <1>8
    <2>3. PICK t \in Txs : t = batch[k + 1] /\ t \in Elements(batch)
        BY <1>1, <2>1 DEF Elements
    <2>4. PICK c : c = Turn(b, t) /\ c = f[k + 1]
        BY <1>6, <2>1, <2>2, <2>3
    <2>5. /\ c \in Turns
          /\ Elements(c.queue) \subseteq Elements(b.queue) \cup {t}
          /\ \A u \in Elements(b.queue) : Occupied(c.queue, u)
          /\ Ample /\ ~b.stopped => ~c.stopped /\ Occupied(c.queue, t)
        <3>1. /\ Turn(b, t) \in Turns
              /\ Elements(Turn(b, t).queue) \subseteq Elements(b.queue) \cup {t}
              /\ \A u \in Elements(b.queue) : Occupied(Turn(b, t).queue, u)
              /\ Ample /\ ~b.stopped => ~Turn(b, t).stopped /\ Occupied(Turn(b, t).queue, t)
            BY TurnKeeps
        <3> QED
            BY <2>4, <3>1
    <2>6. \A u : Occupied(b.queue, u) => Occupied(c.queue, u)
        BY <2>5, OccupiedStays
    <2>7. Elements(c.queue) \subseteq Elements(q) \cup Elements(batch)
        BY <1>8, <2>2, <2>3, <2>5
    <2>8. \A u \in Elements(q) : Occupied(c.queue, u)
        BY <1>8, <2>2, <2>6
    <2>9. ASSUME Ample PROVE ~c.stopped /\ \A i \in 1 .. k + 1 : Occupied(c.queue, batch[i])
        <3>1. ~b.stopped /\ \A i \in 1 .. k : Occupied(b.queue, batch[i])
            BY <1>8, <2>2, <2>9
        <3>2. \A i \in 1 .. k + 1 : i \in 1 .. k \/ i = k + 1
            BY <2>1
        <3> QED
            BY <2>3, <2>5, <2>6, <2>9, <3>1, <3>2
    <2> QED
        BY <2>1, <2>4, <2>5, <2>7, <2>8, <2>9
<1> HIDE DEF T
<1>9. n \in T
    <2>1. 0 .. n \subseteq T
        BY <1>1, <1>7, <1>8, UpTo
    <2> QED
        BY <1>1, <2>1
<1>10. f[n].queue \in Seq(Txs) /\ OneSlotEach(f[n].queue)
    BY <1>9 DEF T, Turns
<1>11. Ample => \A u \in Elements(batch) : Occupied(f[n].queue, u)
    BY <1>1, <1>9 DEF T, Elements
<1> QED
    BY <1>2, <1>9, <1>10, <1>11 DEF T

---------------------------------------------------------------------------
(***************************************************************************)
(* DrainHighestValue.                                                      *)
(***************************************************************************)

\* One more head is taken from the elements E.
NextHead(E, taken) == Append(taken, BestHead(E \ Elements(taken)))

\* What is taken from E is in the order of its senders, and before what is left.
Prefix(E, s) ==
    /\ s \in Seq(Txs) /\ Elements(s) \subseteq E /\ InSenderOrder(s)
    /\ \A t \in Elements(s), u \in E \ Elements(s) : t.from = u.from => t.nonce < u.nonce

\* A head goes after the prefix.
LEMMA PrefixGrows ==
    ASSUME NEW E \in SUBSET Txs, IsFiniteSet(E), \A t, u \in E : Slot(t) = Slot(u) => t = u,
           NEW s, Prefix(E, s), E \ Elements(s) # {}
    PROVE  /\ Prefix(E, NextHead(E, s))
           /\ \E b \in E : Elements(NextHead(E, s)) = Elements(s) \cup {b}
<1>1. PICK L \in SUBSET Txs : L = E \ Elements(s)
    OBVIOUS
<1>2. IsFiniteSet(L) /\ L # {} /\ \A t, u \in L : Slot(t) = Slot(u) => t = u
    BY <1>1, FS_Subset
<1>3. PICK b \in L : b = BestHead(L) /\ IsHead(L, b)
    BY <1>2, BestHeadExists
<1>4. NextHead(E, s) = Append(s, b) /\ b \in Txs /\ b \in E
    BY <1>1, <1>3 DEF NextHead
<1>5. /\ Append(s, b) \in Seq(Txs) /\ Elements(Append(s, b)) = Elements(s) \cup {b}
      /\ InSenderOrder(Append(s, b))
    <2>1. \A u \in Elements(s) : u.from = b.from => u.nonce < b.nonce
        BY <1>1, <1>3 DEF Prefix
    <2> QED
        BY <1>4, <2>1, Appended DEF Prefix
<1>6. ASSUME NEW u \in E \ (Elements(s) \cup {b}), b.from = u.from PROVE b.nonce < u.nonce
    <2>1. u \in L /\ u # b /\ b.nonce \in Nat /\ u.nonce \in Nat
        BY <1>1, <1>3, <1>6, TxFacts
    <2>2. b.nonce <= u.nonce
        BY <1>3, <1>6, <2>1 DEF IsHead
    <2>3. b.nonce # u.nonce
        BY <1>2, <1>3, <1>6, <2>1 DEF Slot
    <2> QED
        BY <2>1, <2>2, <2>3
<1>7. Prefix(E, Append(s, b))
    BY <1>4, <1>5, <1>6 DEF Prefix
<1> QED
    BY <1>4, <1>5, <1>7

\* DrainHighestValue takes tasks of the pool, each sender's in nonce order, and
\* no more than it is asked for.
LEMMA HighestValueTakes ==
    ASSUME NEW q \in Seq(Txs), NEW limit \in Nat, OneSlotEach(q)
    PROVE  /\ HighestValue(q, limit) \in Seq(Txs)
           /\ Elements(HighestValue(q, limit)) \subseteq Elements(q)
           /\ InSenderOrder(HighestValue(q, limit))
           /\ limit > 0 => Cardinality(Elements(HighestValue(q, limit))) <= limit
<1> DEFINE E == Elements(q)
           d == DrainSize(q, limit)
           Body(g, k) == IF k = 0 THEN <<>> ELSE NextHead(E, g[k - 1])
           Unfolds(g, m) == g = [k \in 0 .. m |-> Body(g, k)]
           f == CHOOSE g : Unfolds(g, d)
<1>1. d \in Nat /\ d <= Len(q) /\ (limit > 0 => d <= limit)
    BY DEF DrainSize
<1>2. HighestValue(q, limit) = f[d]
    BY DEF HighestValue, NextHead
<1>3. E \in SUBSET Txs /\ \A t, u \in E : Slot(t) = Slot(u) => t = u
    BY DEF Elements, OneSlotEach
<1>4. IsFiniteSet(E) /\ Cardinality(E) = Len(q)
    BY PoolSize
<1> HIDE DEF d, E
<1>5. \E g : Unfolds(g, d)
    <2> DEFINE T == {m \in 0 .. d : \E g : Unfolds(g, m)}
    <2>1. 0 \in T
        <3>1. PICK g : g = [k \in 0 .. 0 |-> <<>>]
            OBVIOUS
        <3>2. \A k \in 0 .. 0 : Body(g, k) = <<>>
            OBVIOUS
        <3>3. Unfolds(g, 0)
            BY <3>1, <3>2
        <3> QED
            BY <1>1, <3>3
    <2>2. ASSUME NEW m \in 0 .. d - 1, m \in T PROVE m + 1 \in T
        <3>1. PICK g : Unfolds(g, m)
            BY <2>2
        <3>2. m \in Nat /\ m + 1 \in 0 .. d
            BY <1>1
        <3>3. PICK h : h = [k \in 0 .. m + 1 |-> Body(g, k)]
            OBVIOUS
        <3>4. \A k \in 0 .. m : h[k] = g[k]
            <4>1. \A k \in 0 .. m : k \in 0 .. m + 1
                BY <3>2
            <4> HIDE DEF Body
            <4> QED
                BY <3>1, <3>3, <4>1
        <3>5. ASSUME NEW k \in 0 .. m + 1 PROVE Body(h, k) = Body(g, k)
            <4>1. k # 0 => k - 1 \in 0 .. m
                BY <3>2
            <4> QED
                BY <3>4, <4>1
        <3>6. Unfolds(h, m + 1)
            <4> HIDE DEF Body
            <4> QED
                BY <3>3, <3>5
        <3> QED
            BY <3>2, <3>6
    <2> HIDE DEF T
    <2>3. 0 .. d \subseteq T
        BY <1>1, <2>1, <2>2, UpTo
    <2>4. d \in T
        BY <1>1, <2>3
    <2> QED
        BY <2>4 DEF T
<1>6. Unfolds(f, d)
    <2> HIDE DEF Unfolds
    <2> QED
        BY <1>5
<1> HIDE DEF f
<1>7. f[0] = <<>> /\ \A k \in 1 .. d : f[k] = NextHead(E, f[k - 1])
    <2>1. \A k \in 0 .. d : f[k] = Body(f, k)
        <3> HIDE DEF Body
        <3> QED
            BY <1>6
    <2>2. 0 \in 0 .. d /\ \A k \in 1 .. d : k \in 0 .. d /\ k # 0
        BY <1>1
    <2> QED
        BY <2>1, <2>2
<1> HIDE DEF Body, Unfolds
<1> DEFINE T == {k \in 0 .. d : Prefix(E, f[k]) /\ Cardinality(Elements(f[k])) <= k}
<1>8. 0 \in T
    <2>1. Elements(f[0]) = {} /\ Prefix(E, f[0])
        BY <1>7, EmptyPool DEF Prefix
    <2>2. Cardinality(Elements(f[0])) = 0
        BY <2>1, FS_EmptySet
    <2>3. 0 \in 0 .. d /\ Cardinality(Elements(f[0])) <= 0
        BY <1>1, <2>2
    <2> QED
        BY <2>1, <2>3
<1>9. ASSUME NEW k \in 0 .. d - 1, k \in T PROVE k + 1 \in T
    <2>1. k \in Nat /\ k + 1 \in 0 .. d /\ k + 1 \in 1 .. d /\ (k + 1) - 1 = k /\ k < Len(q)
        BY <1>1
    <2>2. PICK s : s = f[k] /\ Prefix(E, s) /\ Cardinality(Elements(s)) <= k
        BY <1>9
    <2>3. f[k + 1] = NextHead(E, s)
        BY <1>7, <2>1, <2>2
    <2>4. IsFiniteSet(Elements(s)) /\ Cardinality(Elements(s)) \in Nat
        BY <2>2, PoolSize DEF Prefix
    <2>5. E \ Elements(s) # {}
        <3>1. SUFFICES ASSUME E \ Elements(s) = {} PROVE FALSE
            OBVIOUS
        <3>2. E = Elements(s)
            BY <2>2, <3>1 DEF Prefix
        <3> QED
            BY <1>4, <2>1, <2>2, <2>4, <3>2
    <2>6. Prefix(E, NextHead(E, s))
        BY <1>3, <1>4, <2>2, <2>5, PrefixGrows
    <2>7. PICK b \in E : Elements(NextHead(E, s)) = Elements(s) \cup {b}
        BY <1>3, <1>4, <2>2, <2>5, PrefixGrows
    <2>8. Cardinality(Elements(s) \cup {b}) <= k + 1
        <3>1. Cardinality(Elements(s) \cup {b}) =
                IF b \in Elements(s) THEN Cardinality(Elements(s)) ELSE Cardinality(Elements(s)) + 1
            BY <2>4, FS_AddElement
        <3> QED
            BY <2>1, <2>2, <2>4, <3>1
    <2> QED
        BY <2>1, <2>3, <2>6, <2>7, <2>8
<1> HIDE DEF T
<1>10. d \in T
    <2>1. 0 .. d \subseteq T
        BY <1>1, <1>8, <1>9, UpTo
    <2> QED
        BY <1>1, <2>1
<1>11. PICK taken : taken = f[d]
    OBVIOUS
<1>12. Prefix(E, taken) /\ Cardinality(Elements(taken)) <= d
    BY <1>10, <1>11 DEF T
<1>13. Cardinality(Elements(taken)) \in Nat
    BY <1>12, PoolSize DEF Prefix
<1>14. limit > 0 => Cardinality(Elements(taken)) <= limit
    BY <1>1, <1>12, <1>13
<1> QED
    BY <1>2, <1>11, <1>12, <1>14 DEF Prefix, E

---------------------------------------------------------------------------
(***************************************************************************)
(* The invariant.                                                          *)
(***************************************************************************)

Places ==
    {"idle", "drainTasks", "readFrontier", "partition", "publish", "crawl", "cutTasks",
     "cutTransfers", "requeueFailed", "publishMined", "mine", "requeueTransfers",
     "requeueTasks", "clear"}

Cutoffs == UNION {[D -> Nat] : D \in SUBSET Senders}

Ticks ==
    [pc : Places, transactions : Seq(Txs), work : Seq(Txs), frontier : SUBSET Frontier,
     failed : Seq(Txs), mined : Seq(Txs), proofs : SUBSET Frontier, cutoffs : Cutoffs,
     cutting : Seq(Senders)]

Submissions ==
    [pc : {"readInFlight", "readTxPool", "readTaskPool", "add"}, tx : Txs, base : Nat,
     found : SUBSET Txs]

TypeOK ==
    /\ nonces \in [Senders -> Nat] /\ open \subseteq Frontier /\ settled \subseteq Frontier
    /\ txPool \in Seq(Txs) /\ taskPool \in Seq(Txs)
    /\ inFlight \in [transfers : SUBSET Txs, tasks : SUBSET Txs]
    /\ taskFailures \in [{t \in Txs : t.task} \cup Frontier -> Nat]
    /\ submit \in Submissions \cup {NoSubmit}
    /\ tick \in Ticks
    /\ accepted \subseteq Txs

\* What MineOnce holds at each of its places.
Stage(k) ==
    /\ k.pc \in {"idle", "clear", "requeueTasks"} => k.transactions = <<>>
    /\ k.pc \notin {"readFrontier", "partition", "publish", "crawl"} => k.work = <<>>
    /\ k.pc \notin {"cutTasks", "cutTransfers", "requeueFailed"} => k.failed = <<>>
    /\ k.pc \in {"idle", "drainTasks", "readFrontier", "partition", "publish", "crawl", "clear"}
        => k.mined = <<>>
    /\ k.pc \in {"cutTasks", "cutTransfers"} =>
        k.cutting # <<>> /\ k.cutting \in Seq(DOMAIN k.cutoffs)

\* The lanes of a tick: work, then mined and failed.
Lanes(k) ==
    /\ InSenderOrder(k.work) /\ InSenderOrder(k.mined)
    /\ \A t \in Elements(k.mined), u \in Elements(k.failed) :
        t.from = u.from => t.nonce < u.nonce

\* From the crawl to the block nothing is at or above a cutoff.
BelowCutoffs(k) ==
    k.pc \in {"cutTasks", "cutTransfers", "requeueFailed", "publishMined", "mine"} =>
        \A t \in Elements(k.transactions) \cup Elements(k.mined) : BelowCutoff(k.cutoffs, t)

EngineInv ==
    /\ TypeOK
    /\ OneSlotEach(txPool) /\ OneSlotEach(taskPool)
    /\ Stage(tick) /\ Lanes(tick) /\ BelowCutoffs(tick)
    /\ Held \subseteq accepted

\* The steps that AcceptedWorkIsKeptUntilMined allows.
Conserves ==
    /\ accepted' \subseteq accepted \cup Held'
    /\ \A t \in Held :
        \/ t \in Held'
        \/ IsMined(t)
        \/ IsCut(t)
        \/ \E u \in Held' : Slot(u) = Slot(t)

\* A tick as its fields.
TickOf(pc, transactions, work, frontier, failed, mined, proofs, cutoffs, cutting) ==
    [pc |-> pc, transactions |-> transactions, work |-> work, frontier |-> frontier,
     failed |-> failed, mined |-> mined, proofs |-> proofs, cutoffs |-> cutoffs,
     cutting |-> cutting]

LEMMA TickFields ==
    ASSUME tick \in Ticks
    PROVE  /\ tick = TickOf(tick.pc, tick.transactions, tick.work, tick.frontier, tick.failed,
                            tick.mined, tick.proofs, tick.cutoffs, tick.cutting)
           /\ tick.pc \in Places /\ tick.transactions \in Seq(Txs) /\ tick.work \in Seq(Txs)
           /\ tick.frontier \subseteq Frontier /\ tick.failed \in Seq(Txs)
           /\ tick.mined \in Seq(Txs) /\ tick.proofs \subseteq Frontier
           /\ tick.cutoffs \in Cutoffs /\ tick.cutting \in Seq(Senders)
    BY DEF Ticks, TickOf

\* No tick: nothing is held.
LEMMA NoTickIsFine ==
    ASSUME NEW pc \in {"idle", "clear"}
    PROVE  LET k == TickOf(pc, <<>>, <<>>, {}, <<>>, <<>>, {}, <<>>, <<>>)
           IN  k \in Ticks /\ Stage(k) /\ Lanes(k) /\ BelowCutoffs(k)
<1> DEFINE k == TickOf(pc, <<>>, <<>>, {}, <<>>, <<>>, {}, <<>>, <<>>)
<1>1. <<>> \in Cutoffs
    <2>1. <<>> \in [{} -> Nat] /\ {} \in SUBSET Senders
        OBVIOUS
    <2> QED
        BY <2>1 DEF Cutoffs
<1>2. k \in Ticks
    BY <1>1 DEF Ticks, TickOf, Places
<1>3. Stage(k)
    BY DEF Stage, TickOf
<1>4. Lanes(k)
    BY EmptyPool DEF Lanes, TickOf
<1>5. BelowCutoffs(k)
    BY DEF BelowCutoffs, TickOf
<1> QED
    BY <1>2, <1>3, <1>4, <1>5

\* The initial state.
LEMMA EngineInit == Init => EngineInv
<1> SUFFICES ASSUME Init PROVE EngineInv
    OBVIOUS
<1>1. tick = TickOf("idle", <<>>, <<>>, {}, <<>>, <<>>, {}, <<>>, <<>>)
    BY DEF Init, NoTick, TickOf
<1>2. tick \in Ticks /\ Stage(tick) /\ Lanes(tick) /\ BelowCutoffs(tick)
    BY <1>1, NoTickIsFine
<1>3. TypeOK
    BY <1>2, EmptyPool DEF Init, TypeOK, NothingInFlight, NoSubmit
<1>4. Held = {}
    BY <1>1, EmptyPool DEF Init, Held, Hands, TickOf
<1>5. OneSlotEach(txPool) /\ OneSlotEach(taskPool)
    BY EmptyPool DEF Init
<1> QED
    BY <1>2, <1>3, <1>4, <1>5 DEF EngineInv

---------------------------------------------------------------------------
(***************************************************************************)
(* The submitter and the importer.                                         *)
(***************************************************************************)

\* A step that leaves the pools and the tick alone keeps all there is.
LEMMA PoolsUntouched ==
    ASSUME EngineInv, TypeOK', UNCHANGED <<poolVars, tick, accepted>>
    PROVE  EngineInv' /\ Conserves
<1>1. Held' = Held
    BY DEF Held, Hands, poolVars
<1>2. EngineInv'
    BY <1>1 DEF EngineInv, poolVars
<1>3. Conserves
    BY <1>1 DEF Conserves
<1> QED
    BY <1>2, <1>3

\* A submission that is under way has these fields.
LEMMA SubmissionFields ==
    ASSUME submit \in Submissions \cup {NoSubmit}, submit.pc # "idle"
    PROVE  /\ submit \in Submissions
           /\ submit.tx \in Txs /\ submit.base \in Nat /\ submit.found \subseteq Txs
           /\ submit = [pc |-> submit.pc, tx |-> submit.tx, base |-> submit.base,
                        found |-> submit.found]
<1>1. submit # NoSubmit
    BY DEF NoSubmit
<1> QED
    BY <1>1 DEF Submissions

LEMMA ReadsPreserve ==
    ASSUME EngineInv,
           (\E t \in Txs : ReadChain(t)) \/ ReadInFlight \/ ReadTxPool \/ ReadTaskPool
    PROVE  EngineInv' /\ Conserves
<1>1. TypeOK
    BY DEF EngineInv
<1>2. UNCHANGED <<engineVars, tick>>
    BY DEF ReadChain, ReadInFlight, ReadTxPool, ReadTaskPool
<1>3. submit' \in Submissions \cup {NoSubmit}
    <2>1. ASSUME NEW t \in Txs, ReadChain(t) PROVE submit' \in Submissions
        <3>1. nonces[t.from] \in Nat
            BY <1>1, TxFacts DEF TypeOK
        <3> QED
            BY <2>1, <3>1 DEF ReadChain, Submissions
    <2>2. ASSUME ReadInFlight PROVE submit' \in Submissions
        <3>1. submit.pc = "readInFlight"
            BY <2>2 DEF ReadInFlight
        <3>2. PICK F \in SUBSET Txs :
                F = OfSender(inFlight.transfers \cup inFlight.tasks, submit.tx.from)
            BY <1>1 DEF TypeOK, OfSender
        <3>3. submit' = [submit EXCEPT !.pc = "readTxPool", !.found = F]
            BY <2>2, <3>2 DEF ReadInFlight
        <3> QED
            BY <1>1, <3>1, <3>3, SubmissionFields DEF TypeOK, Submissions
    <2>3. ASSUME ReadTxPool PROVE submit' \in Submissions
        <3>1. submit.pc = "readTxPool"
            BY <2>3 DEF ReadTxPool
        <3>2. PICK F \in SUBSET Txs : F = OfSender(Elements(txPool), submit.tx.from)
            BY <1>1, PoolElements DEF TypeOK, OfSender
        <3>3. submit' = [submit EXCEPT !.pc = "readTaskPool", !.found = @ \cup F]
            BY <2>3, <3>2 DEF ReadTxPool
        <3> QED
            BY <1>1, <3>1, <3>3, SubmissionFields DEF TypeOK, Submissions
    <2>4. ASSUME ReadTaskPool PROVE submit' \in Submissions \cup {NoSubmit}
        <3>1. submit.pc = "readTaskPool"
            BY <2>4 DEF ReadTaskPool
        <3>2. submit' = NoSubmit \/ submit' = [submit EXCEPT !.pc = "add", !.found = {}]
            BY <2>4 DEF ReadTaskPool
        <3> QED
            BY <1>1, <3>1, <3>2, SubmissionFields DEF TypeOK, Submissions
    <2> QED
        BY <2>1, <2>2, <2>3, <2>4
<1>4. TypeOK'
    BY <1>1, <1>2, <1>3 DEF TypeOK, engineVars, chainVars, poolVars, failureVars
<1> QED
    BY <1>2, <1>4, PoolsUntouched DEF engineVars, poolVars

\* A pool takes the submitted transaction, or refuses it; what it gives up for
\* it had the same slot.
LEMMA AddToPoolPreserves ==
    ASSUME EngineInv, AddToPool
    PROVE  EngineInv' /\ Conserves
<1>1. TypeOK /\ UNCHANGED <<chainVars, inFlight, failureVars, tick>>
    BY DEF EngineInv, AddToPool
<1>2. PICK t \in Txs : t = submit.tx
    BY <1>1, SubmissionFields DEF AddToPool, TypeOK
<1>3. PICK q : q = IF t.task THEN taskPool ELSE txPool
    OBVIOUS
<1>4. q \in Seq(Txs) /\ OneSlotEach(q) /\ Elements(q) \subseteq Held
    BY <1>3 DEF EngineInv, TypeOK, Held
<1>5. PICK r : r = Added(q, t)
    OBVIOUS
<1>6. /\ r \in Seq(Txs) /\ OneSlotEach(r) /\ Elements(r) \subseteq Elements(q) \cup {t}
      /\ \A u \in Elements(q) : Occupied(r, u)
      /\ Accepts(q, t) => t \in Elements(r)
    BY <1>4, <1>5, AddedKeeps
<1>7. ~Accepts(q, t) => r = q
    BY <1>5 DEF Accepts, Added
<1>8. /\ accepted' = IF Accepts(q, t) THEN accepted \cup {t} ELSE accepted
      /\ taskPool' = IF t.task THEN r ELSE taskPool
      /\ txPool' = IF t.task THEN txPool ELSE r
      /\ submit' = NoSubmit
    BY <1>2, <1>3, <1>5 DEF AddToPool
<1>9. TypeOK'
    BY <1>1, <1>6, <1>8 DEF TypeOK, chainVars, failureVars
<1>10. OneSlotEach(txPool') /\ OneSlotEach(taskPool')
    BY <1>6, <1>8 DEF EngineInv
<1>11. Hands' = Hands
    BY <1>1 DEF Hands
<1>12. Held' \subseteq accepted'
    <2>1. Elements(r) \subseteq accepted'
        BY <1>4, <1>6, <1>7, <1>8 DEF EngineInv
    <2> QED
        BY <1>8, <1>11, <2>1 DEF EngineInv, Held
<1>13. EngineInv'
    BY <1>1, <1>9, <1>10, <1>12 DEF EngineInv
<1>14. accepted' \subseteq accepted \cup Held'
    BY <1>6, <1>8 DEF Held
<1>15. ASSUME NEW u \in Held PROVE \E v \in Held' : Slot(v) = Slot(u)
    <2>1. CASE u \in Elements(q)
        <3>1. PICK v \in Elements(r) : Slot(v) = Slot(u)
            BY <1>6, <2>1 DEF Occupied
        <3> QED
            BY <1>8, <3>1 DEF Held
    <2>2. CASE u \notin Elements(q)
        BY <1>3, <1>8, <1>11, <1>15, <2>2 DEF Held
    <2> QED
        BY <2>1, <2>2
<1>16. Conserves
    BY <1>14, <1>15 DEF Conserves
<1> QED
    BY <1>13, <1>16

\* An import changes the chain, forward or back, and nothing else.
LEMMA ImportsPreserve ==
    ASSUME EngineInv, NEW tip \in Branches, ImportBlock(tip)
    PROVE  EngineInv' /\ Conserves
<1>1. TypeOK /\ UNCHANGED <<poolVars, inFlight, failureVars, accepted, submit, tick>>
    BY DEF EngineInv, ImportBlock
<1>2. nonces' \in [Senders -> Nat] /\ open' \subseteq Frontier /\ settled' \subseteq Frontier
    BY BranchesAssumption DEF ImportBlock
<1>3. TypeOK'
    BY <1>1, <1>2 DEF TypeOK, poolVars, failureVars
<1> QED
    BY <1>1, <1>3, PoolsUntouched

---------------------------------------------------------------------------
(***************************************************************************)
(* The miner.                                                              *)
(***************************************************************************)

GoodTick(k) == k \in Ticks /\ Stage(k) /\ Lanes(k) /\ BelowCutoffs(k)

GoodPool(q) == q \in Seq(Txs) /\ OneSlotEach(q)

\* What a step of the miner that makes no block has to keep.
LEMMA MinerStep ==
    ASSUME EngineInv, UNCHANGED <<chainVars, accepted, submit>>,
           inFlight' \in [transfers : SUBSET Txs, tasks : SUBSET Txs],
           taskFailures' \in [{t \in Txs : t.task} \cup Frontier -> Nat],
           GoodPool(txPool'), GoodPool(taskPool'), GoodTick(tick'), Held' \subseteq Held
    PROVE  /\ EngineInv'
           /\ (\A t \in Held : \/ t \in Held' \/ IsCut(t)
                               \/ \E u \in Held' : Slot(u) = Slot(t)) => Conserves
<1>1. TypeOK /\ Held \subseteq accepted
    BY DEF EngineInv
<1>2. TypeOK'
    BY <1>1 DEF TypeOK, chainVars, GoodPool, GoodTick
<1>3. EngineInv'
    BY <1>1, <1>2 DEF EngineInv, GoodPool, GoodTick
<1> QED
    BY <1>3 DEF Conserves

\* The invariant as the steps of the miner use it.
LEMMA MinerFacts ==
    ASSUME EngineInv
    PROVE  /\ GoodPool(txPool) /\ GoodPool(taskPool) /\ GoodTick(tick)
           /\ inFlight \in [transfers : SUBSET Txs, tasks : SUBSET Txs]
           /\ taskFailures \in [{t \in Txs : t.task} \cup Frontier -> Nat]
    BY DEF EngineInv, TypeOK, GoodPool, GoodTick

LEMMA DrainTransfersPreserves ==
    ASSUME EngineInv, DrainTransfers
    PROVE  EngineInv' /\ Conserves
<1>1. PICK k : k = tick /\ GoodTick(k) /\ tick \in Ticks
    BY MinerFacts DEF GoodTick
<1>2. tick' = TickOf("drainTasks", txPool, tick.work, tick.frontier, tick.failed,
                     tick.mined, tick.proofs, tick.cutoffs, tick.cutting)
    BY <1>1, TickFields DEF DrainTransfers, TickOf
<1>3. tick.transactions = <<>> /\ tick.work = <<>> /\ tick.failed = <<>> /\ tick.mined = <<>>
    BY <1>1 DEF DrainTransfers, GoodTick, Stage
<1>4. GoodTick(tick')
    <2>1. tick' \in Ticks
        BY <1>1, <1>2, TickFields, MinerFacts DEF Ticks, TickOf, Places, GoodPool
    <2>2. Stage(tick') /\ BelowCutoffs(tick')
        BY <1>2, <1>3 DEF Stage, BelowCutoffs, TickOf
    <2>3. Lanes(tick')
        BY <1>2, <1>3, EmptyPool DEF Lanes, TickOf
    <2> QED
        BY <2>1, <2>2, <2>3 DEF GoodTick
<1>5. txPool' = <<>> /\ UNCHANGED <<chainVars, taskPool, inFlight, failureVars, accepted, submit>>
    BY DEF DrainTransfers
<1>6. GoodPool(txPool') /\ GoodPool(taskPool')
    BY <1>5, MinerFacts, EmptyPool DEF GoodPool
<1>7. Held' = Held
    BY <1>2, <1>3, <1>5, EmptyPool DEF Held, Hands, TickOf
<1> QED
    BY <1>4, <1>5, <1>6, <1>7, MinerFacts, MinerStep DEF failureVars

LEMMA DrainTasksPreserves ==
    ASSUME EngineInv, DrainTasks
    PROVE  EngineInv' /\ Conserves
<1>1. PICK k : k = tick /\ GoodTick(k) /\ tick \in Ticks
    BY MinerFacts DEF GoodTick
<1>2. PICK taken : taken = HighestValue(taskPool, MempoolTaskBatch)
    OBVIOUS
<1>3. taken \in Seq(Txs) /\ Elements(taken) \subseteq Elements(taskPool) /\ InSenderOrder(taken)
    BY <1>2, MinerFacts, BatchAssumption, HighestValueTakes DEF GoodPool
<1>4. tick' = TickOf("readFrontier", tick.transactions, taken, tick.frontier, tick.failed,
                     tick.mined, tick.proofs, tick.cutoffs, tick.cutting)
    BY <1>1, <1>2, TickFields DEF DrainTasks, TickOf
<1>5. tick.work = <<>> /\ tick.failed = <<>> /\ tick.mined = <<>>
    BY <1>1 DEF DrainTasks, GoodTick, Stage
<1>6. GoodTick(tick')
    <2>1. tick' \in Ticks
        BY <1>1, <1>3, <1>4, TickFields DEF Ticks, TickOf, Places
    <2>2. Stage(tick') /\ BelowCutoffs(tick')
        BY <1>4, <1>5 DEF Stage, BelowCutoffs, TickOf
    <2>3. Lanes(tick')
        BY <1>3, <1>4, <1>5, EmptyPool DEF Lanes, TickOf
    <2> QED
        BY <2>1, <2>2, <2>3 DEF GoodTick
<1>7. /\ taskPool' = Only(taskPool, Elements(taskPool) \ Elements(taken))
      /\ UNCHANGED <<chainVars, txPool, inFlight, failureVars, accepted, submit>>
    BY <1>2 DEF DrainTasks
<1>8. GoodPool(taskPool') /\ Elements(taskPool') = Elements(taskPool) \ Elements(taken)
    <2>1. PICK S : S = Elements(taskPool) \ Elements(taken)
        OBVIOUS
    <2>2. /\ Only(taskPool, S) \in Seq(Txs) /\ OneSlotEach(Only(taskPool, S))
          /\ Elements(Only(taskPool, S)) = Elements(taskPool) \cap S
        BY MinerFacts, OnlyKeeps DEF GoodPool
    <2> QED
        BY <1>7, <2>1, <2>2 DEF GoodPool
<1>9. Held' = Held
    BY <1>3, <1>4, <1>5, <1>7, <1>8, EmptyPool DEF Held, Hands, TickOf
<1> QED
    BY <1>6, <1>7, <1>8, <1>9, MinerFacts, MinerStep DEF failureVars

LEMMA ReadFrontierPreserves ==
    ASSUME EngineInv, ReadFrontier
    PROVE  EngineInv' /\ Conserves
<1>1. PICK k : k = tick /\ GoodTick(k) /\ tick \in Ticks
    BY MinerFacts DEF GoodTick
<1>2. PICK F : F = open \ Elements(quarantined) /\ F \subseteq Frontier
    BY DEF EngineInv, TypeOK
<1>3. tick' = TickOf("partition", tick.transactions, tick.work, F, tick.failed,
                     tick.mined, tick.proofs, tick.cutoffs, tick.cutting)
    BY <1>1, <1>2, TickFields DEF ReadFrontier, TickOf
<1>4. GoodTick(tick')
    <2>1. tick' \in Ticks
        BY <1>1, <1>2, <1>3, TickFields DEF Ticks, TickOf, Places
    <2>2. tick.failed = <<>> /\ tick.mined = <<>>
        BY <1>1 DEF ReadFrontier, GoodTick, Stage
    <2>3. Stage(tick') /\ BelowCutoffs(tick')
        BY <1>3, <2>2 DEF Stage, BelowCutoffs, TickOf
    <2>4. Lanes(tick')
        BY <1>1, <1>3 DEF GoodTick, Lanes, TickOf
    <2> QED
        BY <2>1, <2>3, <2>4 DEF GoodTick
<1>5. UNCHANGED <<engineVars, submit>>
    BY DEF ReadFrontier
<1>6. Held' = Held
    BY <1>3, <1>5 DEF Held, Hands, TickOf, engineVars, poolVars
<1> QED
    BY <1>4, <1>5, <1>6, MinerFacts, MinerStep DEF engineVars, poolVars, failureVars

\* A pool that takes a batch back.
LEMMA RequeueFacts ==
    ASSUME NEW q, GoodPool(q), NEW batch \in Seq(Txs), NEW r, r = Requeued(q, batch)
    PROVE  /\ GoodPool(r) /\ Elements(r) \subseteq Elements(q) \cup Elements(batch)
           /\ Ample => \A u \in Elements(q) \cup Elements(batch) :
                            \E v \in Elements(r) : Slot(v) = Slot(u)
<1>1. /\ r \in Seq(Txs) /\ OneSlotEach(r)
      /\ Elements(r) \subseteq Elements(q) \cup Elements(batch)
      /\ \A u \in Elements(q) : Occupied(r, u)
      /\ Ample => \A u \in Elements(batch) : Occupied(r, u)
    BY RequeuedKeeps DEF GoodPool
<1> QED
    BY <1>1 DEF GoodPool, Occupied

LEMMA PartitionPreserves ==
    ASSUME EngineInv, NEW own \in Ownerships, Partition(own)
    PROVE  EngineInv' /\ (Ample => Conserves)
<1>1. PICK k : k = tick /\ GoodTick(k) /\ tick \in Ticks
    BY MinerFacts DEF GoodTick
<1>2. PICK owned : owned = Only(tick.work, own)
    OBVIOUS
<1>3. PICK unowned : unowned = Only(tick.work, Elements(tick.work) \ own)
    OBVIOUS
<1>4. PICK F : F = tick.frontier \cap own
    OBVIOUS
<1>5. /\ owned \in Seq(Txs) /\ Elements(owned) = Elements(tick.work) \cap own
      /\ InSenderOrder(owned)
    BY <1>1, <1>2, TickFields, OnlyKeeps DEF GoodTick, Lanes
<1>6. unowned \in Seq(Txs) /\ Elements(unowned) = Elements(tick.work) \ own
    <2>1. PICK S : S = Elements(tick.work) \ own
        OBVIOUS
    <2>2. /\ Only(tick.work, S) \in Seq(Txs)
          /\ Elements(Only(tick.work, S)) = Elements(tick.work) \cap S
        BY <1>1, TickFields, OnlyKeeps
    <2> QED
        BY <1>3, <2>1, <2>2
<1>7. /\ taskPool' = Requeued(taskPool, unowned)
      /\ UNCHANGED <<chainVars, txPool, inFlight, failureVars, accepted, submit>>
    BY <1>3 DEF Partition, FilterWorkItems
<1>8. /\ GoodPool(taskPool')
      /\ Elements(taskPool') \subseteq Elements(taskPool) \cup Elements(unowned)
      /\ Ample => \A u \in Elements(taskPool) \cup Elements(unowned) :
                        \E v \in Elements(taskPool') : Slot(v) = Slot(u)
    BY <1>6, <1>7, MinerFacts, RequeueFacts
<1>9. tick.failed = <<>> /\ tick.mined = <<>>
    BY <1>1 DEF Partition, GoodTick, Stage
<1>10. /\ GoodTick(tick')
       /\ Elements(tick'.transactions) = Elements(tick.transactions)
       /\ Elements(tick'.work) = Elements(owned)
       /\ Elements(tick'.mined) = {} /\ Elements(tick'.failed) = {}
    <2>1. CASE tick.transactions = <<>> /\ owned = <<>> /\ F = {}
        <3>1. tick' = TickOf("idle", <<>>, <<>>, {}, <<>>, <<>>, {}, <<>>, <<>>)
            BY <1>2, <1>4, <2>1 DEF Partition, FilterWorkItems, NoTick, TickOf
        <3>2. GoodTick(tick')
            BY <3>1, NoTickIsFine DEF GoodTick
        <3> QED
            BY <2>1, <3>1, <3>2, EmptyPool DEF TickOf
    <2>2. CASE ~(tick.transactions = <<>> /\ owned = <<>> /\ F = {})
        <3>1. tick' = [tick EXCEPT !.pc = "publish", !.work = owned, !.frontier = F]
            BY <1>2, <1>4, <2>2 DEF Partition, FilterWorkItems
        <3>2. tick' = TickOf("publish", tick.transactions, owned, F, tick.failed,
                             tick.mined, tick.proofs, tick.cutoffs, tick.cutting)
            BY <1>1, <3>1, TickFields DEF TickOf
        <3>3. tick' \in Ticks
            BY <1>1, <1>4, <1>5, <3>2, TickFields DEF Ticks, TickOf, Places
        <3>4. Stage(tick') /\ BelowCutoffs(tick')
            BY <1>9, <3>2 DEF Stage, BelowCutoffs, TickOf
        <3>5. Lanes(tick')
            BY <1>5, <1>9, <3>2, EmptyPool DEF Lanes, TickOf
        <3> QED
            BY <1>9, <3>2, <3>3, <3>4, <3>5, EmptyPool DEF GoodTick, TickOf
    <2> QED
        BY <2>1, <2>2
<1>11. Hands = Elements(tick.transactions) \cup Elements(tick.work)
    BY <1>9, EmptyPool DEF Hands
<1>12. Hands' = Elements(tick.transactions) \cup Elements(owned)
    BY <1>10 DEF Hands
<1>13. Held' \subseteq Held
    BY <1>5, <1>6, <1>7, <1>8, <1>11, <1>12 DEF Held
<1>14. ASSUME Ample, NEW t \in Held PROVE \E u \in Held' : Slot(u) = Slot(t)
    <2>1. CASE t \in Elements(taskPool) \cup Elements(unowned)
        BY <1>8, <1>14, <2>1 DEF Held
    <2>2. CASE t \notin Elements(taskPool) \cup Elements(unowned)
        <3>1. t \in Held'
            BY <1>5, <1>6, <1>7, <1>11, <1>12, <1>14, <2>2 DEF Held
        <3> QED
            BY <3>1
    <2> QED
        BY <2>1, <2>2
<1>15. GoodPool(txPool')
    BY <1>7, MinerFacts
<1> QED
    BY <1>7, <1>8, <1>10, <1>13, <1>14, <1>15, MinerFacts, MinerStep DEF failureVars

LEMMA PublishPreserves ==
    ASSUME EngineInv, PublishInFlight \/ PublishMined
    PROVE  EngineInv' /\ Conserves
<1>1. PICK k : k = tick /\ GoodTick(k) /\ tick \in Ticks
    BY MinerFacts DEF GoodTick
<1>2. PICK pc : tick' = [tick EXCEPT !.pc = pc] /\
        \/ tick.pc = "publish" /\ pc = "crawl"
        \/ tick.pc = "publishMined" /\ pc = "mine"
        \/ tick.pc = "publishMined" /\ pc = "clear" /\ BlockTransactions = <<>>
    BY DEF PublishInFlight, PublishMined
<1>3. tick' = TickOf(pc, tick.transactions, tick.work, tick.frontier, tick.failed,
                     tick.mined, tick.proofs, tick.cutoffs, tick.cutting)
    BY <1>1, <1>2, TickFields DEF TickOf
<1>4. pc = "clear" => tick.transactions = <<>> /\ tick.mined = <<>>
    BY <1>1, <1>2, TickFields DEF BlockTransactions
<1>5. GoodTick(tick')
    <2>1. tick' \in Ticks
        BY <1>1, <1>2, <1>3, TickFields DEF Ticks, TickOf, Places
    <2>2. Stage(tick)
        BY <1>1 DEF GoodTick
    <2>3. Stage(tick')
        BY <1>2, <1>3, <1>4, <2>2 DEF Stage, TickOf
    <2>4. Lanes(tick')
        BY <1>1, <1>3 DEF GoodTick, Lanes, TickOf
    <2>5. BelowCutoffs(tick')
        BY <1>1, <1>2, <1>3 DEF GoodTick, BelowCutoffs, TickOf
    <2> QED
        BY <2>1, <2>3, <2>4, <2>5 DEF GoodTick
<1>6. UNCHANGED <<chainVars, poolVars, failureVars, accepted, submit>>
    BY DEF PublishInFlight, PublishMined
<1>7. inFlight' \in [transfers : SUBSET Txs, tasks : SUBSET Txs]
    <2>1. /\ Elements(tick.transactions) \subseteq Txs /\ Elements(tick.work) \subseteq Txs
          /\ Elements(tick.mined) \subseteq Txs
        BY <1>1, TickFields, PoolElements
    <2> QED
        BY <2>1 DEF PublishInFlight, PublishMined
<1>8. Held' = Held
    BY <1>3, <1>6 DEF Held, Hands, TickOf, poolVars
<1> QED
    BY <1>5, <1>6, <1>7, <1>8, MinerFacts, MinerStep DEF poolVars, failureVars

\* What a cut of s takes from a pool is cut.
LEMMA CutFacts ==
    ASSUME NEW q, GoodPool(q), tick \in Ticks, NEW s \in DOMAIN tick.cutoffs
    PROVE  /\ GoodPool(Uncut(q, s)) /\ Elements(Uncut(q, s)) \subseteq Elements(q)
           /\ \A t \in Elements(q) : t \in Elements(Uncut(q, s)) \/ ~BelowCutoff(tick.cutoffs, t)
<1>1. PICK A : A = FromCutoff(q, s) /\ A \subseteq Elements(q)
    BY DEF FromCutoff
<1>2. PICK B : B = Elements(q) \ A
    OBVIOUS
<1>3. Uncut(q, s) = Only(q, B)
    BY <1>1, <1>2 DEF Uncut
<1>4. /\ Only(q, B) \in Seq(Txs) /\ OneSlotEach(Only(q, B))
      /\ Elements(Only(q, B)) = Elements(q) \cap B
    BY OnlyKeeps DEF GoodPool
<1>5. tick.cutoffs[s] \in Nat
    BY TickFields DEF Cutoffs
<1>6. ASSUME NEW t \in A PROVE ~BelowCutoff(tick.cutoffs, t)
    <2>1. t.from = s /\ t.nonce >= tick.cutoffs[s] /\ t \in Txs
        BY <1>1, PoolElements DEF FromCutoff, GoodPool
    <2>2. t.nonce \in Nat
        BY <2>1, TxFacts
    <2>3. ~(t.nonce < tick.cutoffs[s])
        BY <1>5, <2>1, <2>2
    <2> QED
        BY <2>1, <2>3 DEF BelowCutoff
<1> QED
    BY <1>2, <1>3, <1>4, <1>6 DEF GoodPool

\* The senders that are still to be cut have a cutoff.
LEMMA HeadIsCut ==
    ASSUME EngineInv, tick.pc \in {"cutTasks", "cutTransfers"}
    PROVE  /\ tick.cutting # <<>> /\ Head(tick.cutting) \in DOMAIN tick.cutoffs
           /\ Tail(tick.cutting) \in Seq(Senders) /\ Tail(tick.cutting) \in Seq(DOMAIN tick.cutoffs)
<1>1. PICK D : D = DOMAIN tick.cutoffs
    OBVIOUS
<1>2. PICK c \in Seq(D) : c = tick.cutting /\ c # <<>>
    BY <1>1 DEF EngineInv, Stage
<1>3. PICK d \in Seq(Senders) : d = tick.cutting
    BY TickFields DEF EngineInv, TypeOK
<1>4. Head(c) \in D /\ Tail(c) \in Seq(D)
    BY <1>2
<1>5. Tail(d) \in Seq(Senders)
    BY <1>2, <1>3
<1> QED
    BY <1>1, <1>2, <1>3, <1>4, <1>5

LEMMA CutTasksPreserves ==
    ASSUME EngineInv, CutTasks
    PROVE  EngineInv' /\ Conserves
<1>1. PICK k : k = tick /\ GoodTick(k) /\ tick \in Ticks
    BY MinerFacts DEF GoodTick
<1>2. PICK s \in DOMAIN tick.cutoffs : s = Head(tick.cutting)
    BY HeadIsCut DEF CutTasks
<1>3. tick' = TickOf("cutTransfers", tick.transactions, tick.work, tick.frontier, tick.failed,
                     tick.mined, tick.proofs, tick.cutoffs, tick.cutting)
    BY <1>1, TickFields DEF CutTasks, TickOf
<1>4. /\ tick.pc = "cutTasks" /\ tick.cutting # <<>> /\ tick.work = <<>>
      /\ tick.cutting \in Seq(DOMAIN tick.cutoffs)
    BY <1>1 DEF CutTasks, GoodTick, Stage
<1>5. GoodTick(tick')
    <2>1. tick' \in Ticks
        BY <1>1, <1>3, TickFields DEF Ticks, TickOf, Places
    <2>2. Stage(tick')
        BY <1>3, <1>4 DEF Stage, TickOf
    <2>3. Lanes(tick') /\ BelowCutoffs(tick')
        BY <1>1, <1>3, <1>4 DEF GoodTick, Lanes, BelowCutoffs, TickOf
    <2> QED
        BY <2>1, <2>2, <2>3 DEF GoodTick
<1>6. /\ taskPool' = Uncut(taskPool, s)
      /\ UNCHANGED <<chainVars, txPool, inFlight, taskFailures, accepted, submit>>
    BY <1>2 DEF CutTasks
<1>7. /\ GoodPool(taskPool') /\ Elements(taskPool') \subseteq Elements(taskPool)
      /\ \A t \in Elements(taskPool) :
            t \in Elements(taskPool') \/ ~BelowCutoff(tick.cutoffs, t)
    BY <1>1, <1>6, MinerFacts, CutFacts
<1>8. Hands' = Hands
    BY <1>3 DEF Hands, TickOf
<1>9. tick' # tick /\ tick'.cutoffs = tick.cutoffs
    BY <1>3, <1>4 DEF TickOf
<1>10. Held' \subseteq Held /\ \A t \in Held : t \in Held' \/ IsCut(t)
    BY <1>4, <1>6, <1>7, <1>8, <1>9 DEF Held, IsCut
<1> QED
    BY <1>5, <1>6, <1>7, <1>10, MinerFacts, MinerStep

LEMMA CutTransfersPreserves ==
    ASSUME EngineInv, CutTransfers
    PROVE  EngineInv' /\ Conserves
<1>1. PICK k : k = tick /\ GoodTick(k) /\ tick \in Ticks
    BY MinerFacts DEF GoodTick
<1>2. PICK s \in DOMAIN tick.cutoffs : s = Head(tick.cutting)
    BY HeadIsCut DEF CutTransfers
<1>3. PICK rest : rest = Tail(tick.cutting)
    OBVIOUS
<1>4. tick.pc = "cutTransfers" /\ tick.work = <<>>
    BY <1>1 DEF CutTransfers, GoodTick, Stage
<1>5. rest \in Seq(Senders) /\ rest \in Seq(DOMAIN tick.cutoffs)
    BY <1>3, <1>4, HeadIsCut
<1>6. PICK pc : pc = IF rest = <<>> THEN "requeueFailed" ELSE "cutTasks"
    OBVIOUS
<1>7. tick' = TickOf(pc, tick.transactions, tick.work, tick.frontier, tick.failed,
                     tick.mined, tick.proofs, tick.cutoffs, rest)
    BY <1>1, <1>3, <1>6, TickFields DEF CutTransfers, TickOf
<1>8. GoodTick(tick')
    <2>1. tick' \in Ticks
        BY <1>1, <1>5, <1>6, <1>7, TickFields DEF Ticks, TickOf, Places
    <2>2. Stage(tick)
        BY <1>1 DEF GoodTick
    <2>3. Stage(tick')
        BY <1>4, <1>5, <1>6, <1>7, <2>2 DEF Stage, TickOf
    <2>4. Lanes(tick')
        BY <1>1, <1>7 DEF GoodTick, Lanes, TickOf
    <2>5. BelowCutoffs(tick')
        BY <1>1, <1>4, <1>7 DEF GoodTick, BelowCutoffs, TickOf
    <2> QED
        BY <2>1, <2>3, <2>4, <2>5 DEF GoodTick
<1>9. /\ txPool' = Uncut(txPool, s)
      /\ UNCHANGED <<chainVars, taskPool, inFlight, failureVars, accepted, submit>>
    BY <1>2 DEF CutTransfers
<1>10. /\ GoodPool(txPool') /\ Elements(txPool') \subseteq Elements(txPool)
       /\ \A t \in Elements(txPool) : t \in Elements(txPool') \/ ~BelowCutoff(tick.cutoffs, t)
    BY <1>1, <1>9, MinerFacts, CutFacts
<1>11. Hands' = Hands
    BY <1>7 DEF Hands, TickOf
<1>12. tick' # tick /\ tick'.cutoffs = tick.cutoffs
    BY <1>4, <1>6, <1>7 DEF TickOf
<1>13. Held' \subseteq Held /\ \A t \in Held : t \in Held' \/ IsCut(t)
    BY <1>4, <1>9, <1>10, <1>11, <1>12 DEF Held, IsCut
<1> QED
    BY <1>8, <1>9, <1>10, <1>13, MinerFacts, MinerStep DEF failureVars

LEMMA RequeueFailedPreserves ==
    ASSUME EngineInv, RequeueFailed
    PROVE  EngineInv' /\ (Ample => Conserves)
<1>1. PICK k : k = tick /\ GoodTick(k) /\ tick \in Ticks
    BY MinerFacts DEF GoodTick
<1>2. tick' = TickOf("publishMined", tick.transactions, tick.work, tick.frontier, <<>>,
                     tick.mined, tick.proofs, tick.cutoffs, tick.cutting)
    BY <1>1, TickFields DEF RequeueFailed, TickOf
<1>3. tick.pc = "requeueFailed" /\ tick.work = <<>>
    BY <1>1 DEF RequeueFailed, GoodTick, Stage
<1>4. GoodTick(tick')
    <2>1. tick' \in Ticks
        BY <1>1, <1>2, TickFields, EmptyPool DEF Ticks, TickOf, Places
    <2>2. Stage(tick')
        BY <1>2, <1>3 DEF Stage, TickOf
    <2>3. Lanes(tick')
        BY <1>1, <1>2, EmptyPool DEF GoodTick, Lanes, TickOf
    <2>4. BelowCutoffs(tick')
        BY <1>1, <1>2, <1>3 DEF GoodTick, BelowCutoffs, TickOf
    <2> QED
        BY <2>1, <2>2, <2>3, <2>4 DEF GoodTick
<1>5. /\ taskPool' = Requeued(taskPool, tick.failed)
      /\ UNCHANGED <<chainVars, txPool, inFlight, failureVars, accepted, submit>>
    BY DEF RequeueFailed
<1>6. /\ GoodPool(taskPool')
      /\ Elements(taskPool') \subseteq Elements(taskPool) \cup Elements(tick.failed)
      /\ Ample => \A u \in Elements(taskPool) \cup Elements(tick.failed) :
                        \E v \in Elements(taskPool') : Slot(v) = Slot(u)
    BY <1>1, <1>5, TickFields, MinerFacts, RequeueFacts
<1>7. /\ Hands' \cup Elements(tick.failed) = Hands
    BY <1>2, <1>3, EmptyPool DEF Hands, TickOf
<1>8. Held' \subseteq Held
    BY <1>5, <1>6, <1>7 DEF Held
<1>9. ASSUME Ample, NEW t \in Held PROVE \E u \in Held' : Slot(u) = Slot(t)
    <2>1. CASE t \in Elements(taskPool) \cup Elements(tick.failed)
        BY <1>6, <1>9, <2>1 DEF Held
    <2>2. CASE t \notin Elements(taskPool) \cup Elements(tick.failed)
        <3>1. t \in Held'
            BY <1>5, <1>7, <1>9, <2>2 DEF Held
        <3> QED
            BY <3>1
    <2> QED
        BY <2>1, <2>2
<1>10. GoodPool(txPool')
    BY <1>5, MinerFacts
<1> QED
    BY <1>4, <1>5, <1>6, <1>8, <1>9, <1>10, MinerFacts, MinerStep DEF failureVars

LEMMA RequeueTransfersPreserves ==
    ASSUME EngineInv, RequeueTransfers
    PROVE  EngineInv' /\ (Ample => Conserves)
<1>1. PICK k : k = tick /\ GoodTick(k) /\ tick \in Ticks
    BY MinerFacts DEF GoodTick
<1>2. tick' = TickOf("requeueTasks", <<>>, tick.work, tick.frontier, tick.failed,
                     tick.mined, tick.proofs, tick.cutoffs, tick.cutting)
    BY <1>1, TickFields DEF RequeueTransfers, TickOf
<1>3. tick.pc = "requeueTransfers" /\ tick.work = <<>> /\ tick.failed = <<>>
    BY <1>1 DEF RequeueTransfers, GoodTick, Stage
<1>4. GoodTick(tick')
    <2>1. tick' \in Ticks
        BY <1>1, <1>2, TickFields, EmptyPool DEF Ticks, TickOf, Places
    <2>2. Stage(tick') /\ BelowCutoffs(tick')
        BY <1>2, <1>3 DEF Stage, BelowCutoffs, TickOf
    <2>3. Lanes(tick')
        BY <1>1, <1>2, EmptyPool DEF GoodTick, Lanes, TickOf
    <2> QED
        BY <2>1, <2>2, <2>3 DEF GoodTick
<1>5. /\ txPool' = Requeued(txPool, tick.transactions)
      /\ UNCHANGED <<chainVars, taskPool, inFlight, failureVars, accepted, submit>>
    BY DEF RequeueTransfers
<1>6. /\ GoodPool(txPool')
      /\ Elements(txPool') \subseteq Elements(txPool) \cup Elements(tick.transactions)
      /\ Ample => \A u \in Elements(txPool) \cup Elements(tick.transactions) :
                        \E v \in Elements(txPool') : Slot(v) = Slot(u)
    BY <1>1, <1>5, TickFields, MinerFacts, RequeueFacts
<1>7. /\ Hands' \cup Elements(tick.transactions) = Hands
    BY <1>2, <1>3, EmptyPool DEF Hands, TickOf
<1>8. Held' \subseteq Held
    BY <1>5, <1>6, <1>7 DEF Held
<1>9. ASSUME Ample, NEW t \in Held PROVE \E u \in Held' : Slot(u) = Slot(t)
    <2>1. CASE t \in Elements(txPool) \cup Elements(tick.transactions)
        BY <1>6, <1>9, <2>1 DEF Held
    <2>2. CASE t \notin Elements(txPool) \cup Elements(tick.transactions)
        <3>1. t \in Held'
            BY <1>5, <1>7, <1>9, <2>2 DEF Held
        <3> QED
            BY <3>1
    <2> QED
        BY <2>1, <2>2
<1>10. GoodPool(taskPool')
    BY <1>5, MinerFacts
<1> QED
    BY <1>4, <1>5, <1>6, <1>8, <1>9, <1>10, MinerFacts, MinerStep DEF failureVars

LEMMA RequeueTasksPreserves ==
    ASSUME EngineInv, RequeueTasks
    PROVE  EngineInv' /\ (Ample => Conserves)
<1>1. PICK k : k = tick /\ GoodTick(k) /\ tick \in Ticks
    BY MinerFacts DEF GoodTick
<1>2. tick' = TickOf("clear", <<>>, <<>>, {}, <<>>, <<>>, {}, <<>>, <<>>)
    BY DEF RequeueTasks, NoTick, TickOf
<1>3. tick.transactions = <<>> /\ tick.work = <<>> /\ tick.failed = <<>>
    BY <1>1 DEF RequeueTasks, GoodTick, Stage
<1>4. GoodTick(tick')
    BY <1>2, NoTickIsFine DEF GoodTick
<1>5. /\ taskPool' = Requeued(taskPool, tick.mined)
      /\ UNCHANGED <<chainVars, txPool, inFlight, failureVars, accepted, submit>>
    BY DEF RequeueTasks
<1>6. /\ GoodPool(taskPool')
      /\ Elements(taskPool') \subseteq Elements(taskPool) \cup Elements(tick.mined)
      /\ Ample => \A u \in Elements(taskPool) \cup Elements(tick.mined) :
                        \E v \in Elements(taskPool') : Slot(v) = Slot(u)
    BY <1>1, <1>5, TickFields, MinerFacts, RequeueFacts
<1>7. Hands' = {} /\ Hands = Elements(tick.mined)
    BY <1>2, <1>3, EmptyPool DEF Hands, TickOf
<1>8. Held' \subseteq Held
    BY <1>5, <1>6, <1>7 DEF Held
<1>9. ASSUME Ample, NEW t \in Held PROVE \E u \in Held' : Slot(u) = Slot(t)
    <2>1. CASE t \in Elements(taskPool) \cup Elements(tick.mined)
        BY <1>6, <1>9, <2>1 DEF Held
    <2>2. CASE t \notin Elements(taskPool) \cup Elements(tick.mined)
        <3>1. t \in Held'
            BY <1>5, <1>7, <1>9, <2>2 DEF Held
        <3> QED
            BY <3>1
    <2> QED
        BY <2>1, <2>2
<1>10. GoodPool(txPool')
    BY <1>5, MinerFacts
<1> QED
    BY <1>4, <1>5, <1>6, <1>8, <1>9, <1>10, MinerFacts, MinerStep DEF failureVars

LEMMA ClearPreserves ==
    ASSUME EngineInv, ClearInFlight
    PROVE  EngineInv' /\ Conserves
<1>1. PICK k : k = tick /\ GoodTick(k) /\ tick \in Ticks
    BY MinerFacts DEF GoodTick
<1>2. tick' = TickOf("idle", <<>>, <<>>, {}, <<>>, <<>>, {}, <<>>, <<>>)
    BY DEF ClearInFlight, NoTick, TickOf
<1>3. /\ tick.transactions = <<>> /\ tick.work = <<>> /\ tick.failed = <<>>
      /\ tick.mined = <<>>
    BY <1>1 DEF ClearInFlight, GoodTick, Stage
<1>4. GoodTick(tick')
    BY <1>2, NoTickIsFine DEF GoodTick
<1>5. /\ inFlight' \in [transfers : SUBSET Txs, tasks : SUBSET Txs]
      /\ UNCHANGED <<chainVars, poolVars, failureVars, accepted, submit>>
    BY DEF ClearInFlight, NothingInFlight
<1>6. Held' = Held
    BY <1>2, <1>3, <1>5, EmptyPool DEF Held, Hands, TickOf, poolVars
<1> QED
    BY <1>4, <1>5, <1>6, MinerFacts, MinerStep DEF poolVars, failureVars

\* The nonces after a block are nonces.
LEMMA NoncesAfterBlock ==
    ASSUME NEW block \in Seq(Txs), nonces \in [Senders -> Nat]
    PROVE  NoncesAfter(block) \in [Senders -> Nat]
<1>1. PICK n \in Nat : n = Len(block) /\ DOMAIN block = 1 .. n
    OBVIOUS
<1>2. ASSUME NEW s \in Senders PROVE Cardinality(FromSender(block, s)) \in Nat
    <2>1. FromSender(block, s) \in SUBSET (1 .. n) /\ IsFiniteSet(1 .. n)
        BY <1>1, IntervalSize DEF FromSender
    <2> QED
        BY <2>1, FS_Subset, FS_CardinalityType
<1> QED
    BY <1>2 DEF NoncesAfter

LEMMA MineBlockPreserves ==
    ASSUME EngineInv, MineBlock
    PROVE  EngineInv' /\ Conserves
<1>1. PICK k : k = tick /\ GoodTick(k) /\ tick \in Ticks
    BY MinerFacts DEF GoodTick
<1>2. /\ tick.pc = "mine" /\ tick.work = <<>> /\ tick.failed = <<>>
      /\ UNCHANGED <<poolVars, inFlight, failureVars, accepted, submit>>
    BY <1>1 DEF MineBlock, GoodTick, Stage
<1>3. PICK block : block = BlockTransactions
    OBVIOUS
<1>4. block \in Seq(Txs) /\ Elements(block) = Elements(tick.transactions) \cup Elements(tick.mined)
    BY <1>1, <1>3, TickFields, ConcatElements DEF BlockTransactions
<1>5. Hands = Elements(block)
    BY <1>2, <1>4, EmptyPool DEF Hands
<1>6. TypeOK /\ Held \subseteq accepted
    BY DEF EngineInv
\* The block becomes the tip.
<1>7. CASE tick'.pc = "clear"
    <2>1. PICK spawned \in Spawns :
            /\ nonces' = NoncesAfter(block)
            /\ open' = (open \ tick.proofs) \cup spawned
            /\ settled' = settled \cup tick.proofs
            /\ tick' = [NoTick EXCEPT !.pc = "clear"]
        <3>1. tick' # [tick EXCEPT !.pc = "requeueTransfers", !.proofs = {}, !.cutoffs = <<>>]
            BY <1>1, <1>7, TickFields DEF TickOf
        <3> QED
            BY <1>3, <3>1 DEF MineBlock
    <2>2. tick' = TickOf("clear", <<>>, <<>>, {}, <<>>, <<>>, {}, <<>>, <<>>)
        BY <2>1 DEF NoTick, TickOf
    <2>3. GoodTick(tick')
        BY <2>2, NoTickIsFine DEF GoodTick
    <2>4. nonces' \in [Senders -> Nat]
        BY <1>4, <1>6, <2>1, NoncesAfterBlock DEF TypeOK
    <2>5. open' \subseteq Frontier /\ settled' \subseteq Frontier
        <3>1. spawned \subseteq Frontier /\ tick.proofs \subseteq Frontier
            BY <1>1, TickFields DEF Spawns
        <3> QED
            BY <1>6, <2>1, <3>1 DEF TypeOK
    <2>6. TypeOK'
        BY <1>2, <1>6, <2>3, <2>4, <2>5 DEF TypeOK, poolVars, failureVars, GoodTick
    <2>7. Hands' = {}
        BY <2>2, EmptyPool DEF Hands, TickOf
    <2>8. Held' \subseteq Held /\ \A t \in Held : t \in Held' \/ IsMined(t)
        BY <1>2, <1>3, <1>5, <1>7, <2>7 DEF Held, poolVars, IsMined
    <2>9. EngineInv'
        BY <1>2, <1>6, <2>3, <2>6, <2>8 DEF EngineInv, poolVars, GoodTick
    <2> QED
        BY <1>2, <2>8, <2>9 DEF Conserves
\* It is refused.
<1>8. CASE tick'.pc # "clear"
    <2>1. tick' = [tick EXCEPT !.pc = "requeueTransfers", !.proofs = {}, !.cutoffs = <<>>]
          /\ UNCHANGED chainVars
        <3>1. [NoTick EXCEPT !.pc = "clear"].pc = "clear"
            BY DEF NoTick
        <3> QED
            BY <1>8, <3>1 DEF MineBlock
    <2>2. tick' = TickOf("requeueTransfers", tick.transactions, tick.work, tick.frontier,
                         tick.failed, tick.mined, {}, <<>>, tick.cutting)
        BY <1>1, <2>1, TickFields DEF TickOf
    <2>3. <<>> \in Cutoffs
        <3>1. <<>> \in [{} -> Nat] /\ {} \in SUBSET Senders
            OBVIOUS
        <3> QED
            BY <3>1 DEF Cutoffs
    <2>4. GoodTick(tick')
        <3>1. tick' \in Ticks
            BY <1>1, <2>2, <2>3, TickFields DEF Ticks, TickOf, Places
        <3>2. Stage(tick') /\ BelowCutoffs(tick')
            BY <1>2, <2>2 DEF Stage, BelowCutoffs, TickOf
        <3>3. Lanes(tick')
            BY <1>1, <2>2 DEF GoodTick, Lanes, TickOf
        <3> QED
            BY <3>1, <3>2, <3>3 DEF GoodTick
    <2>5. Held' = Held
        BY <1>2, <2>2 DEF Held, Hands, TickOf, poolVars
    <2> QED
        BY <1>2, <2>1, <2>4, <2>5, MinerFacts, MinerStep DEF poolVars, failureVars
<1> QED
    BY <1>7, <1>8

\* What a crawl leaves of the lanes: an earlier task of a sender succeeded
\* when a later one did, so that what succeeded is below what did not.
LEMMA LaneOrder ==
    ASSUME tick.work \in Seq(Txs), InSenderOrder(tick.work), NEW out, LaneOutcomes(out),
           NEW t \in Elements(tick.work), NEW u \in Elements(tick.work),
           out[t] = "ok", out[u] # "ok", t.from = u.from
    PROVE  t.nonce < u.nonce
<1>1. PICK n \in Nat : n = Len(tick.work) /\ DOMAIN tick.work = 1 .. n
    OBVIOUS
<1>2. PICK i \in 1 .. n : t = tick.work[i]
    BY <1>1 DEF Elements
<1>3. PICK j \in 1 .. n : u = tick.work[j]
    BY <1>1 DEF Elements
<1>4. i # j
    BY <1>2, <1>3
<1>5. ~(j < i)
    <2>1. SUFFICES ASSUME j < i PROVE FALSE
        OBVIOUS
    <2>2. j \in 1 .. i - 1
        BY <2>1
    <2>3. out[tick.work[i]] = "blocked"
        BY <1>1, <1>2, <1>3, <2>2 DEF LaneOutcomes
    <2> QED
        BY <1>2, <2>3
<1>6. i < j
    BY <1>4, <1>5
<1> QED
    BY <1>1, <1>2, <1>3, <1>6 DEF InSenderOrder

\* A task that failed comes before those of its sender that it held back.
LEMMA BlockedIsAbove ==
    ASSUME tick.work \in Seq(Txs), InSenderOrder(tick.work), NEW out, LaneOutcomes(out),
           NEW t \in Elements(tick.work), NEW u \in Elements(tick.work),
           out[t] = "blocked", out[u] # "ok", out[u] # "blocked", t.from = u.from
    PROVE  u.nonce < t.nonce
<1>1. PICK n \in Nat : n = Len(tick.work) /\ DOMAIN tick.work = 1 .. n
    OBVIOUS
<1>2. PICK i \in 1 .. n : t = tick.work[i]
    BY <1>1 DEF Elements
<1>3. PICK j \in 1 .. n : u = tick.work[j]
    BY <1>1 DEF Elements
<1>4. i # j
    BY <1>2, <1>3
<1>5. ~(i < j)
    <2>1. SUFFICES ASSUME i < j PROVE FALSE
        OBVIOUS
    <2>2. i \in 1 .. j - 1 /\ out[tick.work[i]] # "ok"
        BY <1>2, <2>1
    <2>3. out[tick.work[j]] = "blocked"
        BY <1>1, <1>2, <1>3, <2>2 DEF LaneOutcomes
    <2> QED
        BY <1>3, <2>3
<1>6. j < i
    BY <1>4, <1>5
<1> QED
    BY <1>1, <1>2, <1>3, <1>6 DEF InSenderOrder

\* The cutoff of a sender is the lowest nonce of its tasks in bad.
LEMMA CutoffIsTaken ==
    ASSUME NEW bad \in SUBSET Txs, NEW s \in {t.from : t \in bad}
    PROVE  /\ \E u \in bad : u.from = s /\ QuarantineCutoffs(bad)[s] = u.nonce
           /\ \A u \in bad : u.from = s => QuarantineCutoffs(bad)[s] <= u.nonce
<1>1. PICK N : N = {t.nonce : t \in OfSender(bad, s)}
    OBVIOUS
<1>2. N \subseteq Nat /\ N # {}
    BY <1>1, TxFacts DEF OfSender
<1>3. PICK n \in N : \A m \in N : n <= m
    BY <1>2, LeastNatural
<1>4. \E m \in N : \A u \in OfSender(bad, s) : m <= u.nonce
    BY <1>1, <1>3
<1>5. /\ QuarantineCutoffs(bad)[s] \in N
      /\ \A u \in OfSender(bad, s) : QuarantineCutoffs(bad)[s] <= u.nonce
    BY <1>1, <1>4 DEF QuarantineCutoffs
<1> QED
    BY <1>1, <1>5 DEF OfSender

\* The senders of finitely many tasks, in some order.
LEMMA SenderOrders ==
    ASSUME NEW bad \in SUBSET Txs, IsFiniteSet(bad), NEW D, D = {t.from : t \in bad},
           NEW order \in OrdersOf(D)
    PROVE  order \in Seq(D) /\ order \in Seq(Senders)
<1>1. PICK g : g = [t \in bad |-> t.from]
    OBVIOUS
<1>2. g \in Surjection(bad, D)
    BY <1>1 DEF Surjection
<1>3. IsFiniteSet(D) /\ Cardinality(D) \in Nat
    BY <1>2, FS_Surjection, FS_CardinalityType
<1>4. D \subseteq Senders
    BY TxFacts
<1>5. PICK n \in Nat : n = Cardinality(D)
    BY <1>3
<1>6. order \in [1 .. n -> D]
    BY <1>5 DEF OrdersOf
<1>7. PICK o : o = [i \in 1 .. n |-> order[i]]
    OBVIOUS
<1>8. o \in Seq(D) /\ o \in Seq(Senders)
    <2>1. \A i \in 1 .. n : order[i] \in D /\ order[i] \in Senders
        BY <1>4, <1>6
    <2> QED
        BY <1>7, <2>1
<1>9. order = o
    BY <1>6, <1>7
<1> QED
    BY <1>8, <1>9

(***************************************************************************)
(* The crawl.  What succeeded is mined, what failed goes back or is set    *)
(* aside, and nothing of a sender stays from its lowest quarantined nonce  *)
(* on.                                                                     *)
(***************************************************************************)
LEMMA CrawlPreserves ==
    ASSUME EngineInv, NEW out \in Outcomes, Crawl(out)
    PROVE  EngineInv' /\ Conserves
<1>1. PICK k : k = tick /\ GoodTick(k) /\ tick \in Ticks
    BY MinerFacts DEF GoodTick
<1>2. PICK bad : bad = Unminable(out)
    OBVIOUS
<1>3. PICK cutoffs : cutoffs = QuarantineCutoffs(bad)
    OBVIOUS
<1>4. PICK aside : aside = Aside(out)
    OBVIOUS
<1>5. PICK kept : kept = FilterTransactions(cutoffs, tick.transactions)
    OBVIOUS
<1>6. PICK mined : mined = Only(tick.work, {t \in Elements(tick.work) : out[t] = "ok"})
    OBVIOUS
<1>7. PICK failed :
        failed = Only(tick.work, {t \in Elements(tick.work) : out[t] # "ok"} \ aside)
    OBVIOUS
<1>8. PICK proofs : proofs = {f \in tick.frontier : out[f] = "ok"}
    OBVIOUS
<1>9. PICK order \in OrdersOf(DOMAIN cutoffs) :
        tick' = [tick EXCEPT
                    !.pc = IF order = <<>> THEN "requeueFailed" ELSE "cutTasks",
                    !.transactions = kept, !.work = <<>>, !.frontier = {},
                    !.failed = failed, !.mined = mined, !.proofs = proofs,
                    !.cutoffs = cutoffs, !.cutting = order]
    BY <1>2, <1>3, <1>4, <1>5, <1>6, <1>7, <1>8 DEF Crawl
<1>11. /\ tick.pc = "crawl" /\ LaneOutcomes(out)
       /\ UNCHANGED <<chainVars, poolVars, inFlight, accepted, submit>>
    BY DEF Crawl
<1>12. PICK pc \in {"requeueFailed", "cutTasks"} :
        pc = IF order = <<>> THEN "requeueFailed" ELSE "cutTasks"
    OBVIOUS
<1>13. tick' = TickOf(pc, kept, <<>>, {}, failed, mined, proofs, cutoffs, order)
    BY <1>1, <1>9, <1>12, TickFields DEF TickOf
\* What the sets and sequences hold.
<1>14. /\ tick.work \in Seq(Txs) /\ InSenderOrder(tick.work) /\ tick.transactions \in Seq(Txs)
       /\ Elements(tick.work) \subseteq Txs /\ tick.failed = <<>> /\ tick.mined = <<>>
       /\ Elements(tick.transactions) \subseteq Txs
    BY <1>1, <1>11, TickFields, PoolElements DEF GoodTick, Stage, Lanes
<1>15. /\ bad \subseteq Elements(tick.work) /\ bad \in SUBSET Txs
       /\ \A t \in bad : out[t] # "ok" /\ out[t] # "blocked"
    BY <1>2, <1>14 DEF Unminable, Quarantines
<1>16. DOMAIN cutoffs = {t.from : t \in bad}
    BY <1>3 DEF QuarantineCutoffs
<1>17. aside = bad \cup {t \in Elements(tick.work) : out[t] = "blocked" /\ t.from \in DOMAIN cutoffs}
    BY <1>2, <1>3, <1>4 DEF Aside
<1>18. /\ mined \in Seq(Txs) /\ InSenderOrder(mined)
       /\ \A t \in Elements(mined) : t \in Elements(tick.work) /\ out[t] = "ok"
       /\ \A t \in Elements(tick.work) : out[t] = "ok" => t \in Elements(mined)
    <2>1. PICK S : S = {t \in Elements(tick.work) : out[t] = "ok"}
        OBVIOUS
    <2>2. /\ Only(tick.work, S) \in Seq(Txs) /\ InSenderOrder(Only(tick.work, S))
          /\ Elements(Only(tick.work, S)) = Elements(tick.work) \cap S
        BY <1>14, OnlyKeeps
    <2> QED
        BY <1>6, <2>1, <2>2
<1>19. /\ failed \in Seq(Txs)
       /\ \A t \in Elements(failed) : t \in Elements(tick.work) /\ out[t] # "ok"
       /\ \A t \in Elements(tick.work) : out[t] # "ok" => t \in Elements(failed) \cup aside
    <2>1. PICK S : S = {t \in Elements(tick.work) : out[t] # "ok"} \ aside
        OBVIOUS
    <2>2. /\ Only(tick.work, S) \in Seq(Txs)
          /\ Elements(Only(tick.work, S)) = Elements(tick.work) \cap S
        BY <1>14, OnlyKeeps
    <2> QED
        BY <1>7, <2>1, <2>2
<1>20. /\ kept \in Seq(Txs) /\ Elements(kept) \subseteq Elements(tick.transactions)
       /\ \A t \in Elements(kept) : BelowCutoff(cutoffs, t)
       /\ \A t \in Elements(tick.transactions) :
            BelowCutoff(cutoffs, t) => t \in Elements(kept)
    <2>1. PICK S : S = {t \in Elements(tick.transactions) : BelowCutoff(cutoffs, t)}
        OBVIOUS
    <2>2. /\ Only(tick.transactions, S) \in Seq(Txs)
          /\ Elements(Only(tick.transactions, S)) = Elements(tick.transactions) \cap S
        BY <1>14, OnlyKeeps
    <2> QED
        BY <1>5, <2>1, <2>2 DEF FilterTransactions
\* The parts of the invariant.
<1>21. cutoffs \in Cutoffs
    <2>1. PICK D : D = {t.from : t \in bad}
        OBVIOUS
    <2>2. D \in SUBSET Senders
        BY <1>15, <2>1, TxFacts
    <2>3. \A s \in D : cutoffs[s] \in Nat
        <3>1. ASSUME NEW s \in D PROVE cutoffs[s] \in Nat
            <4>1. s \in {t.from : t \in bad}
                BY <2>1
            <4>2. PICK u \in bad : QuarantineCutoffs(bad)[s] = u.nonce
                BY <1>15, <4>1, CutoffIsTaken
            <4> QED
                BY <1>3, <1>15, <4>2, TxFacts
        <3> QED
            BY <3>1
    <2>4. DOMAIN cutoffs = D /\ cutoffs = [s \in DOMAIN cutoffs |-> cutoffs[s]]
        <3>1. QuarantineCutoffs(bad) =
                [s \in DOMAIN QuarantineCutoffs(bad) |-> QuarantineCutoffs(bad)[s]]
            BY DEF QuarantineCutoffs
        <3> QED
            BY <1>3, <1>16, <2>1, <3>1
    <2>5. cutoffs \in [D -> Nat]
        BY <2>3, <2>4
    <2> QED
        BY <2>2, <2>5 DEF Cutoffs
<1>22. order \in Seq(Senders) /\ order \in Seq(DOMAIN cutoffs)
    <2>1. IsFiniteSet(bad)
        BY <1>14, <1>15, PoolSize, FS_Subset
    <2>2. PICK D : D = {t.from : t \in bad} /\ order \in OrdersOf(D)
        BY <1>9, <1>16
    <2> QED
        BY <1>15, <1>16, <2>1, <2>2, SenderOrders
<1>23. \A t \in Elements(mined), u \in Elements(tick.work) :
            t.from = u.from /\ out[u] # "ok" => t.nonce < u.nonce
    BY <1>11, <1>14, <1>18, LaneOrder
<1>24. \A t \in Elements(mined) : BelowCutoff(cutoffs, t)
    <2>1. SUFFICES ASSUME NEW t \in Elements(mined), t.from \in DOMAIN cutoffs
                   PROVE  t.nonce < cutoffs[t.from]
        BY DEF BelowCutoff
    <2>2. PICK s : s = t.from /\ s \in {u.from : u \in bad}
        BY <1>16, <2>1
    <2>3. PICK u \in bad : u.from = s /\ QuarantineCutoffs(bad)[s] = u.nonce
        BY <1>15, <2>2, CutoffIsTaken
    <2> QED
        BY <1>3, <1>15, <1>23, <2>2, <2>3
<1>25. GoodTick(tick')
    <2>1. proofs \subseteq Frontier
        BY <1>1, <1>8, TickFields
    <2>2. tick' \in Ticks
        BY <1>12, <1>13, <1>18, <1>19, <1>20, <1>21, <1>22, <2>1, EmptyPool
           DEF Ticks, TickOf, Places
    <2>3. Stage(tick')
        BY <1>12, <1>13, <1>22 DEF Stage, TickOf
    <2>4. Lanes(tick')
        BY <1>13, <1>18, <1>19, <1>23, EmptyPool DEF Lanes, TickOf
    <2>5. BelowCutoffs(tick')
        BY <1>13, <1>20, <1>24 DEF BelowCutoffs, TickOf
    <2> QED
        BY <2>2, <2>3, <2>4, <2>5 DEF GoodTick
<1>26. taskFailures' \in [{t \in Txs : t.task} \cup Frontier -> Nat]
    <2>1. PICK K : K = {t \in Txs : t.task} \cup Frontier
        OBVIOUS
    <2>2. taskFailures \in [K -> Nat]
        BY <2>1, MinerFacts
    <2>3. taskFailures' = [t \in DOMAIN taskFailures |->
                IF t \notin DOMAIN out \/ out[t] = "blocked" THEN taskFailures[t]
                ELSE IF out[t] = "retry" /\ ~Quarantines(out, t) THEN taskFailures[t] + 1
                ELSE 0]
        BY DEF Crawl
    <2>4. taskFailures' \in [K -> Nat]
        BY <2>2, <2>3
    <2> QED
        BY <2>1, <2>4
\* What is given up is at or above its sender's cutoff.
<1>27. ASSUME NEW t \in aside PROVE t \in Txs /\ ~BelowCutoff(cutoffs, t)
    <2>1. /\ t \in Elements(tick.work) /\ t \in Txs /\ t.from \in DOMAIN cutoffs
          /\ t \in bad \/ out[t] = "blocked"
        BY <1>14, <1>15, <1>16, <1>17
    <2>2. PICK s : s = t.from /\ s \in {u.from : u \in bad}
        BY <1>16, <2>1
    <2>3. PICK u \in bad : u.from = s /\ cutoffs[s] = u.nonce
        BY <1>3, <1>15, <2>2, CutoffIsTaken
    <2>4. cutoffs[s] <= t.nonce
        <3>1. CASE t \in bad
            BY <1>3, <1>15, <2>2, <3>1, CutoffIsTaken
        <3>2. CASE out[t] = "blocked"
            <4>1. u.nonce < t.nonce
                BY <1>11, <1>14, <1>15, <2>1, <2>2, <2>3, <3>2, BlockedIsAbove
            <4> QED
                BY <1>15, <2>1, <2>3, <4>1, TxFacts
        <3> QED
            BY <2>1, <3>1, <3>2
    <2>5. ~(t.nonce < cutoffs[t.from])
        BY <1>15, <2>1, <2>2, <2>3, <2>4, TxFacts
    <2> QED
        BY <2>1, <2>5 DEF BelowCutoff
<1>28. /\ Hands = Elements(tick.transactions) \cup Elements(tick.work)
       /\ Hands' = Elements(kept) \cup Elements(mined) \cup Elements(failed)
    BY <1>13, <1>14, EmptyPool DEF Hands, TickOf
<1>29. tick' # tick /\ tick'.cutoffs = cutoffs
    BY <1>11, <1>12, <1>13 DEF TickOf
<1>30. /\ Held' \subseteq Held
       /\ \A t \in Held : t \in Held' \/ ~BelowCutoff(cutoffs, t)
    BY <1>11, <1>18, <1>19, <1>20, <1>27, <1>28 DEF Held, poolVars
<1>31. \A t \in Held : t \in Held' \/ IsCut(t)
    BY <1>11, <1>29, <1>30 DEF IsCut
<1> QED
    BY <1>11, <1>25, <1>26, <1>30, <1>31, MinerFacts, MinerStep DEF poolVars

---------------------------------------------------------------------------
(***************************************************************************)
(* The theorems.                                                           *)
(***************************************************************************)

\* Every step keeps the invariant and, when the pools do not overflow, gives
\* up no work without a reason.
LEMMA EngineStep ==
    ASSUME EngineInv, [Next]_vars
    PROVE  EngineInv' /\ (Ample => Conserves)
<1>1. CASE Submitter
    BY <1>1, ReadsPreserve, AddToPoolPreserves DEF Submitter
<1>2. CASE Importer
    BY <1>2, ImportsPreserve DEF Importer
<1>3. CASE Miner
    <2>1. CASE DrainTransfers \/ DrainTasks \/ ReadFrontier
        BY <2>1, DrainTransfersPreserves, DrainTasksPreserves, ReadFrontierPreserves
    <2>2. CASE \E own \in Ownerships : Partition(own)
        BY <2>2, PartitionPreserves
    <2>3. CASE PublishInFlight \/ PublishMined
        BY <2>3, PublishPreserves
    <2>4. CASE \E out \in Outcomes : Crawl(out)
        BY <2>4, CrawlPreserves
    <2>5. CASE CutTasks \/ CutTransfers
        BY <2>5, CutTasksPreserves, CutTransfersPreserves
    <2>6. CASE MineBlock
        BY <2>6, MineBlockPreserves
    <2>7. CASE RequeueFailed \/ RequeueTransfers \/ RequeueTasks
        BY <2>7, RequeueFailedPreserves, RequeueTransfersPreserves, RequeueTasksPreserves
    <2>8. CASE ClearInFlight
        BY <2>8, ClearPreserves
    <2> QED
        BY <1>3, <2>1, <2>2, <2>3, <2>4, <2>5, <2>6, <2>7, <2>8 DEF Miner
<1>4. CASE UNCHANGED vars
    <2>1. UNCHANGED <<engineVars, submit, tick>> /\ TypeOK
        BY <1>4 DEF vars, EngineInv
    <2>2. TypeOK'
        BY <2>1 DEF TypeOK, engineVars, chainVars, poolVars, failureVars
    <2> QED
        BY <2>1, <2>2, PoolsUntouched DEF engineVars, poolVars
<1> QED
    BY <1>1, <1>2, <1>3, <1>4 DEF Next

(***************************************************************************)
(* Whatever the submitter, the partition, the crawls, the failed blocks    *)
(* and the imports do: each pool keeps one transaction for a slot, a tick  *)
(* holds its tasks in the order of their senders and holds nothing but     *)
(* accepted work, and each place of MineOnce finds the locals it needs.    *)
(***************************************************************************)
THEOREM EngineInvariant == Spec => []EngineInv
<1>1. Init => EngineInv
    BY EngineInit
<1>2. EngineInv /\ [Next]_vars => EngineInv'
    BY EngineStep
<1> QED
    BY <1>1, <1>2, PTL DEF Spec

(***************************************************************************)
(* The concurrent lanes of mineSearchTasks do not reorder a sender: the    *)
(* drain takes each sender's tasks in nonce order, the partition and the   *)
(* sorting of the outcomes keep that order, and a lane stops at its first  *)
(* failure.                                                                *)
(***************************************************************************)
THEOREM LanesKeepSenderOrder == Spec => []MinedTasksKeepSenderOrder
<1>1. EngineInv => MinedTasksKeepSenderOrder
    BY DEF EngineInv, Lanes, InSenderOrder, MinedTasksKeepSenderOrder
<1> QED
    BY <1>1, EngineInvariant, PTL

(***************************************************************************)
(* No block holds a task or a transfer of a sender from the nonce on at    *)
(* which its tick quarantined a task, however many tasks of however many   *)
(* senders failed, and in whatever order the crawls ended.                 *)
(***************************************************************************)
THEOREM CutoffsAreRespected == Spec => []BlockRespectsCutoffs
<1>1. EngineInv => BlockRespectsCutoffs
    <2> SUFFICES ASSUME EngineInv, tick.pc = "mine", NEW t \in Elements(BlockTransactions)
                 PROVE  BelowCutoff(tick.cutoffs, t)
        BY DEF BlockRespectsCutoffs
    <2>1. tick.transactions \in Seq(Txs) /\ tick.mined \in Seq(Txs)
        BY TickFields DEF EngineInv, TypeOK
    <2>2. t \in Elements(tick.transactions) \cup Elements(tick.mined)
        BY <2>1, ConcatElements DEF BlockTransactions
    <2> QED
        BY <2>2 DEF EngineInv, BelowCutoffs
<1> QED
    BY <1>1, EngineInvariant, PTL

\* Limits that no pool can reach: none, or as many as there are transactions.
LEMMA AmpleLimits ==
    ASSUME Limit = 0 \/ (IsFiniteSet(Txs) /\ Limit >= Cardinality(Txs)),
           SenderLimit = 0 \/ (IsFiniteSet(Txs) /\ SenderLimit >= Cardinality(Txs))
    PROVE  Ample
<1> SUFFICES ASSUME NEW q \in Seq(Txs), NEW t \in Txs, OneSlotEach(q), ~Occupied(q, t)
             PROVE  ~Full(q) /\ ~SenderFull(q, t.from)
    BY DEF Ample
<1>1. PICK n \in Nat : n = Len(q) /\ DOMAIN q = 1 .. n
    OBVIOUS
<1>2. t \notin Elements(q)
    BY DEF Occupied
<1>3. ASSUME IsFiniteSet(Txs) PROVE n < Cardinality(Txs) /\ Cardinality(Txs) \in Nat
    <2>1. IsFiniteSet(Elements(q)) /\ Cardinality(Elements(q)) = n
        BY <1>1, PoolSize
    <2>2. Elements(q) \in SUBSET Txs /\ Elements(q) # Txs
        BY <1>2, PoolElements
    <2>3. Cardinality(Elements(q)) <= Cardinality(Txs) /\ Cardinality(Elements(q)) # Cardinality(Txs)
        BY <1>3, <2>2, FS_Subset
    <2>4. Cardinality(Txs) \in Nat
        BY <1>3, FS_CardinalityType
    <2> QED
        BY <2>1, <2>3, <2>4
<1>4. Cardinality(FromSender(q, t.from)) \in Nat /\ Cardinality(FromSender(q, t.from)) <= n
    <2>1. FromSender(q, t.from) \in SUBSET (1 .. n)
        BY <1>1 DEF FromSender
    <2>2. IsFiniteSet(1 .. n) /\ Cardinality(1 .. n) = n
        BY IntervalSize
    <2>3. IsFiniteSet(FromSender(q, t.from))
        BY <2>1, <2>2, FS_Subset
    <2>4. Cardinality(FromSender(q, t.from)) <= Cardinality(1 .. n)
        BY <2>1, <2>2, FS_Subset
    <2> QED
        BY <2>2, <2>3, <2>4, FS_CardinalityType
<1>5. ~Full(q)
    BY <1>1, <1>3, LimitsAssumption DEF Full
<1>6. ~SenderFull(q, t.from)
    BY <1>3, <1>4, LimitsAssumption DEF SenderFull
<1> QED
    BY <1>5, <1>6

(***************************************************************************)
(* With pools that do not overflow, the node keeps what it has accepted    *)
(* until it is mined: a drain hands it to the tick, the tick to the block, *)
(* back to its pool or to quarantine, a failed block gives it back, and it *)
(* leaves the node only in a block, with a quarantined task of its sender  *)
(* or for another transaction with its slot.  Imports may take the chain   *)
(* anywhere, also back.                                                    *)
(***************************************************************************)
THEOREM AcceptedWorkIsKept ==
    ASSUME Limit = 0 \/ (IsFiniteSet(Txs) /\ Limit >= Cardinality(Txs)),
           SenderLimit = 0 \/ (IsFiniteSet(Txs) /\ SenderLimit >= Cardinality(Txs))
    PROVE  Spec => AcceptedWorkIsKeptUntilMined
<1>1. Ample
    BY AmpleLimits
<1>2. EngineInv /\ [Next]_vars => [Conserves]_vars
    BY <1>1, EngineStep
<1>3. Spec => [][Conserves]_vars
    BY <1>2, EngineInvariant, PTL DEF Spec
<1> QED
    BY <1>3 DEF Conserves, AcceptedWorkIsKeptUntilMined

---------------------------------------------------------------------------
(***************************************************************************)
(* The seeder against the node, for every length of its plan, batch size,  *)
(* write limit and number of lost answers.                                 *)
(***************************************************************************)

\* How many nonces a set of transactions takes.
Load(S) == Cardinality({t.nonce : t \in S})

\* No more than it has members ...
LEMMA LoadFacts ==
    ASSUME NEW S, IsFiniteSet(S)
    PROVE  /\ IsFiniteSet({t.nonce : t \in S})
           /\ Load(S) \in Nat /\ Cardinality(S) \in Nat /\ Load(S) <= Cardinality(S)
<1>1. PICK N : N = {t.nonce : t \in S}
    OBVIOUS
<1>2. PICK g : g = [t \in S |-> t.nonce]
    OBVIOUS
<1>3. g \in Surjection(S, N)
    BY <1>1, <1>2 DEF Surjection
<1>4. IsFiniteSet(N) /\ Cardinality(N) <= Cardinality(S)
    BY <1>3, FS_Surjection
<1> QED
    BY <1>1, <1>4, FS_CardinalityType DEF Load

\* ... no fewer than its subsets take ...
LEMMA LoadGrows ==
    ASSUME NEW T, IsFiniteSet(T), NEW S \in SUBSET T
    PROVE  IsFiniteSet(S) /\ Load(S) \in Nat /\ Load(S) <= Load(T)
<1>1. IsFiniteSet(S)
    BY FS_Subset
<1>2. PICK N : N = {t.nonce : t \in T} /\ IsFiniteSet(N)
    BY LoadFacts
<1>3. {t.nonce : t \in S} \in SUBSET N
    BY <1>2
<1>4. Load(S) <= Load(T)
    BY <1>2, <1>3, FS_Subset DEF Load
<1> QED
    BY <1>1, <1>4, LoadFacts

\* ... and the nonces of two sets at most add up.
LEMMA LoadUnion ==
    ASSUME NEW S, IsFiniteSet(S), NEW T, IsFiniteSet(T)
    PROVE  /\ IsFiniteSet(S \cup T) /\ Load(S \cup T) \in Nat
           /\ Load(S) \in Nat /\ Load(T) \in Nat /\ Load(S \cup T) <= Load(S) + Load(T)
<1>1. PICK M : M = {t.nonce : t \in S} /\ IsFiniteSet(M)
    BY LoadFacts
<1>2. PICK N : N = {t.nonce : t \in T} /\ IsFiniteSet(N)
    BY LoadFacts
<1>3. {t.nonce : t \in S \cup T} = M \cup N
    BY <1>1, <1>2
<1>4. /\ Cardinality(M \cup N) = Cardinality(M) + Cardinality(N) - Cardinality(M \cap N)
      /\ IsFiniteSet(M \cup N)
    BY <1>1, <1>2, FS_Union
<1>5. M \cap N \in SUBSET M
    OBVIOUS
<1>6. IsFiniteSet(M \cap N)
    BY <1>1, <1>5, FS_Subset
<1>7. /\ Cardinality(M) \in Nat /\ Cardinality(N) \in Nat /\ Cardinality(M \cap N) \in Nat
      /\ Cardinality(M \cup N) \in Nat
    BY <1>1, <1>2, <1>4, <1>6, FS_CardinalityType
<1>8. Cardinality(M \cup N) <= Cardinality(M) + Cardinality(N)
    BY <1>4, <1>7
<1>9. IsFiniteSet(S \cup T)
    BY FS_Union
<1>10. Load(S) = Cardinality(M) /\ Load(T) = Cardinality(N) /\ Load(S \cup T) = Cardinality(M \cup N)
    BY <1>1, <1>2, <1>3 DEF Load
<1> QED
    BY <1>7, <1>8, <1>9, <1>10

\* What the miner has taken out of the pools, whether it still works on it or
\* only reports it as in flight, and all that is at the node.
Drawn == Hands \cup inFlight.transfers \cup inFlight.tasks
OnHand == Elements(txPool) \cup Elements(taskPool) \cup Drawn

NoTransfers ==
    /\ Elements(txPool) = {} /\ Elements(tick.transactions) = {} /\ inFlight.transfers = {}

\* The node holds tasks of the seeder only, and the miner at most one drain.
NodeInv ==
    /\ \A t \in accepted : t.from = Seed /\ t.task
    /\ NoTransfers
    /\ inFlight.tasks \subseteq accepted
    /\ tick.pc \in {"idle", "drainTasks", "readFrontier", "partition"} => inFlight.tasks = {}
    /\ IsFiniteSet(Drawn) /\ Load(Drawn) <= MempoolTaskBatch

\* A step of the miner draws on what the node holds.
Narrows == NodeInv' /\ OnHand' \subseteq OnHand

\* All that is at the node was accepted, and there is an end to it.
LEMMA DrawnFacts ==
    ASSUME EngineInv, NodeInv
    PROVE  /\ Drawn = Hands \cup inFlight.tasks /\ OnHand = Elements(taskPool) \cup Drawn
           /\ Drawn \subseteq accepted /\ OnHand \subseteq accepted
           /\ IsFiniteSet(Elements(taskPool)) /\ IsFiniteSet(OnHand) /\ Load(OnHand) \in Nat
           /\ Elements(taskPool) \subseteq OnHand /\ Drawn \subseteq OnHand
           /\ accepted \subseteq Txs
<1>1. Drawn = Hands \cup inFlight.tasks /\ OnHand = Elements(taskPool) \cup Drawn
    BY DEF NodeInv, NoTransfers, Drawn, OnHand
<1>2. Drawn \subseteq accepted /\ OnHand \subseteq accepted /\ accepted \subseteq Txs
    BY <1>1 DEF EngineInv, TypeOK, NodeInv, Held
<1>3. IsFiniteSet(Elements(taskPool))
    BY PoolSize DEF EngineInv, TypeOK
<1>4. IsFiniteSet(Drawn)
    BY DEF NodeInv
<1>5. IsFiniteSet(OnHand) /\ Load(OnHand) \in Nat
    BY <1>1, <1>3, <1>4, LoadUnion
<1> QED
    BY <1>1, <1>2, <1>3, <1>5

\* What a step that drains no tasks has to show.
LEMMA NarrowStep ==
    ASSUME EngineInv, NodeInv, UNCHANGED accepted, NoTransfers', Drawn' \subseteq Drawn,
           Elements(taskPool') \subseteq OnHand,
           tick'.pc \in {"idle", "drainTasks", "readFrontier", "partition"} => inFlight'.tasks = {}
    PROVE  Narrows
<1>1. IsFiniteSet(Drawn') /\ Load(Drawn') \in Nat /\ Load(Drawn') <= Load(Drawn)
    <2>1. IsFiniteSet(Drawn)
        BY DEF NodeInv
    <2>2. PICK D : D = Drawn' /\ D \in SUBSET Drawn
        OBVIOUS
    <2> QED
        BY <2>1, <2>2, LoadGrows
<1>2. Load(Drawn') <= MempoolTaskBatch
    <2>1. Load(Drawn) \in Nat /\ Load(Drawn) <= MempoolTaskBatch
        BY LoadFacts DEF NodeInv
    <2> QED
        BY <1>1, <2>1, BatchAssumption
<1>3. inFlight'.tasks \subseteq accepted'
    BY DrawnFacts DEF Drawn
<1>4. NodeInv'
    BY <1>1, <1>2, <1>3 DEF NodeInv
<1>5. OnHand' \subseteq OnHand
    BY DrawnFacts DEF OnHand, NoTransfers
<1> QED
    BY <1>4, <1>5 DEF Narrows

\* The tick of a node that satisfies the invariant.
LEMMA NodeFacts ==
    ASSUME EngineInv, NodeInv
    PROVE  /\ tick \in Ticks /\ Stage(tick) /\ GoodPool(txPool) /\ GoodPool(taskPool)
           /\ Elements(tick.transactions) = {} /\ Elements(txPool) = {} /\ inFlight.transfers = {}
           /\ inFlight = [transfers |-> {}, tasks |-> inFlight.tasks]
           /\ Hands = Elements(tick.work) \cup Elements(tick.mined) \cup Elements(tick.failed)
           /\ Elements(taskPool) \subseteq OnHand /\ Hands \subseteq OnHand
           /\ OnHand = Elements(taskPool) \cup Drawn /\ Drawn = Hands \cup inFlight.tasks
    BY MinerFacts, DrawnFacts DEF GoodTick, NodeInv, NoTransfers, Hands, Drawn

LEMMA DrainTransfersNarrows ==
    ASSUME EngineInv, NodeInv, DrainTransfers
    PROVE  Narrows
<1>1. tick' = TickOf("drainTasks", txPool, tick.work, tick.frontier, tick.failed,
                     tick.mined, tick.proofs, tick.cutoffs, tick.cutting)
    BY NodeFacts, TickFields DEF DrainTransfers, TickOf
<1>2. tick.pc = "idle" /\ txPool' = <<>> /\ UNCHANGED <<taskPool, inFlight, accepted>>
    BY DEF DrainTransfers
<1>3. NoTransfers'
    BY <1>1, <1>2, NodeFacts, EmptyPool DEF NoTransfers, TickOf
<1>4. Hands' = Hands
    BY <1>1, NodeFacts DEF Hands, TickOf
<1>5. Drawn' = Drawn
    BY <1>2, <1>4 DEF Drawn
<1>6. inFlight'.tasks = {}
    BY <1>2 DEF NodeInv
<1> QED
    BY <1>2, <1>3, <1>5, <1>6, NodeFacts, NarrowStep

\* The drain takes at most one batch, when nothing is in flight any more.
LEMMA DrainTasksNarrows ==
    ASSUME EngineInv, NodeInv, DrainTasks
    PROVE  Narrows
<1>1. PICK taken : taken = HighestValue(taskPool, MempoolTaskBatch)
    OBVIOUS
<1>2. /\ taken \in Seq(Txs) /\ Elements(taken) \subseteq Elements(taskPool)
      /\ Cardinality(Elements(taken)) <= MempoolTaskBatch
    BY <1>1, NodeFacts, BatchAssumption, HighestValueTakes DEF GoodPool
<1>3. tick' = TickOf("readFrontier", tick.transactions, taken, tick.frontier, tick.failed,
                     tick.mined, tick.proofs, tick.cutoffs, tick.cutting)
    BY <1>1, NodeFacts, TickFields DEF DrainTasks, TickOf
<1>4. tick.pc = "drainTasks" /\ UNCHANGED <<txPool, inFlight, accepted>>
    BY DEF DrainTasks
<1>5. Elements(taskPool') \subseteq Elements(taskPool)
    <2>1. PICK S : S = Elements(taskPool) \ Elements(taken)
        OBVIOUS
    <2>2. taskPool' = Only(taskPool, S)
        BY <1>1, <2>1 DEF DrainTasks
    <2>3. Elements(Only(taskPool, S)) = Elements(taskPool) \cap S
        BY NodeFacts, OnlyKeeps DEF GoodPool
    <2> QED
        BY <2>2, <2>3
<1>6. inFlight.tasks = {} /\ inFlight.transfers = {}
    BY <1>4 DEF NodeInv, NoTransfers
<1>7. tick.mined = <<>> /\ tick.failed = <<>>
    BY <1>4, NodeFacts DEF Stage
<1>8. Hands' = Elements(taken)
    BY <1>3, <1>7, NodeFacts, EmptyPool DEF Hands, TickOf
<1>9. Drawn' = Elements(taken)
    BY <1>4, <1>6, <1>8 DEF Drawn
<1>10. NoTransfers'
    BY <1>3, <1>4, NodeFacts DEF NoTransfers, TickOf
<1>11. IsFiniteSet(Drawn') /\ Load(Drawn') <= MempoolTaskBatch
    <2>1. PICK D : D = Elements(taken) /\ IsFiniteSet(D)
        BY <1>2, PoolSize
    <2>2. Load(D) \in Nat /\ Cardinality(D) \in Nat /\ Load(D) <= Cardinality(D)
        BY <2>1, LoadFacts
    <2>3. Load(D) <= MempoolTaskBatch
        BY <1>2, <2>1, <2>2, BatchAssumption
    <2> QED
        BY <1>9, <2>1, <2>3
<1>12. NodeInv'
    BY <1>4, <1>6, <1>10, <1>11 DEF NodeInv
<1>13. OnHand' \subseteq OnHand
    BY <1>2, <1>4, <1>5, <1>9 DEF OnHand
<1> QED
    BY <1>12, <1>13 DEF Narrows

LEMMA ReadFrontierNarrows ==
    ASSUME EngineInv, NodeInv, ReadFrontier
    PROVE  Narrows
<1>1. PICK F : F = open \ Elements(quarantined)
    OBVIOUS
<1>2. tick' = TickOf("partition", tick.transactions, tick.work, F, tick.failed,
                     tick.mined, tick.proofs, tick.cutoffs, tick.cutting)
    BY <1>1, NodeFacts, TickFields DEF ReadFrontier, TickOf
<1>3. tick.pc = "readFrontier" /\ UNCHANGED <<txPool, taskPool, inFlight, accepted>>
    BY DEF ReadFrontier, engineVars, poolVars
<1>4. NoTransfers' /\ Drawn' = Drawn
    BY <1>2, <1>3, NodeFacts DEF NoTransfers, Drawn, Hands, TickOf
<1>5. inFlight'.tasks = {}
    BY <1>3 DEF NodeInv
<1> QED
    BY <1>3, <1>4, <1>5, NodeFacts, NarrowStep

LEMMA PartitionNarrows ==
    ASSUME EngineInv, NodeInv, NEW own \in Ownerships, Partition(own)
    PROVE  Narrows
<1>1. PICK owned : owned = Only(tick.work, own)
    OBVIOUS
<1>2. PICK unowned : unowned = Only(tick.work, Elements(tick.work) \ own)
    OBVIOUS
<1>3. PICK F : F = tick.frontier \cap own
    OBVIOUS
<1>4. Elements(owned) \subseteq Elements(tick.work)
    BY <1>1, NodeFacts, TickFields, OnlyKeeps
<1>5. unowned \in Seq(Txs) /\ Elements(unowned) \subseteq Elements(tick.work)
    <2>1. PICK S : S = Elements(tick.work) \ own
        OBVIOUS
    <2>2. /\ Only(tick.work, S) \in Seq(Txs)
          /\ Elements(Only(tick.work, S)) = Elements(tick.work) \cap S
        BY NodeFacts, TickFields, OnlyKeeps
    <2> QED
        BY <1>2, <2>1, <2>2
<1>6. /\ tick.pc = "partition" /\ taskPool' = Requeued(taskPool, unowned)
      /\ UNCHANGED <<txPool, inFlight, accepted>>
    BY <1>2 DEF Partition, FilterWorkItems
<1>7. Elements(taskPool') \subseteq Elements(taskPool) \cup Elements(unowned)
    BY <1>5, <1>6, NodeFacts, RequeueFacts
<1>8. inFlight'.tasks = {}
    BY <1>6 DEF NodeInv
<1>9. Elements(tick'.transactions) = {} /\ Hands' \subseteq Hands
    <2>1. CASE tick.transactions = <<>> /\ owned = <<>> /\ F = {}
        <3>1. tick' = TickOf("idle", <<>>, <<>>, {}, <<>>, <<>>, {}, <<>>, <<>>)
            BY <1>1, <1>3, <2>1 DEF Partition, FilterWorkItems, NoTick, TickOf
        <3> QED
            BY <3>1, EmptyPool DEF Hands, TickOf
    <2>2. CASE ~(tick.transactions = <<>> /\ owned = <<>> /\ F = {})
        <3>1. tick' = [tick EXCEPT !.pc = "publish", !.work = owned, !.frontier = F]
            BY <1>1, <1>3, <2>2 DEF Partition, FilterWorkItems
        <3>2. tick' = TickOf("publish", tick.transactions, owned, F, tick.failed,
                             tick.mined, tick.proofs, tick.cutoffs, tick.cutting)
            BY <3>1, NodeFacts, TickFields DEF TickOf
        <3> QED
            BY <1>4, <3>2, NodeFacts DEF Hands, TickOf
    <2> QED
        BY <2>1, <2>2
<1>10. NoTransfers' /\ Drawn' \subseteq Drawn
    BY <1>6, <1>9, NodeFacts DEF NoTransfers, Drawn
<1>11. Elements(taskPool') \subseteq OnHand
    BY <1>5, <1>7, NodeFacts
<1> QED
    BY <1>6, <1>8, <1>10, <1>11, NarrowStep

LEMMA PublishNarrows ==
    ASSUME EngineInv, NodeInv, PublishInFlight \/ PublishMined
    PROVE  Narrows
<1>1. PICK pc : tick' = [tick EXCEPT !.pc = pc] /\ pc \in {"crawl", "mine", "clear"}
    BY DEF PublishInFlight, PublishMined
<1>2. tick' = TickOf(pc, tick.transactions, tick.work, tick.frontier, tick.failed,
                     tick.mined, tick.proofs, tick.cutoffs, tick.cutting)
    BY <1>1, NodeFacts, TickFields DEF TickOf
<1>3. UNCHANGED <<txPool, taskPool, accepted>>
    BY DEF PublishInFlight, PublishMined, poolVars
<1>4. inFlight'.transfers = {} /\ inFlight'.tasks \subseteq Hands
    BY NodeFacts DEF PublishInFlight, PublishMined
<1>5. Hands' = Hands
    BY <1>2 DEF Hands, TickOf
<1>6. NoTransfers' /\ Drawn' \subseteq Drawn
    BY <1>2, <1>3, <1>4, <1>5, NodeFacts DEF NoTransfers, Drawn, TickOf
<1>7. tick'.pc = pc
    BY <1>2 DEF TickOf
<1> QED
    BY <1>1, <1>3, <1>6, <1>7, NodeFacts, NarrowStep

LEMMA CrawlNarrows ==
    ASSUME EngineInv, NodeInv, NEW out \in Outcomes, Crawl(out)
    PROVE  Narrows
<1>1. PICK kept : kept = FilterTransactions(QuarantineCutoffs(Unminable(out)), tick.transactions)
    OBVIOUS
<1>2. PICK mined : mined = Only(tick.work, {t \in Elements(tick.work) : out[t] = "ok"})
    OBVIOUS
<1>3. PICK failed :
        failed = Only(tick.work, {t \in Elements(tick.work) : out[t] # "ok"} \ Aside(out))
    OBVIOUS
<1>4. /\ tick'.transactions = kept /\ tick'.work = <<>> /\ tick'.failed = failed
      /\ tick'.mined = mined /\ tick'.pc \in {"requeueFailed", "cutTasks"}
    <2>1. PICK pc, cutoffs, cutting, proofs :
            /\ tick' = [tick EXCEPT
                    !.pc = pc, !.transactions = kept, !.work = <<>>, !.frontier = {},
                    !.failed = failed, !.mined = mined, !.proofs = proofs,
                    !.cutoffs = cutoffs, !.cutting = cutting]
            /\ pc \in {"requeueFailed", "cutTasks"}
        BY <1>1, <1>2, <1>3 DEF Crawl
    <2> QED
        BY <2>1, NodeFacts DEF Ticks
<1>5. UNCHANGED <<txPool, taskPool, inFlight, accepted>>
    BY DEF Crawl, poolVars
<1>6. Elements(kept) = {}
    <2>1. PICK S : kept = Only(tick.transactions, S)
        BY <1>1 DEF FilterTransactions
    <2>2. Elements(Only(tick.transactions, S)) = Elements(tick.transactions) \cap S
        BY NodeFacts, TickFields, OnlyKeeps
    <2> QED
        BY <2>1, <2>2, NodeFacts
<1>7. Elements(mined) \subseteq Elements(tick.work)
    <2>1. PICK S : mined = Only(tick.work, S)
        BY <1>2
    <2>2. Elements(Only(tick.work, S)) = Elements(tick.work) \cap S
        BY NodeFacts, TickFields, OnlyKeeps
    <2> QED
        BY <2>1, <2>2
<1>8. Elements(failed) \subseteq Elements(tick.work)
    <2>1. PICK S : failed = Only(tick.work, S)
        BY <1>3
    <2>2. Elements(Only(tick.work, S)) = Elements(tick.work) \cap S
        BY NodeFacts, TickFields, OnlyKeeps
    <2> QED
        BY <2>1, <2>2
<1>9. NoTransfers'
    BY <1>4, <1>5, <1>6, NodeFacts DEF NoTransfers
<1>10. Hands' \subseteq Hands
    BY <1>4, <1>6, <1>7, <1>8, EmptyPool DEF Hands
<1>11. Drawn' \subseteq Drawn
    BY <1>5, <1>10 DEF Drawn
<1> QED
    BY <1>4, <1>5, <1>9, <1>11, NodeFacts, NarrowStep

LEMMA CutsNarrow ==
    ASSUME EngineInv, NodeInv, CutTasks \/ CutTransfers
    PROVE  Narrows
<1>1. PICK s : s = Head(tick.cutting)
    OBVIOUS
<1>2. PICK pc, cutting :
        /\ tick' = [tick EXCEPT !.pc = pc, !.cutting = cutting]
        /\ pc \in {"cutTasks", "cutTransfers", "requeueFailed"}
    <2>1. CASE CutTasks
        <3>1. tick' = [tick EXCEPT !.pc = "cutTransfers", !.cutting = tick.cutting]
            BY <2>1, NodeFacts DEF CutTasks, Ticks
        <3> QED
            BY <3>1
    <2>2. CASE CutTransfers
        <3>1. PICK rest : rest = Tail(tick.cutting)
            OBVIOUS
        <3>2. PICK pc : pc = IF rest = <<>> THEN "requeueFailed" ELSE "cutTasks"
            OBVIOUS
        <3>3. tick' = [tick EXCEPT !.pc = pc, !.cutting = rest]
            BY <2>2, <3>1, <3>2, NodeFacts DEF CutTransfers, Ticks
        <3> QED
            BY <3>2, <3>3
    <2> QED
        BY <2>1, <2>2
<1>3. /\ tick'.transactions = tick.transactions /\ tick'.work = tick.work
      /\ tick'.failed = tick.failed /\ tick'.mined = tick.mined /\ tick'.pc = pc
    BY <1>2, NodeFacts DEF Ticks
<1>4. /\ UNCHANGED <<inFlight, accepted>>
      /\ txPool' = txPool \/ txPool' = Uncut(txPool, s)
      /\ taskPool' = taskPool \/ taskPool' = Uncut(taskPool, s)
    BY <1>1 DEF CutTasks, CutTransfers
<1>5. Elements(txPool') \subseteq Elements(txPool) /\ Elements(taskPool') \subseteq Elements(taskPool)
    <2>1. s \in DOMAIN tick.cutoffs
        BY <1>1, HeadIsCut DEF CutTasks, CutTransfers
    <2>2. /\ Elements(Uncut(txPool, s)) \subseteq Elements(txPool)
          /\ Elements(Uncut(taskPool, s)) \subseteq Elements(taskPool)
        BY <2>1, NodeFacts, CutFacts
    <2> QED
        BY <1>4, <2>2
<1>6. NoTransfers' /\ Drawn' = Drawn
    BY <1>3, <1>4, <1>5, NodeFacts DEF NoTransfers, Drawn, Hands
<1> QED
    BY <1>2, <1>3, <1>4, <1>5, <1>6, NodeFacts, NarrowStep

LEMMA RequeuesNarrow ==
    ASSUME EngineInv, NodeInv, RequeueFailed \/ RequeueTransfers \/ RequeueTasks
    PROVE  Narrows
<1>1. UNCHANGED <<inFlight, accepted>>
    BY DEF RequeueFailed, RequeueTransfers, RequeueTasks
<1>2. /\ tick.failed \in Seq(Txs) /\ tick.mined \in Seq(Txs) /\ tick.transactions \in Seq(Txs)
    BY NodeFacts, TickFields
<1>3. Elements(tick.failed) \cup Elements(tick.mined) \subseteq Hands
    BY NodeFacts
<1>4. CASE RequeueFailed
    <2>1. taskPool' = Requeued(taskPool, tick.failed) /\ UNCHANGED txPool
        BY <1>4 DEF RequeueFailed
    <2>2. Elements(taskPool') \subseteq Elements(taskPool) \cup Elements(tick.failed)
        BY <1>2, <2>1, NodeFacts, RequeueFacts
    <2>3. /\ tick'.transactions = tick.transactions /\ tick'.work = tick.work
          /\ tick'.failed = <<>> /\ tick'.mined = tick.mined /\ tick'.pc = "publishMined"
        BY <1>4, NodeFacts DEF RequeueFailed, Ticks
    <2>4. NoTransfers' /\ Drawn' \subseteq Drawn
        BY <1>1, <2>1, <2>3, NodeFacts, EmptyPool DEF NoTransfers, Drawn, Hands
    <2>5. Elements(taskPool') \subseteq OnHand
        BY <1>3, <2>2, NodeFacts
    <2> QED
        BY <1>1, <2>3, <2>4, <2>5, NarrowStep
<1>5. CASE RequeueTransfers
    <2>1. txPool' = Requeued(txPool, tick.transactions) /\ UNCHANGED taskPool
        BY <1>5 DEF RequeueTransfers
    <2>2. Elements(txPool') \subseteq Elements(txPool) \cup Elements(tick.transactions)
        BY <1>2, <2>1, NodeFacts, RequeueFacts
    <2>3. /\ tick'.transactions = <<>> /\ tick'.work = tick.work
          /\ tick'.failed = tick.failed /\ tick'.mined = tick.mined /\ tick'.pc = "requeueTasks"
        BY <1>5, NodeFacts DEF RequeueTransfers, Ticks
    <2>4. NoTransfers' /\ Drawn' \subseteq Drawn
        BY <1>1, <2>2, <2>3, NodeFacts, EmptyPool DEF NoTransfers, Drawn, Hands
    <2> QED
        BY <1>1, <2>1, <2>3, <2>4, NodeFacts, NarrowStep
<1>6. CASE RequeueTasks
    <2>1. taskPool' = Requeued(taskPool, tick.mined) /\ UNCHANGED txPool
        BY <1>6 DEF RequeueTasks
    <2>2. Elements(taskPool') \subseteq Elements(taskPool) \cup Elements(tick.mined)
        BY <1>2, <2>1, NodeFacts, RequeueFacts
    <2>3. tick' = TickOf("clear", <<>>, <<>>, {}, <<>>, <<>>, {}, <<>>, <<>>)
        BY <1>6 DEF RequeueTasks, NoTick, TickOf
    <2>4. NoTransfers' /\ Drawn' \subseteq Drawn /\ tick'.pc = "clear"
        BY <1>1, <2>1, <2>3, NodeFacts, EmptyPool DEF NoTransfers, Drawn, Hands, TickOf
    <2>5. Elements(taskPool') \subseteq OnHand
        BY <1>3, <2>2, NodeFacts
    <2> QED
        BY <1>1, <2>4, <2>5, NarrowStep
<1> QED
    BY <1>4, <1>5, <1>6

LEMMA BlockNarrows ==
    ASSUME EngineInv, NodeInv, MineBlock \/ ClearInFlight
    PROVE  Narrows
<1>1. UNCHANGED <<txPool, taskPool, accepted>>
    BY DEF MineBlock, ClearInFlight, poolVars
<1>2. inFlight'.transfers = {} /\ inFlight'.tasks \subseteq inFlight.tasks
      /\ (tick'.pc = "idle" => inFlight'.tasks = {})
    <2>1. CASE MineBlock
        BY <2>1, NodeFacts DEF MineBlock, NoTick, Ticks
    <2>2. CASE ClearInFlight
        BY <2>2 DEF ClearInFlight, NothingInFlight
    <2> QED
        BY <2>1, <2>2
<1>3. tick'.pc \in {"idle", "clear", "requeueTransfers"}
    <2>1. /\ [NoTick EXCEPT !.pc = "clear"].pc = "clear" /\ NoTick.pc = "idle"
          /\ [tick EXCEPT !.pc = "requeueTransfers", !.proofs = {}, !.cutoffs = <<>>].pc
                = "requeueTransfers"
        BY NodeFacts DEF NoTick, Ticks
    <2> QED
        BY <2>1 DEF MineBlock, ClearInFlight
<1>4. Elements(tick'.transactions) = {} /\ Hands' \subseteq Hands
    <2>1. CASE \E pc : tick' = TickOf(pc, <<>>, <<>>, {}, <<>>, <<>>, {}, <<>>, <<>>)
        BY <2>1, EmptyPool DEF Hands, TickOf
    <2>2. CASE tick' = [tick EXCEPT !.pc = "requeueTransfers", !.proofs = {}, !.cutoffs = <<>>]
        <3>1. /\ tick'.transactions = tick.transactions /\ tick'.work = tick.work
              /\ tick'.failed = tick.failed /\ tick'.mined = tick.mined
            BY <2>2, NodeFacts DEF Ticks
        <3> QED
            BY <3>1, NodeFacts DEF Hands
    <2> QED
        BY <2>1, <2>2 DEF MineBlock, ClearInFlight, NoTick, TickOf
<1>5. NoTransfers' /\ Drawn' \subseteq Drawn
    BY <1>1, <1>2, <1>4, NodeFacts DEF NoTransfers, Drawn
<1> QED
    BY <1>1, <1>2, <1>3, <1>5, NodeFacts, NarrowStep

\* No step of the miner brings anything to the node.
LEMMA MinerNarrows ==
    ASSUME EngineInv, NodeInv, Miner
    PROVE  Narrows
<1>1. CASE DrainTransfers \/ DrainTasks \/ ReadFrontier
    BY <1>1, DrainTransfersNarrows, DrainTasksNarrows, ReadFrontierNarrows
<1>2. CASE \E own \in Ownerships : Partition(own)
    BY <1>2, PartitionNarrows
<1>3. CASE PublishInFlight \/ PublishMined
    BY <1>3, PublishNarrows
<1>4. CASE \E out \in Outcomes : Crawl(out)
    BY <1>4, CrawlNarrows
<1>5. CASE CutTasks \/ CutTransfers
    BY <1>5, CutsNarrow
<1>6. CASE RequeueFailed \/ RequeueTransfers \/ RequeueTasks
    BY <1>6, RequeuesNarrow
<1>7. CASE MineBlock \/ ClearInFlight
    BY <1>7, BlockNarrows
<1> QED
    BY <1>1, <1>2, <1>3, <1>4, <1>5, <1>6, <1>7 DEF Miner

---------------------------------------------------------------------------
\* The locals of main.
Clients ==
    [phase : {"start", "loop", "final", "fatal", "complete"},
     pc : {"latest", "chain", "inFlight", "txPool", "taskPool", "submit", "sent", "end"},
     start : Nat, next : Nat, latest : Nat, base : Nat, found : SUBSET Txs, slots : Nat]

\* What main knows at each of its places, when nonces went back by m at most
\* between two of its requests.
GoodClient(c, m) ==
    /\ c \in Clients /\ IsFiniteSet(c.found)
    /\ c.pc \in {"inFlight", "txPool", "taskPool"} => c.latest - c.base <= m
    /\ c.pc \in {"submit", "sent"} => c.phase = "loop" /\ c.slots >= 1
    /\ c.pc = "end" <=> c.phase \in {"fatal", "complete"}

\* The task under way is one of main's.
SubmissionInv ==
    /\ submit # NoSubmit <=> seeder.pc = "sent"
    /\ submit # NoSubmit => submit.tx.from = Seed /\ submit.tx.task

\* What the node holds stays within the bound, and so do the slots that main
\* has still to fill with it.
BudgetInv ==
    /\ Load(OnHand) <= BatchSize + MempoolTaskBatch + slip
    /\ seeder.pc \in {"submit", "sent"} =>
        Load(OnHand) + seeder.slots <= BatchSize + MempoolTaskBatch + slip

SeederInv ==
    /\ EngineInv /\ NodeInv /\ slip \in Nat
    /\ GoodClient(seeder, slip)
    /\ SubmissionInv /\ BudgetInv

\* The numbers the invariant speaks of.
LEMMA SeederTypes ==
    ASSUME SeederInv
    PROVE  /\ nonces[Seed] \in Nat /\ Seed \in Senders /\ slip \in Nat
           /\ BatchSize \in Nat /\ MempoolTaskBatch \in Nat /\ PlanLength \in Nat
           /\ seeder \in Clients /\ seeder.slots \in Nat /\ GoodClient(seeder, slip)
           /\ EngineInv /\ NodeInv
           /\ submit \in Submissions \cup {NoSubmit}
           /\ IsFiniteSet(OnHand) /\ Load(OnHand) \in Nat
<1>1. seeder \in Clients /\ EngineInv /\ NodeInv /\ slip \in Nat /\ GoodClient(seeder, slip)
    BY DEF SeederInv, GoodClient
<1>2. seeder.slots \in Nat
    BY <1>1 DEF Clients
<1>3. nonces[Seed] \in Nat /\ submit \in Submissions \cup {NoSubmit}
    BY <1>1, SeedAssumption DEF EngineInv, TypeOK
<1>4. IsFiniteSet(OnHand) /\ Load(OnHand) \in Nat
    BY <1>1, DrawnFacts
<1> QED
    BY <1>1, <1>2, <1>3, <1>4, SeedAssumption, PlanAssumption, BatchAssumption

\* A step that brings nothing to the node and gives main no slots.
LEMMA BudgetKeeps ==
    ASSUME SeederInv, EngineInv', NodeInv', OnHand' \subseteq OnHand,
           slip' \in Nat, slip <= slip', GoodClient(seeder', slip'), SubmissionInv',
           seeder'.pc \in {"submit", "sent"} =>
                seeder.pc \in {"submit", "sent"} /\ seeder'.slots = seeder.slots
    PROVE  SeederInv'
<1>1. /\ slip \in Nat /\ BatchSize \in Nat /\ MempoolTaskBatch \in Nat /\ seeder.slots \in Nat
      /\ IsFiniteSet(OnHand) /\ Load(OnHand) \in Nat
    BY SeederTypes
<1>2. PICK A : A = OnHand' /\ A \in SUBSET OnHand
    OBVIOUS
<1>3. Load(A) \in Nat /\ Load(A) <= Load(OnHand)
    BY <1>1, <1>2, LoadGrows
<1>4. Load(A) <= BatchSize + MempoolTaskBatch + slip'
    BY <1>1, <1>3 DEF SeederInv, BudgetInv
<1>5. ASSUME seeder'.pc \in {"submit", "sent"}
      PROVE  Load(A) + seeder'.slots <= BatchSize + MempoolTaskBatch + slip'
    <2>1. seeder'.slots = seeder.slots
        BY <1>5
    <2>2. Load(OnHand) + seeder.slots <= BatchSize + MempoolTaskBatch + slip
        BY <1>5 DEF SeederInv, BudgetInv
    <2> QED
        BY <1>1, <1>3, <2>1, <2>2
<1>6. BudgetInv'
    BY <1>2, <1>4, <1>5 DEF BudgetInv
<1> QED
    BY <1>6 DEF SeederInv

\* A step that leaves the node as it is, but for the submission.
LEMMA NodeStays ==
    ASSUME NodeInv, UNCHANGED <<engineVars, tick>>
    PROVE  NodeInv' /\ OnHand' = OnHand
<1>1. UNCHANGED <<txPool, taskPool, inFlight, accepted, tick>>
    BY DEF engineVars, poolVars
<1>2. Drawn' = Drawn /\ OnHand' = OnHand /\ (NoTransfers <=> NoTransfers')
    BY <1>1 DEF Drawn, Hands, OnHand, NoTransfers
<1> QED
    BY <1>1, <1>2 DEF NodeInv

\* A step of main that asks the node only, or ends.
LEMMA ClientMoves ==
    ASSUME SeederInv, UNCHANGED vars, seeder.pc # "sent", seeder'.pc \notin {"submit", "sent"},
           slip' \in Nat, slip <= slip', GoodClient(seeder', slip')
    PROVE  SeederInv'
<1>1. EngineInv' /\ UNCHANGED <<engineVars, tick, submit>>
    BY EngineStep DEF SeederInv, vars
<1>2. NodeInv' /\ OnHand' = OnHand
    BY <1>1, NodeStays DEF SeederInv
<1>3. SubmissionInv'
    BY <1>1 DEF SeederInv, SubmissionInv, NoSubmit
<1> QED
    BY <1>1, <1>2, <1>3, BudgetKeeps

\* main asks again, or ends.
LEMMA PollIsGood ==
    ASSUME NEW c, NEW m \in Nat, GoodClient(c, m), c.pc # "end"
    PROVE  GoodClient(Poll(c), m)
<1>1. c \in Clients /\ c.phase \in {"start", "loop", "final"}
    BY DEF GoodClient, Clients
<1>2. Poll(c) = [phase |-> c.phase, pc |-> "latest", start |-> c.start, next |-> c.next,
                 latest |-> 0, base |-> 0, found |-> {}, slots |-> 0]
    <2>1. c = [phase |-> c.phase, pc |-> c.pc, start |-> c.start, next |-> c.next,
               latest |-> c.latest, base |-> c.base, found |-> c.found, slots |-> c.slots]
        BY <1>1 DEF Clients
    <2>2. PICK g : g = [c EXCEPT !.latest = 0, !.base = 0, !.found = {}, !.slots = 0]
        OBVIOUS
    <2>3. g = [phase |-> c.phase, pc |-> c.pc, start |-> c.start, next |-> c.next,
               latest |-> 0, base |-> 0, found |-> {}, slots |-> 0]
        BY <2>1, <2>2
    <2>4. Poll(c) = [g EXCEPT !.pc = "latest"]
        BY <2>2 DEF Poll, Forget
    <2> QED
        BY <2>3, <2>4
<1>3. Poll(c) \in Clients
    BY <1>1, <1>2 DEF Clients
<1> QED
    BY <1>1, <1>2, <1>3, FS_EmptySet DEF GoodClient

LEMMA EndIsGood ==
    ASSUME NEW c \in {Fatal, Complete}, NEW m \in Nat
    PROVE  GoodClient(c, m) /\ c.pc = "end"
<1>1. PICK p \in {"fatal", "complete"} :
        c = [phase |-> p, pc |-> "end", start |-> 0, next |-> 0,
             latest |-> 0, base |-> 0, found |-> {}, slots |-> 0]
    BY DEF Fatal, Complete, NewSeeder
<1>2. c \in Clients
    BY <1>1 DEF Clients
<1> QED
    BY <1>1, <1>2, FS_EmptySet DEF GoodClient

LEMMA PollFields ==
    ASSUME NEW c \in Clients
    PROVE  /\ Poll(c).pc = "latest" /\ Poll(c).phase = c.phase
           /\ Poll(c).start = c.start /\ Poll(c).next = c.next
    BY DEF Poll, Forget, Clients

\* The requests for the two nonces; what a reorganisation takes back between
\* them adds to slip.
LEMMA ReadsKeep ==
    ASSUME SeederInv, LatestNonce \/ PendingChain \/ PendingInFlight \/ PendingTxPool
    PROVE  SeederInv'
<1>1. UNCHANGED vars
    BY DEF LatestNonce, PendingChain, PendingInFlight, PendingTxPool
<1>2. /\ seeder \in Clients /\ IsFiniteSet(seeder.found) /\ nonces[Seed] \in Nat
      /\ GoodClient(seeder, slip) /\ slip \in Nat
    BY SeederTypes DEF GoodClient
<1>3. CASE LatestNonce
    <2>1. /\ seeder.pc = "latest" /\ UNCHANGED slip
          /\ seeder' = [seeder EXCEPT !.pc = "chain", !.latest = nonces[Seed]]
        BY <1>3 DEF LatestNonce
    <2>2. seeder' \in Clients /\ seeder'.pc = "chain"
        BY <1>2, <2>1 DEF Clients
    <2>3. GoodClient(seeder', slip')
        BY <1>2, <2>1, <2>2 DEF GoodClient, Clients
    <2> QED
        BY <1>1, <1>2, <2>1, <2>2, <2>3, ClientMoves
<1>4. CASE PendingChain
    <2>1. /\ seeder.pc = "chain" /\ slip' = Most(slip, seeder.latest - nonces[Seed])
          /\ seeder' = [seeder EXCEPT !.pc = "inFlight", !.base = nonces[Seed]]
        BY <1>4 DEF PendingChain
    <2>2. /\ seeder' \in Clients /\ seeder'.pc = "inFlight" /\ seeder'.base = nonces[Seed]
          /\ seeder'.latest = seeder.latest /\ seeder.latest \in Nat
        BY <1>2, <2>1 DEF Clients
    <2>3. slip' \in Nat /\ slip <= slip' /\ seeder.latest - nonces[Seed] <= slip'
        BY <1>2, <2>1, <2>2 DEF Most
    <2>4. GoodClient(seeder', slip')
        BY <1>2, <2>1, <2>2, <2>3 DEF GoodClient, Clients
    <2> QED
        BY <1>1, <2>1, <2>2, <2>3, <2>4, ClientMoves
<1>5. CASE PendingInFlight
    <2>1. PICK F : F = OfSender(inFlight.transfers \cup inFlight.tasks, Seed)
        OBVIOUS
    <2>2. IsFiniteSet(F) /\ F \subseteq Txs
        <3>1. F \in SUBSET OnHand
            BY <2>1 DEF OfSender, OnHand, Drawn
        <3> QED
            BY <3>1, SeederTypes, DrawnFacts, FS_Subset
    <2>3. /\ seeder.pc = "inFlight" /\ UNCHANGED slip
          /\ seeder' = [seeder EXCEPT !.pc = "txPool", !.found = F]
        BY <1>5, <2>1 DEF PendingInFlight
    <2>4. seeder' \in Clients /\ seeder'.pc = "txPool"
        BY <1>2, <2>2, <2>3 DEF Clients
    <2>5. GoodClient(seeder', slip')
        BY <1>2, <2>2, <2>3, <2>4 DEF GoodClient, Clients
    <2> QED
        BY <1>1, <1>2, <2>3, <2>4, <2>5, ClientMoves
<1>6. CASE PendingTxPool
    <2>1. OfSender(Elements(txPool), Seed) = {}
        BY DEF SeederInv, NodeInv, NoTransfers, OfSender
    <2>2. /\ seeder.pc = "txPool" /\ UNCHANGED slip
          /\ seeder' = [seeder EXCEPT !.pc = "taskPool", !.found = seeder.found]
        BY <1>2, <1>6, <2>1 DEF PendingTxPool, Clients
    <2>3. seeder' \in Clients /\ seeder'.pc = "taskPool"
        BY <1>2, <2>2 DEF Clients
    <2>4. GoodClient(seeder', slip')
        BY <1>2, <2>2, <2>3 DEF GoodClient, Clients
    <2> QED
        BY <1>1, <1>2, <2>2, <2>3, <2>4, ClientMoves
<1> QED
    BY <1>3, <1>4, <1>5, <1>6

\* A request that is refused or fails.
LEMMA RefusalsKeep ==
    ASSUME SeederInv, SendLimited \/ LoseRequest
    PROVE  SeederInv'
<1>1. /\ UNCHANGED <<vars, slip>> /\ seeder.pc \in {"submit", "latest", "chain"}
      /\ seeder' \in {Poll(seeder), Fatal}
    BY DEF SendLimited, LoseRequest
<1>2. GoodClient(seeder, slip) /\ slip \in Nat /\ seeder \in Clients
    BY SeederTypes
<1>3. GoodClient(seeder', slip') /\ seeder'.pc \in {"latest", "end"}
    BY <1>1, <1>2, PollIsGood, PollFields, EndIsGood
<1> QED
    BY <1>1, <1>2, <1>3, ClientMoves

\* main counts what it reads, the drain it does not see comes on top of it.
LEMMA CountBounds ==
    ASSUME SeederInv, NEW F, IsFiniteSet(F), Elements(taskPool) \subseteq F
    PROVE  /\ Cardinality(F) \in Nat /\ Load(OnHand) \in Nat
           /\ Load(OnHand) <= Cardinality(F) + MempoolTaskBatch
<1>1. /\ OnHand = Elements(taskPool) \cup Drawn /\ IsFiniteSet(Drawn)
      /\ Load(Drawn) <= MempoolTaskBatch /\ IsFiniteSet(Elements(taskPool))
    BY DrawnFacts DEF SeederInv, NodeInv
<1>2. /\ Load(OnHand) \in Nat /\ Load(Elements(taskPool)) \in Nat /\ Load(Drawn) \in Nat
      /\ Load(OnHand) <= Load(Elements(taskPool)) + Load(Drawn)
    BY <1>1, LoadUnion
<1>3. PICK P : P = Elements(taskPool) /\ P \in SUBSET F
    OBVIOUS
<1>4. Load(P) <= Load(F) /\ Load(F) <= Cardinality(F) /\ Load(F) \in Nat /\ Cardinality(F) \in Nat
    BY <1>3, LoadGrows, LoadFacts
<1> QED
    BY <1>1, <1>2, <1>3, <1>4, BatchAssumption

\* The answer to the second request decides.
LEMMA DecisionKeeps ==
    ASSUME SeederInv, PendingTaskPool
    PROVE  SeederInv'
<1>1. UNCHANGED <<vars, slip>> /\ seeder.pc = "taskPool"
    BY DEF PendingTaskPool
<1>2. GoodClient(seeder, slip) /\ slip \in Nat /\ seeder \in Clients
    BY SeederTypes
<1>3. PICK F : F = seeder.found \cup OfSender(Elements(taskPool), Seed)
    OBVIOUS
<1>4. Elements(taskPool) \subseteq F /\ IsFiniteSet(F)
    <2>1. Elements(taskPool) \subseteq accepted /\ IsFiniteSet(Elements(taskPool))
        BY SeederTypes, DrawnFacts
    <2>2. OfSender(Elements(taskPool), Seed) = Elements(taskPool)
        BY <2>1 DEF OfSender, SeederInv, NodeInv
    <2> QED
        BY <1>2, <1>3, <2>1, <2>2, FS_Union DEF GoodClient
<1>5. PICK count \in Nat : count = Cardinality(F) /\ Load(OnHand) \in Nat
                           /\ Load(OnHand) <= count + MempoolTaskBatch
    BY <1>4, CountBounds
<1>6. PICK pending : pending = seeder.base + count
    OBVIOUS
<1>7. /\ seeder.base \in Nat /\ seeder.latest \in Nat /\ seeder.latest - seeder.base <= slip
      /\ pending \in Nat
    BY <1>1, <1>2, <1>6 DEF GoodClient, Clients
<1>8. seeder' = Fatal \/ seeder' = Answered(pending)
    BY <1>3, <1>5, <1>6 DEF PendingTaskPool
<1>9. CASE seeder' \in {Fatal, Complete, Poll(seeder)}
    <2>1. GoodClient(seeder', slip') /\ seeder'.pc \in {"latest", "end"}
        BY <1>1, <1>2, <1>9, PollIsGood, PollFields, EndIsGood
    <2> QED
        BY <1>1, <1>2, <2>1, ClientMoves
<1>10. CASE seeder' = [Poll(seeder) EXCEPT !.phase = "loop", !.start = pending]
    <2>1. seeder' = [phase |-> "loop", pc |-> "latest", start |-> pending, next |-> seeder.next,
                     latest |-> 0, base |-> 0, found |-> {}, slots |-> 0]
        BY <1>2, <1>10 DEF Poll, Forget, Clients
    <2>2. seeder' \in Clients
        BY <1>2, <1>7, <2>1 DEF Clients
    <2>3. GoodClient(seeder', slip')
        BY <1>2, <2>1, <2>2, FS_EmptySet DEF GoodClient
    <2> QED
        BY <1>1, <1>2, <2>1, <2>3, ClientMoves
<1>11. CASE /\ seeder.phase = "loop" /\ ~(Slots(pending) <= 0)
            /\ seeder' = [Forget(seeder) EXCEPT !.pc = "submit", !.slots = Slots(pending)]
    <2>1. PICK slots : slots = Slots(pending)
        OBVIOUS
    <2>2. slots \in Nat /\ slots >= 1 /\ slots = BatchSize - (pending - seeder.latest)
        BY <1>7, <1>11, <2>1, PlanAssumption DEF Slots
    <2>3. seeder' = [phase |-> "loop", pc |-> "submit", start |-> seeder.start,
                     next |-> seeder.next, latest |-> 0, base |-> 0, found |-> {}, slots |-> slots]
        BY <1>2, <1>11, <2>1 DEF Forget, Clients
    <2>4. seeder' \in Clients
        BY <1>2, <2>2, <2>3 DEF Clients
    <2>5. GoodClient(seeder', slip')
        BY <2>2, <2>3, <2>4, FS_EmptySet DEF GoodClient
    <2>6. Load(OnHand) + slots <= BatchSize + MempoolTaskBatch + slip
        BY <1>2, <1>5, <1>6, <1>7, <2>2, PlanAssumption, BatchAssumption
    <2>7. EngineInv' /\ UNCHANGED <<engineVars, tick, submit>>
        BY <1>1, EngineStep DEF SeederInv, vars
    <2>8. NodeInv' /\ OnHand' = OnHand
        BY <2>7, NodeStays DEF SeederInv
    <2>9. SubmissionInv'
        BY <1>1, <2>3, <2>7 DEF SeederInv, SubmissionInv, NoSubmit
    <2>10. BudgetInv'
        BY <1>1, <2>3, <2>6, <2>8 DEF SeederInv, BudgetInv
    <2> QED
        BY <1>1, <1>2, <2>5, <2>7, <2>8, <2>9, <2>10 DEF SeederInv
<1>12. seeder.phase \in {"start", "loop", "final"}
    BY <1>1, <1>2 DEF GoodClient, Clients
<1> QED
    BY <1>8, <1>9, <1>10, <1>11, <1>12 DEF Answered

\* The miner and the importer, which main does not see: a block, also one that
\* takes nonces back, brings nothing into the pools.
LEMMA NodeKeeps ==
    ASSUME SeederInv, Node
    PROVE  SeederInv'
<1>1. EngineInv /\ NodeInv /\ slip \in Nat /\ GoodClient(seeder, slip)
    BY SeederTypes
<1>2. EngineInv'
    BY <1>1, EngineStep DEF Node, Next
<1>3. UNCHANGED <<seeder, submit, slip>>
    BY DEF Node, seedVars, Miner, Importer, DrainTransfers, DrainTasks, ReadFrontier, Partition,
           PublishInFlight, Crawl, CutTasks, CutTransfers, RequeueFailed, PublishMined, MineBlock,
           RequeueTransfers, RequeueTasks, ClearInFlight, ImportBlock, engineVars
<1>4. NodeInv' /\ OnHand' \subseteq OnHand
    <2>1. CASE Miner
        BY <1>1, <2>1, MinerNarrows DEF Narrows
    <2>2. CASE Importer
        <3>1. UNCHANGED <<txPool, taskPool, inFlight, accepted, tick>>
            BY <2>2 DEF Importer, ImportBlock, poolVars
        <3>2. Drawn' = Drawn /\ OnHand' = OnHand /\ (NoTransfers <=> NoTransfers')
            BY <3>1 DEF Drawn, Hands, OnHand, NoTransfers
        <3> QED
            BY <1>1, <3>1, <3>2 DEF NodeInv
    <2> QED
        BY <2>1, <2>2 DEF Node
<1>5. SubmissionInv'
    BY <1>3 DEF SeederInv, SubmissionInv, NoSubmit
<1> QED
    BY <1>1, <1>2, <1>3, <1>4, <1>5, BudgetKeeps

\* main signs the next task and sends it.
LEMMA SendKeeps ==
    ASSUME SeederInv, Send
    PROVE  SeederInv'
<1>1. PICK t \in Txs : Signs(t) /\ ReadChain(t)
    BY DEF Send
<1>2. seeder.pc = "submit" /\ seeder' = [seeder EXCEPT !.pc = "sent"] /\ UNCHANGED slip
    BY DEF Send
<1>3. /\ UNCHANGED <<engineVars, tick>>
      /\ submit' = [pc |-> "readInFlight", tx |-> t, base |-> nonces[t.from], found |-> {}]
    BY <1>1 DEF ReadChain
<1>4. EngineInv' /\ NodeInv' /\ OnHand' = OnHand
    BY <1>1, <1>3, ReadsPreserve, NodeStays DEF SeederInv
<1>5. seeder \in Clients /\ GoodClient(seeder, slip) /\ slip \in Nat
    BY SeederTypes
<1>6. seeder' \in Clients /\ seeder'.pc = "sent" /\ seeder'.slots = seeder.slots
    BY <1>2, <1>5 DEF Clients
<1>7. GoodClient(seeder', slip')
    BY <1>2, <1>5, <1>6 DEF GoodClient, Clients
<1>8. submit' # NoSubmit /\ submit'.tx = t
    BY <1>3 DEF NoSubmit
<1>9. SubmissionInv'
    BY <1>1, <1>6, <1>8 DEF SubmissionInv, Signs
<1> QED
    BY <1>2, <1>4, <1>5, <1>6, <1>7, <1>9, BudgetKeeps

\* The node reads what it holds and then validates the next nonce.
LEMMA ValidateKeeps ==
    ASSUME SeederInv, Validate
    PROVE  SeederInv'
<1>1. seeder.pc = "sent" /\ UNCHANGED slip /\ (ReadInFlight \/ ReadTxPool \/ ReadTaskPool)
    BY DEF Validate
<1>2. EngineInv' /\ UNCHANGED <<engineVars, tick>>
    BY <1>1, ReadsPreserve DEF SeederInv, ReadInFlight, ReadTxPool, ReadTaskPool
<1>3. NodeInv' /\ OnHand' = OnHand
    BY <1>2, NodeStays DEF SeederInv
<1>4. /\ submit \in Submissions /\ submit # NoSubmit
      /\ submit.tx.from = Seed /\ submit.tx.task
    BY <1>1, SeederTypes DEF SeederInv, SubmissionInv
<1>5. seeder \in Clients /\ GoodClient(seeder, slip) /\ slip \in Nat
    BY SeederTypes
<1>6. ASSUME NEW pc, NEW found, pc # "idle", seeder' = seeder,
             submit' = [submit EXCEPT !.pc = pc, !.found = found]
      PROVE  SeederInv'
    <2>1. submit' # NoSubmit /\ submit'.tx = submit.tx
        BY <1>4, <1>6 DEF Submissions, NoSubmit
    <2>2. SubmissionInv'
        BY <1>1, <1>4, <1>6, <2>1 DEF SubmissionInv
    <2> QED
        BY <1>1, <1>2, <1>3, <1>5, <1>6, <2>2, BudgetKeeps
<1>7. CASE ReadInFlight \/ ReadTxPool
    <2>1. seeder' = seeder
        BY <1>7 DEF Validate, ReadInFlight, ReadTxPool, ReadTaskPool
    <2>2. PICK pc, found : pc # "idle" /\ submit' = [submit EXCEPT !.pc = pc, !.found = found]
        <3>1. CASE ReadInFlight
            BY <3>1 DEF ReadInFlight
        <3>2. CASE ReadTxPool
            <4>1. PICK found : found = submit.found \cup OfSender(Elements(txPool), submit.tx.from)
                OBVIOUS
            <4>2. submit' = [submit EXCEPT !.pc = "readTaskPool", !.found = found]
                BY <1>4, <3>2, <4>1 DEF ReadTxPool, Submissions
            <4> QED
                BY <4>2
        <3> QED
            BY <1>7, <3>1, <3>2
    <2> QED
        BY <1>6, <2>1, <2>2
<1>8. CASE ReadTaskPool
    <2>1. submit.pc = "readTaskPool" /\ ~ReadInFlight /\ ~ReadTxPool
        BY <1>8 DEF ReadTaskPool, ReadInFlight, ReadTxPool
    <2>2. submit' \in {[submit EXCEPT !.pc = "add", !.found = {}], NoSubmit}
        BY <1>8 DEF ReadTaskPool
    <2>3. CASE submit' = [submit EXCEPT !.pc = "add", !.found = {}]
        <3>1. submit'.pc = "add"
            BY <1>4, <2>3 DEF Submissions
        <3>2. seeder' = seeder
            BY <2>1, <3>1 DEF Validate
        <3> QED
            BY <1>6, <2>3, <3>2
    <2>4. CASE submit' = NoSubmit
        <3>1. submit'.pc # "add"
            BY <2>4 DEF NoSubmit
        <3>2. seeder' \in {Poll(seeder), Fatal}
            BY <2>1, <3>1 DEF Validate
        <3>3. GoodClient(seeder', slip') /\ seeder'.pc \in {"latest", "end"}
            BY <1>1, <1>5, <3>2, PollIsGood, PollFields, EndIsGood
        <3>4. SubmissionInv'
            BY <2>4, <3>3 DEF SubmissionInv
        <3> QED
            BY <1>1, <1>2, <1>3, <1>5, <3>3, <3>4, BudgetKeeps
    <2> QED
        BY <2>2, <2>3, <2>4
<1> QED
    BY <1>1, <1>7, <1>8

\* What adding the task does to the node.
LEMMA AddFacts ==
    ASSUME SeederInv, AddToPool, seeder.pc = "sent"
    PROVE  /\ EngineInv' /\ NodeInv' /\ submit' = NoSubmit
           /\ OnHand' \subseteq OnHand \cup {submit.tx}
<1>1. EngineInv' /\ EngineInv /\ NodeInv
    BY AddToPoolPreserves DEF SeederInv
<1>2. submit # NoSubmit /\ submit.tx.from = Seed /\ submit.tx.task
    BY DEF SeederInv, SubmissionInv
<1>3. PICK t : t = submit.tx
    OBVIOUS
<1>4. /\ accepted' = IF Accepts(taskPool, t) THEN accepted \cup {t} ELSE accepted
      /\ taskPool' = Added(taskPool, t) /\ txPool' = txPool /\ submit' = NoSubmit
      /\ UNCHANGED <<inFlight, tick>>
    BY <1>2, <1>3 DEF AddToPool
<1>5. t \in Txs
    BY <1>2, <1>3, SeederTypes DEF Submissions
<1>6. Elements(taskPool') \subseteq Elements(taskPool) \cup {t}
    <2>1. taskPool \in Seq(Txs) /\ OneSlotEach(taskPool)
        BY <1>1 DEF EngineInv, TypeOK
    <2>2. Elements(Added(taskPool, t)) \subseteq Elements(taskPool) \cup {t}
        BY <1>5, <2>1, AddedKeeps
    <2> QED
        BY <1>4, <2>2
<1>7. Drawn' = Drawn /\ (NoTransfers => NoTransfers')
    BY <1>4 DEF Drawn, Hands, NoTransfers
<1>8. accepted \subseteq accepted' /\ accepted' \subseteq accepted \cup {t}
    BY <1>4
<1>9. NodeInv'
    BY <1>1, <1>2, <1>3, <1>4, <1>7, <1>8 DEF NodeInv
<1>10. OnHand' \subseteq OnHand \cup {t}
    BY <1>4, <1>6, <1>7 DEF OnHand
<1> QED
    BY <1>1, <1>3, <1>4, <1>9, <1>10

\* A task that is added stays within the bound, and takes one of the slots.
LEMMA AddKeeps ==
    ASSUME SeederInv, AddToPool, seeder.pc = "sent", UNCHANGED slip,
           GoodClient(seeder', slip'), seeder'.pc # "sent",
           seeder'.pc = "submit" => seeder'.slots = seeder.slots - 1
    PROVE  SeederInv'
<1>1. /\ EngineInv' /\ NodeInv' /\ submit' = NoSubmit
      /\ OnHand' \subseteq OnHand \cup {submit.tx}
    BY AddFacts
<1>2. /\ seeder.slots \in Nat /\ slip \in Nat /\ seeder.slots >= 1
      /\ BatchSize \in Nat /\ MempoolTaskBatch \in Nat
      /\ IsFiniteSet(OnHand) /\ Load(OnHand) \in Nat
    BY SeederTypes DEF GoodClient
<1>3. SubmissionInv'
    BY <1>1 DEF SubmissionInv
<1>4. BudgetInv'
    <2>1. PICK B : B = {submit.tx} /\ IsFiniteSet(B) /\ Cardinality(B) = 1
        BY FS_Singleton
    <2>2. /\ IsFiniteSet(OnHand \cup B) /\ Load(B) \in Nat /\ Load(OnHand \cup B) \in Nat
          /\ Load(OnHand \cup B) <= Load(OnHand) + Load(B)
        BY <1>2, <2>1, LoadUnion
    <2>3. Load(B) <= 1
        BY <2>1, LoadFacts
    <2>4. PICK C : C = OnHand' /\ C \in SUBSET (OnHand \cup B)
        BY <1>1, <2>1
    <2>5. Load(C) \in Nat /\ Load(C) <= Load(OnHand \cup B)
        BY <2>2, <2>4, LoadGrows
    <2>6. Load(OnHand) + seeder.slots <= BatchSize + MempoolTaskBatch + slip
        BY DEF SeederInv, BudgetInv
    <2>7. /\ Load(C) + (seeder.slots - 1) <= BatchSize + MempoolTaskBatch + slip
          /\ Load(C) <= BatchSize + MempoolTaskBatch + slip
        BY <1>2, <2>2, <2>3, <2>5, <2>6
    <2> QED
        BY <2>4, <2>7 DEF BudgetInv
<1> QED
    BY <1>1, <1>2, <1>3, <1>4 DEF SeederInv

\* main hears of it, or does not.
LEMMA AnswersKeep ==
    ASSUME SeederInv, Answer \/ LoseAnswer
    PROVE  SeederInv'
<1>1. /\ seeder.pc = "sent" /\ AddToPool /\ UNCHANGED slip
      /\ seeder' \in {Poll(seeder), Fatal, Advanced(seeder)}
    BY DEF Answer, LoseAnswer
<1>2. seeder \in Clients /\ slip \in Nat /\ GoodClient(seeder, slip)
    BY SeederTypes
<1>3. CASE seeder' \in {Poll(seeder), Fatal}
    <2>1. GoodClient(seeder', slip') /\ seeder'.pc \in {"latest", "end"}
        BY <1>1, <1>2, <1>3, PollIsGood, PollFields, EndIsGood
    <2> QED
        BY <1>1, <2>1, AddKeeps
<1>4. CASE seeder' = Advanced(seeder)
    <2>1. /\ seeder.next \in Nat /\ seeder.slots \in Nat /\ seeder.next + 1 \in Nat
          /\ seeder.phase = "loop" /\ seeder.slots >= 1 /\ IsFiniteSet(seeder.found)
        BY <1>1, <1>2 DEF GoodClient, Clients
    <2>2. PICK c : c = Poll(seeder) /\ c \in Clients /\ c.pc = "latest" /\ c.phase = "loop"
                   /\ c.next = seeder.next /\ IsFiniteSet(c.found)
        BY <1>1, <1>2, <2>1, PollIsGood, PollFields DEF GoodClient
    <2>3. CASE seeder.next + 1 = PlanLength
        <3>1. seeder' = [c EXCEPT !.phase = "final", !.next = seeder.next + 1]
            BY <1>4, <2>2, <2>3 DEF Advanced, Clients
        <3>2. seeder' \in Clients /\ seeder'.pc = "latest"
            BY <2>1, <2>2, <3>1 DEF Clients
        <3>3. GoodClient(seeder', slip')
            BY <2>2, <3>1, <3>2 DEF GoodClient, Clients
        <3> QED
            BY <1>1, <3>2, <3>3, AddKeeps
    <2>4. CASE seeder.next + 1 # PlanLength /\ seeder.slots = 1
        <3>1. seeder' = [c EXCEPT !.next = seeder.next + 1]
            BY <1>4, <2>2, <2>4 DEF Advanced, Clients
        <3>2. seeder' \in Clients /\ seeder'.pc = "latest"
            BY <2>1, <2>2, <3>1 DEF Clients
        <3>3. GoodClient(seeder', slip')
            BY <2>2, <3>1, <3>2 DEF GoodClient, Clients
        <3> QED
            BY <1>1, <3>2, <3>3, AddKeeps
    <2>5. CASE seeder.next + 1 # PlanLength /\ seeder.slots # 1
        <3>1. seeder' = [seeder EXCEPT !.pc = "submit", !.next = seeder.next + 1,
                                       !.slots = seeder.slots - 1]
            BY <1>2, <1>4, <2>5 DEF Advanced, Clients
        <3>2. seeder.slots - 1 \in Nat /\ seeder.slots - 1 >= 1
            BY <2>1, <2>5
        <3>3. seeder' \in Clients /\ seeder'.pc = "submit" /\ seeder'.slots = seeder.slots - 1
            BY <1>2, <2>1, <3>1, <3>2 DEF Clients
        <3>4. GoodClient(seeder', slip')
            BY <1>2, <2>1, <3>1, <3>2, <3>3 DEF GoodClient, Clients
        <3> QED
            BY <1>1, <3>3, <3>4, AddKeeps
    <2> QED
        BY <2>3, <2>4, <2>5
<1> QED
    BY <1>1, <1>3, <1>4

\* main starts against an empty node.
LEMMA SeederInit == SeedInit => SeederInv
<1> SUFFICES ASSUME SeedInit PROVE SeederInv
    OBVIOUS
<1>1. EngineInv
    BY EngineInit DEF SeedInit
<1>2. /\ txPool = <<>> /\ taskPool = <<>> /\ inFlight = NothingInFlight /\ submit = NoSubmit
      /\ tick = NoTick /\ accepted = {} /\ seeder = NewSeeder /\ slip = 0
    BY DEF SeedInit, Init
<1>3. Drawn = {} /\ OnHand = {} /\ NoTransfers /\ inFlight.tasks = {}
    BY <1>2, EmptyPool DEF Drawn, OnHand, Hands, NoTransfers, NoTick, NothingInFlight
<1>4. IsFiniteSet({}) /\ Load({}) = 0
    BY FS_EmptySet DEF Load
<1>5. NodeInv
    BY <1>2, <1>3, <1>4, BatchAssumption DEF NodeInv
<1>6. GoodClient(seeder, slip)
    <2>1. seeder \in Clients
        BY <1>2 DEF NewSeeder, Clients
    <2> QED
        BY <1>2, <2>1, FS_EmptySet DEF NewSeeder, GoodClient
<1>7. SubmissionInv
    BY <1>2 DEF SubmissionInv, NoSubmit, NewSeeder
<1>8. BudgetInv
    BY <1>2, <1>3, <1>4, PlanAssumption, BatchAssumption DEF BudgetInv, NewSeeder
<1> QED
    BY <1>1, <1>2, <1>5, <1>6, <1>7, <1>8 DEF SeederInv

\* The window of the limiter is of no account here.
LEMMA NothingHappens ==
    ASSUME SeederInv, UNCHANGED <<vars, seeder, slip>>
    PROVE  SeederInv'
<1>1. EngineInv' /\ UNCHANGED <<engineVars, tick, submit>>
    BY EngineStep DEF SeederInv, vars
<1>2. NodeInv' /\ OnHand' = OnHand
    BY <1>1, NodeStays DEF SeederInv
<1>3. slip \in Nat /\ GoodClient(seeder, slip)
    BY SeederTypes
<1>4. SubmissionInv'
    BY <1>1 DEF SeederInv, SubmissionInv, NoSubmit
<1> QED
    BY <1>1, <1>2, <1>3, <1>4, BudgetKeeps

\* Every step of main and of the node keeps the invariant.
LEMMA SeederStep ==
    ASSUME SeederInv, [SeedNext]_<<vars, seedVars>>
    PROVE  SeederInv'
<1>1. CASE Request
    BY <1>1, ReadsKeep, DecisionKeeps, SendKeeps, RefusalsKeep, ValidateKeeps, AnswersKeep
       DEF Request
<1>2. CASE Fault
    BY <1>2, AnswersKeep, RefusalsKeep DEF Fault
<1>3. CASE WindowPasses
    BY <1>3, NothingHappens DEF WindowPasses
<1>4. CASE Node
    BY <1>4, NodeKeeps
<1>5. CASE UNCHANGED <<vars, seedVars>>
    BY <1>5, NothingHappens DEF seedVars
<1> QED
    BY <1>1, <1>2, <1>3, <1>4, <1>5 DEF SeedNext

\* What is outstanding is part of what is at the node.
LEMMA OutstandingFits == SeederInv => OutstandingIsBounded
<1> SUFFICES ASSUME SeederInv PROVE OutstandingIsBounded
    OBVIOUS
<1>1. /\ BatchSize \in Nat /\ MempoolTaskBatch \in Nat /\ slip \in Nat
      /\ IsFiniteSet(OnHand) /\ Load(OnHand) \in Nat
    BY SeederTypes
<1>2. PICK A : A = OfSender(Elements(taskPool) \cup Hands, Seed) /\ A \in SUBSET OnHand
    BY DEF OfSender, OnHand, Drawn
<1>3. Load(A) \in Nat /\ Load(A) <= Load(OnHand)
    BY <1>1, <1>2, LoadGrows
<1>4. Cardinality(Outstanding) = Load(A)
    BY <1>2 DEF Outstanding, Load
<1> QED
    BY <1>1, <1>3, <1>4 DEF OutstandingIsBounded, SeederInv, BudgetInv

(***************************************************************************)
(* --batch-size bounds what the seeder has waiting at the node, up to one  *)
(* drain and one slip: main's two requests for nonces miss at most the     *)
(* tasks of one drain, and count as mined at most what a reorganisation    *)
(* took back between them; every task it sends then takes one of the slots *)
(* it computed, also when the answer is lost, and miner and imported       *)
(* blocks, reorganising or not, bring nothing of its work into the node.   *)
(***************************************************************************)
THEOREM SeedingIsBounded == SeedSpec => []OutstandingIsBounded
<1>1. SeedInit => SeederInv
    BY SeederInit
<1>2. SeederInv /\ [SeedNext]_<<vars, seedVars>> => SeederInv'
    BY SeederStep
<1>3. SeederInv => OutstandingIsBounded
    BY OutstandingFits
<1> QED
    BY <1>1, <1>2, <1>3, PTL DEF SeedSpec
=============================================================================
