-------------------------- MODULE ChainSyncProofs --------------------------
(***************************************************************************)
(* ImportRemoteBlock and SyncChain for any tree of blocks, any peers, any  *)
(* responses and any number of calls, gossiped and accepted blocks.        *)
(***************************************************************************)
EXTENDS ChainSync, FiniteSetTheorems, WellFoundedInduction, TLAPS

---------------------------------------------------------------------------
(***************************************************************************)
(* Least and greatest elements.                                            *)
(***************************************************************************)

\* Every nonempty set of naturals has a least element.
LEMMA LeastNatural ==
    ASSUME NEW T, T \subseteq Nat, T # {}
    PROVE  \E x \in T : \A y \in T : x <= y
<1>1. PICK R : R = OpToRel(<, Nat)
    OBVIOUS
<1>2. IsWellFoundedOn(R, Nat)
    BY <1>1, NatLessThanWellFounded
<1>3. PICK x \in T : \A y \in T : ~(<<y, x>> \in R)
    BY <1>2, WFMin
<1>4. ASSUME NEW y \in T PROVE x <= y
    <2>1. y \in Nat /\ x \in Nat
        OBVIOUS
    <2>2. <<y, x>> \notin R
        BY <1>3
    <2>3. y < x => <<y, x>> \in R
        BY <2>1, <1>1 DEF OpToRel
    <2> QED
        BY <2>1, <2>2, <2>3
<1> QED
    BY <1>4

\* m is above all others of S in the relation R.
Greatest(R, S, m) == m \in S /\ \A y \in S \ {m} : <<m, y>> \in R

\* A finite set that R orders totally has a greatest element.
LEMMA FiniteGreatest ==
    ASSUME NEW V, IsFiniteSet(V), NEW R,
           \A x, y \in V : x # y => <<x, y>> \in R \/ <<y, x>> \in R,
           \A x, y, z \in V : <<x, y>> \in R /\ <<y, z>> \in R => <<x, z>> \in R,
           V # {}
    PROVE  \E m : Greatest(R, V, m)
<1> DEFINE Bad == {S \in SUBSET V : S # {} /\ \A m \in S : ~Greatest(R, S, m)}
<1>1. SUFFICES ASSUME Bad # {} PROVE FALSE
    <2>1. V \in SUBSET V
        OBVIOUS
    <2> QED
        BY <1>1, <2>1 DEF Greatest
<1>2. ASSUME NEW S \in SUBSET V
      PROVE  IsFiniteSet(S) /\ Cardinality(S) \in Nat
    BY FS_Subset, FS_CardinalityType
<1>3. PICK S \in Bad : \A T \in Bad : Cardinality(S) <= Cardinality(T)
    <2>1. PICK C : C = {Cardinality(T) : T \in Bad}
        OBVIOUS
    <2>2. C \subseteq Nat /\ C # {}
        BY <1>1, <1>2, <2>1
    <2>3. PICK c \in C : \A d \in C : c <= d
        BY <2>2, LeastNatural
    <2> QED
        BY <2>1, <2>3
<1>4. PICK x \in S : TRUE
    OBVIOUS
<1>5. PICK T : T = S \ {x}
    OBVIOUS
<1>6. T \in SUBSET V /\ Cardinality(T) < Cardinality(S)
    <2>1. Cardinality(S \ {x}) = Cardinality(S) - 1
        BY <1>2, FS_RemoveElement
    <2> QED
        BY <1>2, <1>5, <2>1
<1>7. T \notin Bad
    <2>1. Cardinality(S) \in Nat /\ Cardinality(T) \in Nat
        BY <1>2, <1>6
    <2> QED
        BY <1>3, <1>6, <2>1
<1>8. ~Greatest(R, S, x)
    OBVIOUS
<1>9. T # {}
    BY <1>5, <1>8 DEF Greatest
<1>10. PICK m \in T : Greatest(R, T, m)
    BY <1>6, <1>7, <1>9
<1>11. x \in V /\ m \in V /\ x # m /\ \A y \in S \ {x, m} : <<m, y>> \in R /\ y \in V
    BY <1>5, <1>6, <1>10 DEF Greatest
<1>12. CASE <<m, x>> \in R
    <2>1. Greatest(R, S, m)
        BY <1>5, <1>11, <1>12 DEF Greatest
    <2> QED
        BY <1>5, <2>1
<1>13. CASE <<x, m>> \in R
    <2>1. Greatest(R, S, x)
        BY <1>11, <1>13 DEF Greatest
    <2> QED
        BY <1>8, <2>1
<1> QED
    BY <1>11, <1>12, <1>13

\* takeBufferedChildrenLocked sorts the children it hands over.
LEMMA SortedIsQueue ==
    ASSUME NEW S \in SUBSET Blocks
    PROVE  Sorted(S) \in Seq(S)
<1> DEFINE In(T, s) == s \in [1 .. Cardinality(T) -> T]
                       /\ \A i, j \in 1 .. Cardinality(T) : i < j => s[i] < s[j]
           Bad == {T \in SUBSET Blocks : \A s : ~In(T, s)}
<1>1. ASSUME NEW T \in SUBSET Blocks
      PROVE  IsFiniteSet(T) /\ Cardinality(T) \in Nat /\ T \subseteq Int
    BY BlocksAssumption, FS_Subset, FS_CardinalityType
<1>2. ASSUME Bad # {} PROVE FALSE
    <2>1. PICK T \in Bad : \A U \in Bad : Cardinality(T) <= Cardinality(U)
        <3>1. PICK C : C = {Cardinality(U) : U \in Bad}
            OBVIOUS
        <3>2. C \subseteq Nat /\ C # {}
            BY <1>1, <1>2, <3>1
        <3>3. PICK c \in C : \A d \in C : c <= d
            BY <3>2, LeastNatural
        <3> QED
            BY <3>1, <3>3
    <2>2. IsFiniteSet(T) /\ Cardinality(T) \in Nat /\ T \subseteq Int
        BY <1>1
    <2>3. T # {}
        <3>1. ASSUME T = {} PROVE FALSE
            <4>1. Cardinality(T) = 0
                BY <3>1, FS_EmptySet
            <4>2. PICK s : s = [i \in {} |-> 0]
                OBVIOUS
            <4>3. In(T, s)
                BY <3>1, <4>1, <4>2
            <4> QED
                BY <4>3
        <3> QED
            BY <3>1
    <2>4. PICK m \in T : \A y \in T \ {m} : y < m
        <3>1. PICK R : R = {z \in T \X T : z[2] < z[1]}
            OBVIOUS
        <3>2. \A x, y \in T : <<x, y>> \in R <=> y < x
            BY <3>1
        <3>3. \E m : Greatest(R, T, m)
            <4>1. \A x, y \in T : x # y => <<x, y>> \in R \/ <<y, x>> \in R
                BY <2>2, <3>2
            <4>2. \A x, y, z \in T : <<x, y>> \in R /\ <<y, z>> \in R => <<x, z>> \in R
                BY <2>2, <3>2
            <4> QED
                BY <2>2, <2>3, <4>1, <4>2, FiniteGreatest
        <3> QED
            BY <3>2, <3>3 DEF Greatest
    <2>5. PICK U : U = T \ {m}
        OBVIOUS
    <2>6. PICK n \in Nat : n = Cardinality(U)
        BY <1>1, <2>5
    <2>7. Cardinality(T) = n + 1
        <3>1. Cardinality(T \ {m}) = Cardinality(T) - 1
            BY <2>2, FS_RemoveElement
        <3> QED
            BY <2>2, <2>5, <2>6, <3>1
    <2>8. U \notin Bad
        BY <2>1, <2>6, <2>7
    <2>9. PICK s : In(U, s)
        BY <2>5, <2>8
    <2>10. s \in [1 .. n -> U] /\ \A i, j \in 1 .. n : i < j => s[i] < s[j]
        BY <2>6, <2>9
    <2>11. PICK t : t = [i \in 1 .. n + 1 |-> IF i = n + 1 THEN m ELSE s[i]]
        OBVIOUS
    <2>12. t \in [1 .. n + 1 -> T] /\ \A i, j \in 1 .. n + 1 : i < j => t[i] < t[j]
        <3>1. \A i \in 1 .. n + 1 : i # n + 1 => i \in 1 .. n
            OBVIOUS
        <3>2. \A i \in 1 .. n : s[i] \in T /\ s[i] < m
            BY <2>4, <2>5, <2>10
        <3>3. t \in [1 .. n + 1 -> T]
            BY <2>11, <3>1, <3>2
        <3>4. ASSUME NEW i \in 1 .. n + 1, NEW j \in 1 .. n + 1, i < j PROVE t[i] < t[j]
            <4>1. i \in 1 .. n /\ t[i] = s[i]
                BY <2>11, <3>1, <3>4
            <4>2. CASE j = n + 1
                BY <2>11, <3>2, <4>1, <4>2
            <4>3. CASE j # n + 1
                BY <2>10, <2>11, <3>1, <3>4, <4>1, <4>3
            <4> QED
                BY <4>2, <4>3
        <3> QED
            BY <3>3, <3>4
    <2>13. In(T, t)
        BY <2>7, <2>12
    <2> QED
        BY <2>1, <2>13
<1>3. PICK s : In(S, s)
    BY <1>2
<1>4. Sorted(S) \in [1 .. Cardinality(S) -> S]
    <2>1. \E q \in [1 .. Cardinality(S) -> S] : \A i, j \in DOMAIN q : i < j => q[i] < q[j]
        BY <1>3
    <2> QED
        BY <2>1 DEF Sorted
<1>5. Cardinality(S) \in Nat
    BY <1>1
<1> QED
    BY <1>4, <1>5

---------------------------------------------------------------------------
(***************************************************************************)
(* The chain of a node: it has one block at every height up to the tip,    *)
(* and each block's parent is the block below it.                          *)
(***************************************************************************)

\* The preferred block of a tree is one of its blocks.
LEMMA TipInTree ==
    ASSUME NEW S \in Trees
    PROVE  Tip[S] \in S /\ S \subseteq Blocks \cup {Genesis} /\ Number[Tip[S]] \in Nat
<1>1. S \subseteq Blocks \cup {Genesis} /\ Genesis \in S
    BY DEF Trees
<1>2. IsFiniteSet(S)
    <2>1. IsFiniteSet(Blocks \cup {Genesis})
        BY BlocksAssumption, FS_AddElement
    <2> QED
        BY <1>1, <2>1, FS_Subset
<1>3. PICK R : R = {z \in S \X S : Heavier(z[1], z[2])}
    OBVIOUS
<1>4. \A x, y \in S : <<x, y>> \in R <=> Heavier(x, y)
    BY <1>3
<1>5. \A x \in S : Number[x] \in Nat /\ Total[x] \in Nat
    BY <1>1, NumberAssumption, TotalAssumption
<1>6. \A x \in S : x # Genesis => Number[x] # 0 /\ x \in Int
    <2>1. ASSUME NEW x \in Blocks PROVE Number[x] # 0
        <3>1. Number[Parent[x]] \in Nat
            BY NumberAssumption, ParentAssumption
        <3> QED
            BY <3>1, NumberAssumption
    <2> QED
        BY <1>1, <2>1, BlocksAssumption
<1>7. ASSUME NEW x \in S, NEW y \in S, x # y PROVE <<x, y>> \in R \/ <<y, x>> \in R
    <2>1. Number[x] = Number[y] => x \in Int /\ y \in Int
        BY <1>6, <1>7, NumberAssumption
    <2>2. Heavier(x, y) \/ Heavier(y, x)
        BY <1>5, <1>7, <2>1 DEF Heavier
    <2> QED
        BY <1>4, <2>2
<1>8. ASSUME NEW x \in S, NEW y \in S, NEW z \in S, <<x, y>> \in R, <<y, z>> \in R
      PROVE  <<x, z>> \in R
    <2>1. Heavier(x, y) /\ Heavier(y, z)
        BY <1>4, <1>8
    <2>2. Number[x] = Number[y] /\ Number[y] = Number[z] =>
            (x \in Int /\ y \in Int /\ z \in Int) \/ (x = Genesis /\ y = Genesis /\ z = Genesis)
        BY <1>6, NumberAssumption
    <2>3. Heavier(x, z)
        BY <1>5, <2>1, <2>2 DEF Heavier
    <2> QED
        BY <1>4, <2>3
<1>9. \E t \in S : \A b \in S \ {t} : Heavier(t, b)
    <2>1. PICK m : Greatest(R, S, m)
        BY <1>1, <1>2, <1>7, <1>8, FiniteGreatest
    <2> QED
        BY <1>4, <2>1 DEF Greatest
<1>10. Tip[S] = CHOOSE t \in S : \A b \in S \ {t} : Heavier(t, b)
    BY DEF Tip
<1>11. Tip[S] \in S
    BY <1>9, <1>10
<1> QED
    BY <1>1, <1>5, <1>11

\* What Ancestry is made of.
LEMMA AncestryFacts ==
    ASSUME NEW b \in Blocks
    PROVE  /\ Ancestry[b] \subseteq Blocks /\ b \in Ancestry[b]
           /\ \A c \in Ancestry[b] : Parent[c] \in Ancestry[b] \cup {Genesis}
           /\ \A S \in SUBSET Blocks :
                (b \in S /\ \A c \in S : Parent[c] \in S \cup {Genesis}) => Ancestry[b] \subseteq S
<1>1. Ancestry[b] = {a \in Blocks : \A S \in SUBSET Blocks :
            (b \in S /\ \A c \in S : Parent[c] \in S \cup {Genesis}) => a \in S}
    BY DEF Ancestry
<1>2. ASSUME NEW c \in Ancestry[b], Parent[c] # Genesis PROVE Parent[c] \in Ancestry[b]
    <2>1. c \in Blocks /\ Parent[c] \in Blocks
        BY <1>1, <1>2, ParentAssumption
    <2>2. ASSUME NEW S \in SUBSET Blocks, b \in S, \A d \in S : Parent[d] \in S \cup {Genesis}
          PROVE  Parent[c] \in S
        <3>1. c \in S
            BY <1>1, <2>2
        <3> QED
            BY <1>2, <2>2, <3>1
    <2> QED
        BY <1>1, <2>1, <2>2
<1> QED
    BY <1>1, <1>2

\* The path from a block to genesis has one block at each height.
LEMMA AncestryNumbers ==
    ASSUME NEW b \in Blocks
    PROVE  /\ \A c \in Ancestry[b] : Number[c] \in 1 .. Number[b]
           /\ \A n \in 1 .. Number[b] : \E c \in Ancestry[b] : Number[c] = n
           /\ \A c, d \in Ancestry[b] : Number[c] = Number[d] => c = d
<1>1. PICK A : A = Ancestry[b]
    OBVIOUS
<1>2. /\ A \subseteq Blocks /\ b \in A /\ \A c \in A : Parent[c] \in A \cup {Genesis}
      /\ \A S \in SUBSET Blocks :
            (b \in S /\ \A c \in S : Parent[c] \in S \cup {Genesis}) => A \subseteq S
    BY <1>1, AncestryFacts
<1>3. \A c \in Blocks : /\ Number[c] \in Nat /\ Number[c] >= 1 /\ Number[c] = Number[Parent[c]] + 1
                        /\ Parent[c] \in Blocks \cup {Genesis} /\ Number[Parent[c]] \in Nat
    <2>1. ASSUME NEW c \in Blocks
          PROVE  /\ Number[c] = Number[Parent[c]] + 1 /\ Number[Parent[c]] \in Nat
                 /\ Parent[c] \in Blocks \cup {Genesis}
        BY NumberAssumption, ParentAssumption
    <2> QED
        BY <2>1
<1>4. \A c \in A : Number[c] \in 1 .. Number[b] /\ (Number[c] = Number[b] => c = b)
    <2> DEFINE S == {c \in A : Number[c] < Number[b] \/ c = b}
    <2>1. b \in S /\ S \in SUBSET Blocks
        BY <1>2
    <2>2. ASSUME NEW c \in S PROVE Parent[c] \in S \cup {Genesis}
        <3>1. c \in A /\ c \in Blocks /\ Number[c] <= Number[b]
            BY <1>2, <1>3
        <3>2. Number[Parent[c]] < Number[b]
            BY <1>3, <3>1
        <3> QED
            BY <1>2, <3>1, <3>2
    <2>3. A \subseteq S
        <3> HIDE DEF S
        <3> QED
            BY <1>2, <2>1, <2>2
    <2>4. ASSUME NEW c \in A PROVE Number[c] \in 1 .. Number[b] /\ (Number[c] = Number[b] => c = b)
        <3>1. c \in Blocks /\ (Number[c] < Number[b] \/ c = b)
            BY <1>2, <2>3
        <3> QED
            BY <1>3, <3>1
    <2> QED
        BY <2>4
<1>5. ASSUME NEW n \in 1 .. Number[b], \A c \in A : Number[c] # n PROVE FALSE
    <2> DEFINE S == {c \in A : Number[c] > n}
    <2>1. b \in S
        BY <1>2, <1>3, <1>5
    <2>2. PICK c \in S : \A d \in S : Number[c] <= Number[d]
        <3>1. PICK N : N = {Number[d] : d \in S}
            OBVIOUS
        <3>2. N \subseteq Nat /\ N # {}
            BY <1>2, <1>3, <2>1, <3>1
        <3>3. PICK x \in N : \A y \in N : x <= y
            BY <3>2, LeastNatural
        <3> QED
            BY <3>1, <3>3
    <2>3. c \in Blocks /\ c \in A /\ Number[c] > n
        BY <1>2
    <2>4. Number[Parent[c]] >= n /\ Number[Parent[c]] < Number[c]
        BY <1>3, <2>3
    <2>5. Parent[c] # Genesis
        BY <2>4, NumberAssumption
    <2>6. Parent[c] \in A
        BY <1>2, <2>3, <2>5
    <2>7. Parent[c] \in S
        BY <1>2, <1>3, <1>5, <2>4, <2>6
    <2> QED
        BY <1>3, <2>2, <2>3, <2>4, <2>7
<1>6. ASSUME NEW c \in A, c # b PROVE \E e \in A : Parent[e] = c
    <2>1. SUFFICES ASSUME \A e \in A : Parent[e] # c PROVE FALSE
        OBVIOUS
    <2>2. A \ {c} \in SUBSET Blocks /\ b \in A \ {c}
        BY <1>2, <1>6
    <2>3. \A e \in A \ {c} : Parent[e] \in (A \ {c}) \cup {Genesis}
        BY <1>2, <2>1
    <2>4. A \subseteq A \ {c}
        BY <1>2, <2>2, <2>3
    <2> QED
        BY <2>4
<1>7. ASSUME NEW x \in A, NEW y \in A, Number[x] = Number[y], x # y PROVE FALSE
    <2> DEFINE Twins == {c \in A : \E d \in A : d # c /\ Number[d] = Number[c]}
    <2>1. PICK c \in Twins : \A d \in Twins : Number[b] - Number[c] <= Number[b] - Number[d]
        <3>1. PICK N : N = {Number[b] - Number[d] : d \in Twins}
            OBVIOUS
        <3>2. \A d \in A : Number[b] - Number[d] \in Nat
            BY <1>2, <1>3, <1>4
        <3>3. N \subseteq Nat /\ N # {}
            BY <1>7, <3>1, <3>2
        <3>4. PICK z \in N : \A w \in N : z <= w
            BY <3>3, LeastNatural
        <3> QED
            BY <3>1, <3>4
    <2>2. PICK d \in A : d # c /\ Number[d] = Number[c]
        OBVIOUS
    <2>3. c # b /\ d # b
        <3>1. Number[b] \in Nat
            BY <1>2, <1>3
        <3> QED
            BY <1>4, <2>2
    <2>4. PICK e \in A : Parent[e] = c
        BY <1>6, <2>3
    <2>5. PICK f \in A : Parent[f] = d
        BY <1>6, <2>2, <2>3
    <2>6. e # f /\ Number[e] = Number[f] /\ Number[e] = Number[c] + 1
        BY <1>2, <1>3, <2>2, <2>4, <2>5
    <2>7. e \in Twins
        BY <2>6
    <2>8. Number[b] \in Nat /\ Number[c] \in Nat /\ Number[e] \in Nat
        BY <1>2, <1>3
    <2> QED
        BY <2>1, <2>6, <2>7, <2>8
<1> QED
    BY <1>1, <1>4, <1>5, <1>7

\* GetBlockByNumber finds at each height up to the tip the block of that
\* height, above its parent; the tip is at the top.
LEMMA ChainFacts ==
    ASSUME NEW S \in Trees
    PROVE  /\ DOMAIN Chain[S] = 0 .. Number[Tip[S]]
           /\ \A n \in 0 .. Number[Tip[S]] :
                /\ Chain[S][n] \in Blocks \cup {Genesis} /\ Number[Chain[S][n]] = n
                /\ n >= 1 => Chain[S][n] \in Blocks /\ Parent[Chain[S][n]] = Chain[S][n - 1]
           /\ Chain[S][Number[Tip[S]]] = Tip[S]
<1>1. PICK t : t = Tip[S]
    OBVIOUS
<1>2. t \in Blocks \cup {Genesis} /\ Number[t] \in Nat
    BY <1>1, TipInTree
<1>3. PICK path : path = {Genesis} \cup (IF t = Genesis THEN {} ELSE Ancestry[t])
    OBVIOUS
<1>4. Chain[S] = [n \in 0 .. Number[t] |-> CHOOSE b \in path : Number[b] = n]
    BY <1>1, <1>3 DEF Chain
<1>5. Genesis \notin Blocks /\ Number[Genesis] = 0
    BY BlocksAssumption, NumberAssumption
<1>6. /\ path \subseteq Blocks \cup {Genesis} /\ t \in path
      /\ \A n \in 0 .. Number[t] : \E b \in path : Number[b] = n
      /\ \A a, b \in path : Number[a] = Number[b] => a = b
      /\ \A b \in path : b # Genesis => b \in Blocks /\ Parent[b] \in path
    <2>1. CASE t = Genesis
        BY <1>3, <1>5, <2>1
    <2>2. CASE t # Genesis
        <3>1. t \in Blocks /\ path = {Genesis} \cup Ancestry[t]
            BY <1>2, <1>3, <2>2
        <3>2. /\ Ancestry[t] \subseteq Blocks /\ t \in Ancestry[t]
              /\ \A c \in Ancestry[t] : Parent[c] \in Ancestry[t] \cup {Genesis}
            BY <3>1, AncestryFacts
        <3>3. /\ \A c \in Ancestry[t] : Number[c] \in 1 .. Number[t]
              /\ \A n \in 1 .. Number[t] : \E c \in Ancestry[t] : Number[c] = n
              /\ \A c, d \in Ancestry[t] : Number[c] = Number[d] => c = d
            BY <3>1, AncestryNumbers
        <3>4. ASSUME NEW n \in 0 .. Number[t] PROVE \E b \in path : Number[b] = n
            <4>1. CASE n = 0
                BY <1>5, <3>1, <4>1
            <4>2. CASE n # 0
                <5>1. n \in 1 .. Number[t]
                    BY <1>2, <4>2
                <5> QED
                    BY <3>1, <3>3, <5>1
            <4> QED
                BY <4>1, <4>2
        <3>5. ASSUME NEW a \in path, NEW b \in path, Number[a] = Number[b] PROVE a = b
            <4>1. \A c \in Ancestry[t] : Number[c] # 0
                BY <1>2, <3>3
            <4> QED
                BY <1>5, <3>1, <3>3, <3>5, <4>1
        <3> QED
            BY <1>5, <3>1, <3>2, <3>4, <3>5
    <2> QED
        BY <2>1, <2>2
<1>7. ASSUME NEW n \in 0 .. Number[t]
      PROVE  Chain[S][n] \in path /\ Number[Chain[S][n]] = n
    BY <1>4, <1>6
<1>8. ASSUME NEW n \in 0 .. Number[t], n >= 1
      PROVE  Chain[S][n] \in Blocks /\ Parent[Chain[S][n]] = Chain[S][n - 1]
    <2>1. PICK c : c = Chain[S][n]
        OBVIOUS
    <2>2. c \in path /\ Number[c] = n
        BY <1>7, <2>1
    <2>3. c # Genesis
        BY <1>5, <1>8, <2>2
    <2>4. c \in Blocks /\ Parent[c] \in path
        BY <1>6, <2>2, <2>3
    <2>5. Number[c] = Number[Parent[c]] + 1 /\ Number[Parent[c]] \in Nat
        BY <2>4, NumberAssumption, ParentAssumption
    <2>6. n - 1 \in 0 .. Number[t]
        BY <1>2, <1>8
    <2>7. Chain[S][n - 1] \in path /\ Number[Chain[S][n - 1]] = n - 1
        BY <1>7, <2>6
    <2>8. Number[Parent[c]] = n - 1
        BY <2>2, <2>5
    <2> QED
        BY <1>6, <2>1, <2>4, <2>7, <2>8
<1>9. Chain[S][Number[t]] = t
    <2>1. Number[t] \in 0 .. Number[t]
        BY <1>2
    <2> QED
        BY <1>6, <1>7, <2>1
<1>10. DOMAIN Chain[S] = 0 .. Number[t]
    BY <1>4
<1> QED
    BY <1>1, <1>6, <1>7, <1>8, <1>9, <1>10

---------------------------------------------------------------------------
(***************************************************************************)
(* The steps of ImportRemoteBlock.                                         *)
(***************************************************************************)
Calls == [pc : {"idle", "hasBlock", "hasParent", "decide", "import", "take"},
          queue : Seq(Blocks), hasBlock : BOOLEAN, hasParent : BOOLEAN]

\* A call is at work exactly while it has blocks queued.
WorkersOK(f) ==
    f \in [Workers -> Calls] /\ \A w \in Workers : f[w].pc = "idle" <=> f[w].queue = <<>>

\* The record of a call.
LEMMA CallMade ==
    ASSUME NEW p \in {"idle", "hasBlock", "hasParent", "decide", "import", "take"},
           NEW q \in Seq(Blocks), NEW a \in BOOLEAN, NEW b \in BOOLEAN
    PROVE  [pc |-> p, queue |-> q, hasBlock |-> a, hasParent |-> b] \in Calls
    BY DEF Calls

\* The candidate of a call that is at work, and what comes after it.
LEMMA CandidateFacts ==
    ASSUME WorkersOK(worker), NEW w \in Workers, worker[w].pc # "idle"
    PROVE  /\ worker[w] \in Calls /\ worker[w].queue \in Seq(Blocks) /\ worker[w].queue # <<>>
           /\ Candidate(w) \in Blocks /\ Tail(worker[w].queue) \in Seq(Blocks)
           /\ Parent[Candidate(w)] \in Blocks \cup {Genesis}
<1>1. worker[w] \in Calls /\ worker[w].queue # <<>>
    BY DEF WorkersOK
<1>2. worker[w].queue \in Seq(Blocks)
    BY <1>1 DEF Calls
<1>3. Candidate(w) \in Blocks /\ Tail(worker[w].queue) \in Seq(Blocks)
    BY <1>1, <1>2 DEF Candidate
<1> QED
    BY <1>1, <1>2, <1>3, ParentAssumption

\* The loop goes on at its top or the call returns.
LEMMA ContinueFacts ==
    ASSUME WorkersOK(worker), NEW w \in Workers, NEW q \in Seq(Blocks), Continue(w, q)
    PROVE  /\ WorkersOK(worker') /\ \A v \in Workers : v # w => worker'[v] = worker[v]
           /\ worker'[w].pc = (IF q = <<>> THEN "idle" ELSE "hasBlock")
           /\ worker'[w].queue = q
<1>1. PICK c : c = IF q = <<>> THEN IdleWorker ELSE [IdleWorker EXCEPT !.pc = "hasBlock", !.queue = q]
    OBVIOUS
<1>2. worker' = [worker EXCEPT ![w] = c] /\ worker \in [Workers -> Calls]
    BY <1>1 DEF Continue, WorkersOK
<1>3. c \in Calls /\ c.queue = q /\ c.pc = (IF q = <<>> THEN "idle" ELSE "hasBlock")
    <2>1. CASE q = <<>>
        <3>1. c = [pc |-> "idle", queue |-> <<>>, hasBlock |-> FALSE, hasParent |-> FALSE]
            BY <1>1, <2>1 DEF IdleWorker
        <3> QED
            BY <2>1, <3>1, CallMade
    <2>2. CASE q # <<>>
        <3>1. c = [pc |-> "hasBlock", queue |-> q, hasBlock |-> FALSE, hasParent |-> FALSE]
            BY <1>1, <2>2 DEF IdleWorker
        <3> QED
            BY <2>2, <3>1, CallMade
    <2> QED
        BY <2>1, <2>2
<1>4. worker' \in [Workers -> Calls] /\ worker'[w] = c
      /\ \A v \in Workers : v # w => worker'[v] = worker[v]
    BY <1>2, <1>3
<1>5. \A v \in Workers : worker'[v].pc = "idle" <=> worker'[v].queue = <<>>
    BY <1>3, <1>4 DEF WorkersOK
<1> QED
    BY <1>3, <1>4, <1>5 DEF WorkersOK

\* The invariant in pieces that the steps disturb one at a time.
LEMMA ImportInvParts ==
    ImportInv <=>
        /\ stored \subseteq Blocks \cup {Genesis}
        /\ bufferedByHash \subseteq Blocks
        /\ bufferedByParent \in [Blocks \cup {Genesis} -> SUBSET Blocks]
        /\ WorkersOK(worker)
        /\ received \subseteq Blocks /\ dropped \subseteq received /\ overlapped \in BOOLEAN
        /\ \A p \in Blocks \cup {Genesis} :
            bufferedByParent[p] = {b \in bufferedByHash : Parent[b] = p}
        /\ OnlyReceived /\ StoredIsTree
        /\ ~overlapped => CallsInTurn
    BY DEF ImportInv, BufferMapsAgree, TypeOK, WorkersOK, Calls

\* A call at work moves on to another place of the loop.
LEMMA PlaceChanged ==
    ASSUME WorkersOK(worker), NEW w \in Workers, worker[w].pc # "idle",
           NEW p \in {"hasBlock", "hasParent", "decide", "import", "take"},
           worker' = [worker EXCEPT ![w].pc = p]
    PROVE  /\ WorkersOK(worker') /\ \A v \in Workers : v # w => worker'[v] = worker[v]
           /\ worker'[w].pc = p /\ worker'[w].queue = worker[w].queue
           /\ worker'[w].hasParent = worker[w].hasParent
           /\ Candidate(w)' = Candidate(w)
<1>1. PICK c \in Calls : c = worker[w]
    BY CandidateFacts
<1>2. PICK d : d = [c EXCEPT !.pc = p]
    OBVIOUS
<1>3. d \in Calls /\ d.pc = p /\ d.queue = c.queue /\ d.hasParent = c.hasParent
    BY <1>2 DEF Calls
<1>4. worker' = [worker EXCEPT ![w] = d] /\ worker \in [Workers -> Calls]
    BY <1>1, <1>2 DEF WorkersOK
<1>5. worker' \in [Workers -> Calls] /\ worker'[w] = d
      /\ \A v \in Workers : v # w => worker'[v] = worker[v]
    BY <1>3, <1>4
<1>6. WorkersOK(worker')
    <2>1. p # "idle"
        OBVIOUS
    <2> QED
        BY <1>1, <1>3, <1>5, <2>1 DEF WorkersOK
<1>7. Candidate(w)' = Candidate(w)
    BY <1>1, <1>3, <1>5 DEF Candidate
<1> QED
    BY <1>1, <1>3, <1>5, <1>6, <1>7

\* What a step queues or buffers it was given, had queued or had buffered.
LEMMA ReceivedPreserved ==
    ASSUME ImportInv, NEW w \in Workers,
           \/ \E b \in Blocks : Receive(w, b)
           \/ CheckBlock(w) \/ CheckParent(w) \/ Decide(w) \/ Import(w) \/ TakeChildren(w)
           \/ Refuse(w)
    PROVE  OnlyReceived'
<1>1. /\ WorkersOK(worker) /\ OnlyReceived /\ received \subseteq Blocks
      /\ worker \in [Workers -> Calls]
    BY ImportInvParts DEF WorkersOK
<1>2. ASSUME received \subseteq received', bufferedByHash' \subseteq received',
             \A v \in Workers : v # w => worker'[v] = worker[v],
             Elements(worker'[w].queue) \subseteq received'
      PROVE  OnlyReceived'
    BY <1>1, <1>2 DEF OnlyReceived
<1>3. ASSUME NEW q \in Seq(Blocks), Continue(w, q)
      PROVE  /\ \A v \in Workers : v # w => worker'[v] = worker[v]
             /\ worker'[w].queue = q
    BY <1>1, <1>3, ContinueFacts
<1>4. CASE \E b \in Blocks : Receive(w, b)
    <2>1. PICK b \in Blocks : Receive(w, b)
        BY <1>4
    <2>2. worker'[w].queue = <<b>> /\ \A v \in Workers : v # w => worker'[v] = worker[v]
        <3>1. <<b>> \in Seq(Blocks)
            OBVIOUS
        <3> QED
            BY <1>3, <2>1, <3>1 DEF Receive
    <2>3. Elements(worker'[w].queue) = {b}
        BY <2>2 DEF Elements
    <2>4. received' = received \cup {b} /\ bufferedByHash' = bufferedByHash
        BY <2>1 DEF Receive
    <2> QED
        BY <1>1, <1>2, <2>2, <2>3, <2>4 DEF OnlyReceived
<1>5. CASE worker[w].pc # "idle" /\ received' = received
    <2>1. PICK q \in Seq(Blocks) : q = worker[w].queue /\ q # <<>>
        BY <1>1, <1>5, CandidateFacts
    <2>2. Elements(q) \subseteq received /\ bufferedByHash \subseteq received
        BY <1>1, <2>1 DEF OnlyReceived
    <2>3. Tail(q) \in Seq(Blocks) /\ Elements(Tail(q)) \subseteq received /\ Head(q) \in received
        BY <2>1, <2>2 DEF Elements
    <2>4. CASE CheckBlock(w) \/ CheckParent(w)
        <3>1. bufferedByHash' = bufferedByHash
            BY <2>4 DEF CheckBlock, CheckParent
        <3>2. \A v \in Workers : v # w => worker'[v] = worker[v]
            BY <1>1, <2>4 DEF CheckBlock, CheckParent
        <3>3. worker'[w].queue = q
            BY <1>1, <2>1, <2>4 DEF CheckBlock, CheckParent, Calls
        <3> QED
            BY <1>2, <1>5, <2>2, <3>1, <3>2, <3>3
    <2>5. CASE Decide(w) \/ Import(w)
        <3>1. bufferedByHash' \subseteq received
            <4>1. Candidate(w) \in received
                BY <2>1, <2>3 DEF Candidate
            <4> QED
                BY <2>2, <2>5, <4>1 DEF Decide, Import, Buffer
        <3>2. CASE Continue(w, Tail(q))
            BY <1>2, <1>3, <1>5, <2>3, <3>1, <3>2
        <3>3. CASE worker' = [worker EXCEPT ![w].pc = "import"]
                   \/ worker' = [worker EXCEPT ![w].pc = "take"]
            <4>1. worker'[w].queue = q /\ \A v \in Workers : v # w => worker'[v] = worker[v]
                BY <1>1, <1>5, <2>1, <3>3, PlaceChanged
            <4> QED
                BY <1>2, <1>5, <2>2, <3>1, <4>1
        <3> QED
            BY <2>1, <2>5, <3>2, <3>3 DEF Decide, Import
    <2>6. CASE TakeChildren(w)
        <3>1. PICK children : children = bufferedByParent[Candidate(w)] \cap bufferedByHash
            OBVIOUS
        <3>2. children \subseteq received /\ children \subseteq Blocks
              /\ bufferedByHash' \subseteq received
            BY <1>1, <2>2, <2>6, <3>1 DEF TakeChildren
        <3>3. PICK s : s = Sorted(children)
            OBVIOUS
        <3>4. s \in Seq(children)
            BY <3>2, <3>3, SortedIsQueue
        <3>5. s \in Seq(Blocks) /\ Elements(s) \subseteq received
            BY <3>2, <3>4 DEF Elements
        <3>6. s \o Tail(q) \in Seq(Blocks) /\ Elements(s \o Tail(q)) \subseteq received
            <4>1. Elements(s \o Tail(q)) \subseteq Elements(s) \cup Elements(Tail(q))
                <5>1. PICK t : t = Tail(q)
                    OBVIOUS
                <5>2. t \in Seq(Blocks)
                    BY <2>3, <5>1
                <5>3. ASSUME NEW i \in DOMAIN (s \o t)
                      PROVE  (s \o t)[i] \in Elements(s) \cup Elements(t)
                    <6>1. Len(s) \in Nat /\ Len(t) \in Nat /\ i \in 1 .. Len(s) + Len(t)
                        BY <3>5, <5>2
                    <6>2. CASE i <= Len(s)
                        <7>1. i \in DOMAIN s /\ (s \o t)[i] = s[i]
                            BY <3>5, <5>2, <6>1, <6>2
                        <7> QED
                            BY <7>1 DEF Elements
                    <6>3. CASE i > Len(s)
                        <7>1. i - Len(s) \in DOMAIN t /\ (s \o t)[i] = t[i - Len(s)]
                            BY <3>5, <5>2, <6>1, <6>3
                        <7> QED
                            BY <7>1 DEF Elements
                    <6> QED
                        BY <6>1, <6>2, <6>3
                <5>4. Elements(s \o t) \subseteq Elements(s) \cup Elements(t)
                    BY <5>3 DEF Elements
                <5> QED
                    BY <5>1, <5>4
            <4> QED
                BY <2>3, <3>5, <4>1
        <3>7. Continue(w, s \o Tail(q))
            BY <2>1, <2>6, <3>1, <3>3 DEF TakeChildren
        <3> QED
            BY <1>2, <1>3, <1>5, <3>2, <3>6, <3>7
    <2>7. CASE Refuse(w)
        <3>1. bufferedByHash' = bufferedByHash
            BY <2>7 DEF Refuse
        <3>2. worker'[w] = IdleWorker /\ \A v \in Workers : v # w => worker'[v] = worker[v]
            BY <1>1, <2>7 DEF Refuse
        <3>3. Elements(worker'[w].queue) = {}
            BY <3>2 DEF Elements, IdleWorker
        <3> QED
            BY <1>2, <1>5, <2>2, <3>1, <3>2, <3>3
    <2>8. CASE \E b \in Blocks : Receive(w, b)
        BY <1>4, <2>8
    <2> QED
        BY <2>4, <2>5, <2>6, <2>7, <2>8
<1>6. ASSUME ~(\E b \in Blocks : Receive(w, b)) PROVE worker[w].pc # "idle" /\ received' = received
    BY <1>6 DEF CheckBlock, CheckParent, Decide, Import, TakeChildren, Refuse
<1> QED
    BY <1>4, <1>5, <1>6

\* A call starts.
LEMMA ReceivePreserves ==
    ASSUME ImportInv, NEW w \in Workers, NEW b \in Blocks, Receive(w, b)
    PROVE  ImportInv'
<1>1. WorkersOK(worker) /\ <<b>> \in Seq(Blocks) /\ <<b>> # <<>>
    BY ImportInvParts
<1>2. /\ WorkersOK(worker') /\ \A v \in Workers : v # w => worker'[v] = worker[v]
      /\ worker'[w].pc = "hasBlock"
    BY <1>1, ContinueFacts DEF Receive
<1>3. ASSUME ~overlapped' PROVE CallsInTurn'
    <2>1. ~overlapped /\ \A v \in Workers : worker[v].pc = "idle"
        BY <1>3 DEF Receive
    <2>2. CallsInTurn
        BY <2>1, ImportInvParts
    <2>3. \A v \in Workers : v # w => worker'[v].pc = "idle"
        BY <1>2, <2>1
    <2>4. \A c \in bufferedByHash : Parent[c] \notin stored
        BY <2>1, <2>2 DEF CallsInTurn
    <2> QED
        BY <1>2, <2>3, <2>4 DEF CallsInTurn, Receive
<1>4. StoredIsTree'
    BY ImportInvParts DEF Receive, StoredIsTree
<1>5. received' \subseteq Blocks /\ dropped' \subseteq received'
    BY ImportInvParts DEF Receive
<1>6. overlapped' \in BOOLEAN
    BY DEF Receive
<1>7. /\ stored' \subseteq Blocks \cup {Genesis} /\ bufferedByHash' \subseteq Blocks
      /\ bufferedByParent' \in [Blocks \cup {Genesis} -> SUBSET Blocks]
      /\ \A p \in Blocks \cup {Genesis} :
            bufferedByParent'[p] = {c \in bufferedByHash' : Parent[c] = p}
    BY ImportInvParts DEF Receive
<1>8. ~overlapped' => CallsInTurn'
    BY <1>3
<1>9. OnlyReceived'
    BY ReceivedPreserved
<1> QED
    BY <1>2, <1>4, <1>5, <1>6, <1>7, <1>8, <1>9
       DEF ImportInv, BufferMapsAgree, TypeOK, WorkersOK, Calls

\* The two reads of the store.
LEMMA CheckPreserves ==
    ASSUME ImportInv, NEW w \in Workers, CheckBlock(w) \/ CheckParent(w)
    PROVE  ImportInv'
<1>1. WorkersOK(worker) /\ worker[w].pc # "idle"
    BY ImportInvParts DEF CheckBlock, CheckParent
<1>2. UNCHANGED <<stored, bufferedByHash, bufferedByParent, received, dropped, overlapped>>
    BY DEF CheckBlock, CheckParent
<1>3. PICK c \in Calls : c = worker[w]
    BY <1>1, CandidateFacts
<1>4. PICK d \in Calls :
        /\ worker' = [worker EXCEPT ![w] = d] /\ d.queue = c.queue
        /\ d.pc \in {"hasParent", "decide"} /\ c.pc # "idle" /\ c.pc # "take"
        /\ d.pc = "decide" => d.hasParent = (Parent[Candidate(w)] \in stored)
    <2>1. c = [pc |-> c.pc, queue |-> c.queue, hasBlock |-> c.hasBlock, hasParent |-> c.hasParent]
          /\ c.queue \in Seq(Blocks) /\ c.hasBlock \in BOOLEAN /\ c.hasParent \in BOOLEAN
        BY DEF Calls
    <2>2. CASE CheckBlock(w)
        <3> DEFINE a == Candidate(w) \in stored
                   d == [pc |-> "hasParent", queue |-> c.queue, hasBlock |-> a,
                         hasParent |-> c.hasParent]
        <3>1. a \in BOOLEAN
            OBVIOUS
        <3> HIDE DEF a
        <3>3. d \in Calls
            BY <2>1, <3>1, CallMade
        <3>4. worker' = [worker EXCEPT ![w].pc = "hasParent", ![w].hasBlock = a]
            BY <2>2 DEF CheckBlock, a
        <3>5. [worker EXCEPT ![w].pc = "hasParent", ![w].hasBlock = a] = [worker EXCEPT ![w] = d]
            <4>1. PICK r, b1, b2 : r = c.queue /\ b1 = c.hasBlock /\ b2 = c.hasParent
                OBVIOUS
            <4>2. c = [pc |-> c.pc, queue |-> r, hasBlock |-> b1, hasParent |-> b2]
                BY <2>1, <4>1
            <4>3. worker[w] = c /\ worker \in [Workers -> Calls]
                BY <1>1, <1>3 DEF WorkersOK
            <4>4. [[c EXCEPT !.pc = "hasParent"] EXCEPT !.hasBlock = a] = d
                <5>1. PICK m : m = [c EXCEPT !.pc = "hasParent"]
                    OBVIOUS
                <5>2. m = [pc |-> "hasParent", queue |-> r, hasBlock |-> b1, hasParent |-> b2]
                    BY <4>2, <5>1
                <5>3. [m EXCEPT !.hasBlock = a] = d
                    BY <4>1, <5>2
                <5> QED
                    BY <5>1, <5>3
            <4> QED
                BY <4>3, <4>4
        <3>6. c.pc = "hasBlock"
            BY <1>3, <2>2 DEF CheckBlock
        <3> QED
            BY <3>3, <3>4, <3>5, <3>6
    <2>3. CASE CheckParent(w)
        <3> DEFINE a == Parent[Candidate(w)] \in stored
                   d == [pc |-> "decide", queue |-> c.queue, hasBlock |-> c.hasBlock,
                         hasParent |-> a]
        <3>1. a \in BOOLEAN
            OBVIOUS
        <3> HIDE DEF a
        <3>3. d \in Calls
            BY <2>1, <3>1, CallMade
        <3>4. worker' = [worker EXCEPT ![w].pc = "decide", ![w].hasParent = a]
            BY <2>3 DEF CheckParent, a
        <3>5. [worker EXCEPT ![w].pc = "decide", ![w].hasParent = a] = [worker EXCEPT ![w] = d]
            <4>1. PICK r, b1, b2 : r = c.queue /\ b1 = c.hasBlock /\ b2 = c.hasParent
                OBVIOUS
            <4>2. c = [pc |-> c.pc, queue |-> r, hasBlock |-> b1, hasParent |-> b2]
                BY <2>1, <4>1
            <4>3. worker[w] = c /\ worker \in [Workers -> Calls]
                BY <1>1, <1>3 DEF WorkersOK
            <4>4. [[c EXCEPT !.pc = "decide"] EXCEPT !.hasParent = a] = d
                <5>1. PICK m : m = [c EXCEPT !.pc = "decide"]
                    OBVIOUS
                <5>2. m = [pc |-> "decide", queue |-> r, hasBlock |-> b1, hasParent |-> b2]
                    BY <4>2, <5>1
                <5>3. [m EXCEPT !.hasParent = a] = d
                    BY <4>1, <5>2
                <5> QED
                    BY <5>1, <5>3
            <4> QED
                BY <4>3, <4>4
        <3>6. c.pc = "hasParent"
            BY <1>3, <2>3 DEF CheckParent
        <3> QED
            BY <3>3, <3>4, <3>5, <3>6 DEF a
    <2> QED
        BY <2>2, <2>3
<1>5. /\ worker' \in [Workers -> Calls] /\ worker'[w] = d
      /\ \A v \in Workers : v # w => worker'[v] = worker[v]
    BY <1>1, <1>4 DEF WorkersOK
<1>6. WorkersOK(worker')
    BY <1>1, <1>3, <1>4, <1>5 DEF WorkersOK
<1>7. ASSUME ~overlapped' PROVE CallsInTurn'
    <2>1. CallsInTurn
        BY <1>2, <1>7, ImportInvParts
    <2>2. Candidate(w)' = Candidate(w) /\ \A v \in Workers : v # w => Candidate(v)' = Candidate(v)
        BY <1>3, <1>4, <1>5 DEF Candidate
    <2>3. \A v \in Workers : worker'[v].pc # "idle" <=> worker[v].pc # "idle"
        BY <1>1, <1>4, <1>5
    <2>4. \A v \in Workers : worker[v].pc = "take" => v # w
        BY <1>3, <1>4
    <2>5. \A u, v \in Workers : worker'[u].pc # "idle" /\ worker'[v].pc # "idle" => u = v
        BY <2>1, <2>3 DEF CallsInTurn
    <2>6. ASSUME NEW v \in Workers, worker'[v].pc = "decide", ~worker'[v].hasParent
          PROVE  Parent[Candidate(v)'] \notin stored
        <3>1. CASE v = w
            BY <1>4, <1>5, <2>2, <2>6, <3>1
        <3>2. CASE v # w
            BY <1>5, <2>1, <2>2, <2>6, <3>2 DEF CallsInTurn
        <3> QED
            BY <3>1, <3>2
    <2>7. \A b \in bufferedByHash : Parent[b] \in stored =>
            \E v \in Workers : worker'[v].pc = "take" /\ Candidate(v)' = Parent[b]
        BY <1>5, <2>1, <2>2, <2>4 DEF CallsInTurn
    <2> QED
        BY <1>2, <2>5, <2>6, <2>7 DEF CallsInTurn
<1>8. ~overlapped' => CallsInTurn'
    BY <1>7
<1>9. StoredIsTree'
    BY <1>2, ImportInvParts DEF StoredIsTree
<1>10. /\ stored' \subseteq Blocks \cup {Genesis} /\ bufferedByHash' \subseteq Blocks
       /\ bufferedByParent' \in [Blocks \cup {Genesis} -> SUBSET Blocks]
       /\ received' \subseteq Blocks /\ dropped' \subseteq received'
       /\ \A p \in Blocks \cup {Genesis} :
            bufferedByParent'[p] = {b \in bufferedByHash' : Parent[b] = p}
    BY <1>2, ImportInvParts
<1>11. overlapped' \in BOOLEAN
    BY <1>2, ImportInvParts
<1>12. OnlyReceived'
    BY ReceivedPreserved
<1> QED
    BY <1>6, <1>8, <1>9, <1>10, <1>11, <1>12
       DEF ImportInv, BufferMapsAgree, TypeOK, WorkersOK, Calls

\* Ignore, buffer or go on to import.
LEMMA DecidePreserves ==
    ASSUME ImportInv, NEW w \in Workers, Decide(w)
    PROVE  ImportInv'
<1>1. WorkersOK(worker) /\ worker[w].pc = "decide" /\ worker[w].pc # "idle"
    BY ImportInvParts DEF Decide
<1>2. UNCHANGED <<stored, received, dropped, overlapped>>
    BY DEF Decide
<1>3. PICK c \in Blocks : c = Candidate(w)
    BY <1>1, CandidateFacts
<1>4. Parent[c] \in Blocks \cup {Genesis} /\ Tail(worker[w].queue) \in Seq(Blocks)
    BY <1>1, <1>3, CandidateFacts
<1>5. /\ WorkersOK(worker') /\ \A v \in Workers : v # w => worker'[v] = worker[v]
      /\ worker'[w].pc \in {"idle", "hasBlock", "import"}
    <2>1. CASE Continue(w, Tail(worker[w].queue))
        BY <1>1, <1>4, <2>1, ContinueFacts
    <2>2. CASE worker' = [worker EXCEPT ![w].pc = "import"]
        BY <1>1, <2>2, PlaceChanged
    <2> QED
        BY <2>1, <2>2 DEF Decide
<1>6. \/ UNCHANGED <<bufferedByHash, bufferedByParent>>
      \/ /\ ~worker[w].hasParent
         /\ bufferedByHash' = bufferedByHash \cup {c}
         /\ bufferedByParent' = [bufferedByParent EXCEPT ![Parent[c]] = @ \cup {c}]
    BY <1>3 DEF Decide, Buffer
<1>7. /\ bufferedByHash' \subseteq Blocks
      /\ bufferedByParent' \in [Blocks \cup {Genesis} -> SUBSET Blocks]
      /\ \A p \in Blocks \cup {Genesis} :
            bufferedByParent'[p] = {b \in bufferedByHash' : Parent[b] = p}
    <2>1. /\ bufferedByHash \subseteq Blocks
          /\ bufferedByParent \in [Blocks \cup {Genesis} -> SUBSET Blocks]
          /\ \A p \in Blocks \cup {Genesis} :
                bufferedByParent[p] = {b \in bufferedByHash : Parent[b] = p}
        BY ImportInvParts
    <2>2. CASE UNCHANGED <<bufferedByHash, bufferedByParent>>
        BY <2>1, <2>2
    <2>3. CASE /\ bufferedByHash' = bufferedByHash \cup {c}
               /\ bufferedByParent' = [bufferedByParent EXCEPT ![Parent[c]] = @ \cup {c}]
        <3>1. bufferedByHash' \subseteq Blocks
              /\ bufferedByParent' \in [Blocks \cup {Genesis} -> SUBSET Blocks]
            BY <1>4, <2>1, <2>3
        <3>2. ASSUME NEW p \in Blocks \cup {Genesis}
              PROVE  bufferedByParent'[p] = {b \in bufferedByHash' : Parent[b] = p}
            <4>1. CASE p = Parent[c]
                BY <2>1, <2>3, <4>1
            <4>2. CASE p # Parent[c]
                BY <2>1, <2>3, <4>2
            <4> QED
                BY <4>1, <4>2
        <3> QED
            BY <3>1, <3>2
    <2> QED
        BY <1>6, <2>2, <2>3
<1>8. ASSUME ~overlapped' PROVE CallsInTurn'
    <2>1. CallsInTurn
        BY <1>2, <1>8, ImportInvParts
    <2>2. \A v \in Workers : worker'[v].pc # "idle" => worker[v].pc # "idle"
        BY <1>1, <1>5
    <2>3. \A v \in Workers : v # w => Candidate(v)' = Candidate(v) /\ worker'[v] = worker[v]
        BY <1>5 DEF Candidate
    <2>4. \A v \in Workers : worker[v].pc = "take" => v # w
        BY <1>1
    <2>5. \A u, v \in Workers : worker'[u].pc # "idle" /\ worker'[v].pc # "idle" => u = v
        BY <2>1, <2>2 DEF CallsInTurn
    <2>6. \A v \in Workers : worker'[v].pc = "decide" /\ ~worker'[v].hasParent =>
                                Parent[Candidate(v)'] \notin stored
        BY <1>5, <2>1, <2>3 DEF CallsInTurn
    <2>7. ASSUME NEW b \in bufferedByHash', Parent[b] \in stored
          PROVE  \E v \in Workers : worker'[v].pc = "take" /\ Candidate(v)' = Parent[b]
        <3>1. b \in bufferedByHash
            BY <1>1, <1>3, <1>6, <2>1, <2>7 DEF CallsInTurn
        <3>2. PICK v \in Workers : worker[v].pc = "take" /\ Candidate(v) = Parent[b]
            BY <2>1, <2>7, <3>1 DEF CallsInTurn
        <3> QED
            BY <2>3, <2>4, <3>2
    <2> QED
        BY <1>2, <2>5, <2>6, <2>7 DEF CallsInTurn
<1>9. ~overlapped' => CallsInTurn'
    BY <1>8
<1>10. StoredIsTree' /\ stored' \subseteq Blocks \cup {Genesis}
       /\ received' \subseteq Blocks /\ dropped' \subseteq received'
    BY <1>2, ImportInvParts DEF StoredIsTree
<1>11. overlapped' \in BOOLEAN
    BY <1>2, ImportInvParts
<1>12. OnlyReceived'
    BY ReceivedPreserved
<1> QED
    BY <1>5, <1>7, <1>9, <1>10, <1>11, <1>12
       DEF ImportInv, BufferMapsAgree, TypeOK, WorkersOK, Calls

\* ValidateBlock and ImportBlock accept the candidate, or its parent has
\* not been stored after all.
LEMMA ImportPreserves ==
    ASSUME ImportInv, NEW w \in Workers, Import(w)
    PROVE  ImportInv'
<1>1. WorkersOK(worker) /\ worker[w].pc = "import" /\ worker[w].pc # "idle"
    BY ImportInvParts DEF Import
<1>2. UNCHANGED <<bufferedByHash, bufferedByParent, received, dropped, overlapped>>
    BY DEF Import
<1>3. PICK c \in Blocks : c = Candidate(w)
    BY <1>1, CandidateFacts
<1>4. Parent[c] \in Blocks \cup {Genesis} /\ Tail(worker[w].queue) \in Seq(Blocks)
    BY <1>1, <1>3, CandidateFacts
<1>5. \/ /\ Parent[c] \in stored /\ stored' = stored \cup {c}
         /\ worker' = [worker EXCEPT ![w].pc = "take"]
      \/ stored' = stored /\ Continue(w, Tail(worker[w].queue))
    BY <1>3 DEF Import
<1>6. /\ WorkersOK(worker') /\ \A v \in Workers : v # w => worker'[v] = worker[v]
      /\ worker'[w].pc \in {"idle", "hasBlock", "take"}
      /\ stored' # stored => worker'[w].pc = "take" /\ Candidate(w)' = c
    <2>1. CASE Continue(w, Tail(worker[w].queue)) /\ stored' = stored
        BY <1>1, <1>4, <2>1, ContinueFacts
    <2>2. CASE worker' = [worker EXCEPT ![w].pc = "take"]
        BY <1>1, <1>3, <2>2, PlaceChanged
    <2> QED
        BY <1>5, <2>1, <2>2
<1>7. StoredIsTree' /\ stored' \subseteq Blocks \cup {Genesis}
    <2>1. StoredIsTree /\ stored \subseteq Blocks \cup {Genesis}
        BY ImportInvParts
    <2> QED
        BY <1>5, <2>1 DEF StoredIsTree
<1>8. ASSUME ~overlapped' PROVE CallsInTurn'
    <2>1. CallsInTurn
        BY <1>2, <1>8, ImportInvParts
    <2>2. \A v \in Workers : v # w => worker[v].pc = "idle" /\ worker'[v].pc = "idle"
        BY <1>1, <1>6, <2>1 DEF CallsInTurn
    <2>3. \A b \in bufferedByHash : Parent[b] \notin stored
        BY <1>1, <2>1, <2>2 DEF CallsInTurn
    <2>4. ASSUME NEW b \in bufferedByHash, Parent[b] \in stored'
          PROVE  worker'[w].pc = "take" /\ Candidate(w)' = Parent[b]
        <3>1. Parent[b] \notin stored
            BY <2>3
        <3> QED
            BY <1>5, <1>6, <2>4, <3>1
    <2> QED
        BY <1>2, <1>6, <2>2, <2>4 DEF CallsInTurn
<1>9. ~overlapped' => CallsInTurn'
    BY <1>8
<1>10. /\ received' \subseteq Blocks /\ dropped' \subseteq received'
       /\ bufferedByHash' \subseteq Blocks
       /\ bufferedByParent' \in [Blocks \cup {Genesis} -> SUBSET Blocks]
       /\ \A p \in Blocks \cup {Genesis} :
            bufferedByParent'[p] = {b \in bufferedByHash' : Parent[b] = p}
    BY <1>2, ImportInvParts
<1>11. overlapped' \in BOOLEAN
    BY <1>2, ImportInvParts
<1>12. OnlyReceived'
    BY ReceivedPreserved
<1> QED
    BY <1>6, <1>7, <1>9, <1>10, <1>11, <1>12
       DEF ImportInv, BufferMapsAgree, TypeOK, WorkersOK, Calls

\* A refused block ends the call.
LEMMA RefusePreserves ==
    ASSUME ImportInv, NEW w \in Workers, Refuse(w)
    PROVE  /\ ImportInv' /\ worker'[w] = IdleWorker
           /\ \A v \in Workers : v # w => worker'[v] = worker[v]
<1>1. WorkersOK(worker) /\ worker[w].pc = "import" /\ worker \in [Workers -> Calls]
    BY ImportInvParts DEF Refuse, WorkersOK
<1>2. UNCHANGED <<stored, bufferedByHash, bufferedByParent, received, overlapped>>
    BY DEF Refuse
<1>3. worker'[w] = IdleWorker /\ \A v \in Workers : v # w => worker'[v] = worker[v]
    BY <1>1 DEF Refuse
<1>4. IdleWorker \in Calls /\ IdleWorker.pc = "idle" /\ IdleWorker.queue = <<>>
    <2>1. <<>> \in Seq(Blocks)
        OBVIOUS
    <2>2. IdleWorker = [pc |-> "idle", queue |-> <<>>, hasBlock |-> FALSE, hasParent |-> FALSE]
        BY DEF IdleWorker
    <2> QED
        BY <2>1, <2>2, CallMade
<1>5. WorkersOK(worker')
    <2>1. worker' = [worker EXCEPT ![w] = IdleWorker]
        BY DEF Refuse
    <2>2. worker' \in [Workers -> Calls]
        BY <1>1, <1>4, <2>1
    <2> QED
        BY <1>1, <1>3, <1>4, <2>2 DEF WorkersOK
<1>6. dropped' \subseteq received'
    <2>1. Elements(worker[w].queue) \subseteq received /\ dropped \subseteq received
        BY ImportInvParts DEF OnlyReceived
    <2> QED
        BY <1>2, <2>1 DEF Refuse
<1>7. ASSUME ~overlapped' PROVE CallsInTurn'
    <2>1. CallsInTurn
        BY <1>2, <1>7, ImportInvParts
    <2>2. \A v \in Workers : v # w => Candidate(v)' = Candidate(v)
        BY <1>3 DEF Candidate
    <2>3. worker'[w].pc = "idle" /\ worker[w].pc # "take"
        BY <1>1, <1>3, <1>4
    <2>4. \A u, v \in Workers : worker'[u].pc # "idle" /\ worker'[v].pc # "idle" => u = v
        BY <1>3, <2>1, <2>3 DEF CallsInTurn
    <2>5. \A v \in Workers : worker'[v].pc = "decide" /\ ~worker'[v].hasParent =>
                                Parent[Candidate(v)'] \notin stored
        BY <1>3, <2>1, <2>2, <2>3 DEF CallsInTurn
    <2>6. \A b \in bufferedByHash : Parent[b] \in stored =>
            \E v \in Workers : worker'[v].pc = "take" /\ Candidate(v)' = Parent[b]
        BY <1>3, <2>1, <2>2, <2>3 DEF CallsInTurn
    <2> QED
        BY <1>2, <2>4, <2>5, <2>6 DEF CallsInTurn
<1>8. ~overlapped' => CallsInTurn'
    BY <1>7
<1>9. /\ StoredIsTree' /\ stored' \subseteq Blocks \cup {Genesis}
      /\ received' \subseteq Blocks
      /\ bufferedByHash' \subseteq Blocks
      /\ bufferedByParent' \in [Blocks \cup {Genesis} -> SUBSET Blocks]
      /\ \A p \in Blocks \cup {Genesis} :
            bufferedByParent'[p] = {b \in bufferedByHash' : Parent[b] = p}
    BY <1>2, ImportInvParts DEF StoredIsTree
<1>10. overlapped' \in BOOLEAN
    BY <1>2, ImportInvParts
<1>11. OnlyReceived'
    BY ReceivedPreserved
<1>12. ImportInv'
    BY <1>5, <1>6, <1>8, <1>9, <1>10, <1>11
       DEF ImportInv, BufferMapsAgree, TypeOK, WorkersOK, Calls
<1> QED
    BY <1>3, <1>12

\* takeBufferedChildrenLocked empties the entry of the new block in one map
\* and the same blocks in the other.
LEMMA TakePreserves ==
    ASSUME ImportInv, NEW w \in Workers, TakeChildren(w)
    PROVE  ImportInv'
<1>1. WorkersOK(worker) /\ worker[w].pc = "take" /\ worker[w].pc # "idle"
    BY ImportInvParts DEF TakeChildren
<1>2. UNCHANGED <<stored, received, dropped, overlapped>>
    BY DEF TakeChildren
<1>3. PICK c \in Blocks : c = Candidate(w)
    BY <1>1, CandidateFacts
<1>4. Tail(worker[w].queue) \in Seq(Blocks)
    BY <1>1, CandidateFacts
<1>5. /\ bufferedByHash \subseteq Blocks
      /\ bufferedByParent \in [Blocks \cup {Genesis} -> SUBSET Blocks]
      /\ \A p \in Blocks \cup {Genesis} :
            bufferedByParent[p] = {b \in bufferedByHash : Parent[b] = p}
    BY ImportInvParts
<1>6. PICK children : children = bufferedByParent[c] \cap bufferedByHash
    OBVIOUS
<1>7. children \subseteq Blocks /\ children = {b \in bufferedByHash : Parent[b] = c}
    BY <1>5, <1>6
<1>8. /\ bufferedByHash' = bufferedByHash \ children
      /\ bufferedByParent' = [bufferedByParent EXCEPT ![c] = {}]
      /\ Continue(w, Sorted(children) \o Tail(worker[w].queue))
    BY <1>3, <1>6 DEF TakeChildren
<1>9. Sorted(children) \o Tail(worker[w].queue) \in Seq(Blocks)
    <2>1. PICK s : s = Sorted(children)
        OBVIOUS
    <2>2. s \in Seq(children)
        BY <1>7, <2>1, SortedIsQueue
    <2>3. s \in Seq(Blocks)
        BY <1>7, <2>2
    <2> QED
        BY <1>4, <2>1, <2>3
<1>10. /\ WorkersOK(worker') /\ \A v \in Workers : v # w => worker'[v] = worker[v]
       /\ worker'[w].pc \in {"idle", "hasBlock"}
    BY <1>1, <1>8, <1>9, ContinueFacts
<1>11. /\ bufferedByHash' \subseteq Blocks
       /\ bufferedByParent' \in [Blocks \cup {Genesis} -> SUBSET Blocks]
       /\ \A p \in Blocks \cup {Genesis} :
            bufferedByParent'[p] = {b \in bufferedByHash' : Parent[b] = p}
    <2>1. bufferedByHash' \subseteq Blocks
          /\ bufferedByParent' \in [Blocks \cup {Genesis} -> SUBSET Blocks]
        BY <1>5, <1>8
    <2>2. ASSUME NEW p \in Blocks \cup {Genesis}
          PROVE  bufferedByParent'[p] = {b \in bufferedByHash' : Parent[b] = p}
        <3>1. CASE p = c
            BY <1>5, <1>7, <1>8, <3>1
        <3>2. CASE p # c
            BY <1>5, <1>7, <1>8, <3>2
        <3> QED
            BY <3>1, <3>2
    <2> QED
        BY <2>1, <2>2
<1>12. ASSUME ~overlapped' PROVE CallsInTurn'
    <2>1. CallsInTurn
        BY <1>2, <1>12, ImportInvParts
    <2>2. \A v \in Workers : v # w => worker[v].pc = "idle" /\ worker'[v].pc = "idle"
        BY <1>1, <1>10, <2>1 DEF CallsInTurn
    <2>3. ASSUME NEW b \in bufferedByHash' PROVE Parent[b] \notin stored
        <3>1. b \in bufferedByHash /\ Parent[b] # c
            BY <1>7, <1>8
        <3> QED
            BY <1>3, <2>1, <2>2, <3>1 DEF CallsInTurn
    <2> QED
        BY <1>2, <1>10, <2>2, <2>3 DEF CallsInTurn
<1>13. ~overlapped' => CallsInTurn'
    BY <1>12
<1>14. /\ StoredIsTree' /\ stored' \subseteq Blocks \cup {Genesis}
       /\ received' \subseteq Blocks /\ dropped' \subseteq received'
    BY <1>2, ImportInvParts DEF StoredIsTree
<1>15. overlapped' \in BOOLEAN
    BY <1>2, ImportInvParts
<1>16. OnlyReceived'
    BY ReceivedPreserved
<1> QED
    BY <1>10, <1>11, <1>13, <1>14, <1>15, <1>16
       DEF ImportInv, BufferMapsAgree, TypeOK, WorkersOK, Calls

\* One step of a call.
LEMMA ImportStepPreserves ==
    ASSUME ImportInv, NEW w \in Workers, ImportStep(w) \/ Refuse(w)
    PROVE  /\ ImportInv' /\ stored \subseteq stored'
           /\ \A v \in Workers : v # w => worker'[v] = worker[v]
<1>1. WorkersOK(worker) /\ worker \in [Workers -> Calls] /\ worker[w].pc # "idle"
    BY ImportInvParts
       DEF WorkersOK, ImportStep, CheckBlock, CheckParent, Decide, Import, TakeChildren, Refuse
<1>2. ImportInv'
    BY CheckPreserves, DecidePreserves, ImportPreserves, TakePreserves, RefusePreserves
       DEF ImportStep
<1>3. stored \subseteq stored'
    BY DEF ImportStep, CheckBlock, CheckParent, Decide, Import, TakeChildren, Refuse
<1>4. \A v \in Workers : v # w => worker'[v] = worker[v]
    BY <1>1 DEF ImportStep, CheckBlock, CheckParent, Decide, Import, TakeChildren, Refuse, Continue
<1> QED
    BY <1>2, <1>3, <1>4

---------------------------------------------------------------------------
(***************************************************************************)
(* The steps of SyncChain.                                                 *)
(***************************************************************************)
Places == {"idle", "peer", "request", "serve", "validate", "import", "importing", "ended"}

CallRecords ==
    [pc : Places, peers : Seq(Peers), height : Nat, next : Nat, latest : Nat,
     blocks : Seq(Blocks), joined : BOOLEAN, steady : BOOLEAN]

\* The record of a call of SyncChain.
LEMMA SyncCallMade ==
    ASSUME NEW p \in Places, NEW ps \in Seq(Peers), NEW h \in Nat, NEW n \in Nat, NEW l \in Nat,
           NEW bs \in Seq(Blocks), NEW j \in BOOLEAN, NEW s \in BOOLEAN
    PROVE  [pc |-> p, peers |-> ps, height |-> h, next |-> n, latest |-> l, blocks |-> bs,
            joined |-> j, steady |-> s] \in CallRecords
    BY DEF CallRecords

\* What the invariant says of the fields of the call.
LEMMA SyncFacts ==
    ASSUME SyncInv
    PROVE  /\ ImportInv /\ CallTypeOK /\ CallControl /\ SteadyHeight /\ JoinedFollowsChain
           /\ call \in CallRecords /\ known \in [Peers -> Trees]
           /\ call.pc \in Places /\ call.peers \in Seq(Peers) /\ call.height \in Nat
           /\ call.next \in Nat /\ call.latest \in Nat /\ call.blocks \in Seq(Blocks)
           /\ sync \in Workers /\ gossip \in Workers /\ stored \in Trees
<1>1. ImportInv /\ CallTypeOK /\ CallControl /\ SteadyHeight /\ JoinedFollowsChain
    BY DEF SyncInv
<1>2. call \in CallRecords /\ known \in [Peers -> Trees]
    BY <1>1 DEF CallTypeOK, CallRecords, Places
<1>3. /\ call.pc \in Places /\ call.peers \in Seq(Peers) /\ call.height \in Nat
      /\ call.next \in Nat /\ call.latest \in Nat /\ call.blocks \in Seq(Blocks)
    BY <1>2 DEF CallRecords
<1>4. stored \in Trees
    BY <1>1, ImportInvParts DEF Trees, StoredIsTree
<1> QED
    BY <1>1, <1>2, <1>3, <1>4, WorkersAssumption

\* The steps of SyncChain itself leave the store and the buffer alone.
LEMMA ImportInvSame ==
    ASSUME ImportInv, UNCHANGED vars
    PROVE  ImportInv'
<1>1. /\ stored' = stored /\ bufferedByHash' = bufferedByHash /\ received' = received
      /\ bufferedByParent' = bufferedByParent /\ worker' = worker /\ dropped' = dropped
      /\ overlapped' = overlapped
    BY DEF vars
<1>2. BufferMapsAgree'
    BY <1>1 DEF ImportInv, BufferMapsAgree, TypeOK
<1>3. OnlyReceived' /\ StoredIsTree'
    BY <1>1 DEF ImportInv, OnlyReceived, StoredIsTree
<1>4. CallsInTurn => CallsInTurn'
    BY <1>1 DEF CallsInTurn, Candidate
<1> QED
    BY <1>1, <1>2, <1>3, <1>4 DEF ImportInv

\* Between two attempts there is nothing to keep.
LEMMA AttemptEnds ==
    ASSUME SyncInv, ImportInv', known' = known, worker'[sync].pc = "idle",
           call' \in CallRecords, call'.pc \in {"idle", "peer"}, call'.blocks = <<>>
    PROVE  SyncInv'
<1>1. CallTypeOK'
    BY SyncFacts DEF CallTypeOK, CallRecords, Places
<1>2. ~Attempting'
    BY DEF Attempting
<1>3. CallControl'
    BY <1>2 DEF CallControl, Attempting
<1>4. SteadyHeight' /\ JoinedFollowsChain'
    BY <1>2 DEF SteadyHeight, JoinedFollowsChain
<1> QED
    BY <1>1, <1>3, <1>4 DEF SyncInv

\* The next attempt starts from scratch, above the height reached.
LEMMA NextPeerPreserves ==
    ASSUME SyncInv, ImportInv', known' = known, worker'[sync].pc = "idle",
           call.peers # <<>>, call' = NextPeer
    PROVE  SyncInv'
<1>1. PICK ps, h : ps = Tail(call.peers) /\ h = call.height
    OBVIOUS
<1>2. ps \in Seq(Peers) /\ h \in Nat
    BY <1>1, SyncFacts
<1>3. call' = [pc |-> "peer", peers |-> ps, height |-> h, next |-> 0, latest |-> 0,
               blocks |-> <<>>, joined |-> FALSE, steady |-> TRUE]
    BY <1>1 DEF NextPeer, IdleCall
<1>4. call' \in CallRecords
    <2>1. "peer" \in Places /\ <<>> \in Seq(Blocks) /\ 0 \in Nat
        BY DEF Places
    <2> QED
        BY <1>2, <1>3, <2>1, SyncCallMade, ZenonT(60)
<1>5. call'.pc = "peer" /\ call'.blocks = <<>>
    BY <1>3
<1> QED
    BY <1>4, <1>5, AttemptEnds

\* Skipped, failed, refused and finished attempts, and the two ends of a call.
LEMMA EndsPreserve ==
    ASSUME SyncInv,
           \/ SkipPeer \/ EndSync \/ RequestFails \/ PeerRefuses \/ ServeMissing \/ PeerDone
           \/ \E order \in Orders : StartSync(order)
           \/ call.pc = "validate" /\ Fail
    PROVE  SyncInv'
<1>1. UNCHANGED <<vars, known>>
    BY DEF SkipPeer, EndSync, RequestFails, PeerRefuses, ServeMissing, PeerDone, StartSync, Fail
<1>2. call.pc # "importing"
    BY DEF SkipPeer, EndSync, RequestFails, PeerRefuses, ServeMissing, PeerDone, StartSync
<1>3. worker'[sync].pc = "idle" /\ known' = known
    <2>1. worker[sync].pc = "idle"
        BY <1>2, SyncFacts DEF CallControl
    <2> QED
        BY <1>1, <2>1 DEF vars
<1>4. ImportInv'
    BY <1>1, SyncFacts, ImportInvSame
<1>5. CASE call' = NextPeer /\ (call.pc = "peer" => call.peers # <<>>) /\ call.pc # "idle"
    <2>1. call.peers # <<>>
        BY <1>5, SyncFacts DEF CallControl, Attempting
    <2> QED
        BY <1>3, <1>4, <1>5, <2>1, NextPeerPreserves
<1>6. CASE EndSync
    <2>1. call' = [pc |-> "idle", peers |-> <<>>, height |-> 0, next |-> 0, latest |-> 0,
                   blocks |-> <<>>, joined |-> FALSE, steady |-> TRUE]
        BY <1>6 DEF EndSync, IdleCall
    <2>2. call' \in CallRecords
        <3>1. "idle" \in Places /\ <<>> \in Seq(Blocks) /\ 0 \in Nat /\ <<>> \in Seq(Peers)
            BY DEF Places
        <3> QED
            BY <2>1, <3>1, SyncCallMade, ZenonT(60)
    <2>3. call'.pc = "idle" /\ call'.blocks = <<>>
        BY <2>1
    <2> QED
        BY <1>3, <1>4, <2>2, <2>3, AttemptEnds
<1>7. CASE \E order \in Orders : StartSync(order)
    <2>1. PICK order \in Orders : StartSync(order)
        BY <1>7
    <2>2. PICK h \in Nat : h = Number[Tip[stored]]
        BY SyncFacts, TipInTree
    <2>4. order \in Seq(Peers)
        BY PeersAssumption, FS_CardinalityType DEF Orders
    <2>5. call' = [pc |-> "peer", peers |-> order, height |-> h, next |-> 0, latest |-> 0,
                   blocks |-> <<>>, joined |-> FALSE, steady |-> TRUE]
        BY <2>1, <2>2 DEF StartSync, IdleCall
    <2>6. call' \in CallRecords
        <3>1. "peer" \in Places /\ <<>> \in Seq(Blocks) /\ 0 \in Nat
            BY DEF Places
        <3> QED
            BY <2>2, <2>4, <2>5, <3>1, SyncCallMade, ZenonT(60)
    <2>7. call'.pc = "peer" /\ call'.blocks = <<>>
        BY <2>5
    <2> QED
        BY <1>3, <1>4, <2>6, <2>7, AttemptEnds
<1> QED
    BY <1>5, <1>6, <1>7 DEF SkipPeer, RequestFails, PeerRefuses, ServeMissing, PeerDone, Fail

\* The fields of a call, updated.
LEMMA SyncCallUpdated ==
    ASSUME NEW c \in CallRecords, NEW p \in Places, NEW l \in Nat, NEW bs \in Seq(Blocks),
           NEW h \in Nat, NEW n \in Nat
    PROVE  /\ [c EXCEPT !.pc = p] \in CallRecords
           /\ [c EXCEPT !.pc = p, !.latest = l] \in CallRecords
           /\ [c EXCEPT !.blocks = bs, !.pc = p] \in CallRecords
           /\ [c EXCEPT !.pc = p, !.blocks = bs, !.height = h, !.next = n] \in CallRecords
    BY DEF CallRecords

\* syncFromPeer begins: the two branches have met here, or they have not.
LEMMA StartPeerPreserves ==
    ASSUME SyncInv, StartPeer
    PROVE  SyncInv'
<1>1. UNCHANGED <<vars, known>> /\ call.pc = "peer" /\ call.peers # <<>>
    BY DEF StartPeer
<1>2. /\ call \in CallRecords /\ known \in [Peers -> Trees] /\ call.height \in Nat
      /\ call.peers \in Seq(Peers) /\ call.steady \in BOOLEAN /\ call.latest \in Nat
      /\ call.blocks = <<>> /\ worker[sync].pc = "idle"
    <2>1. call.steady \in BOOLEAN
        BY SyncFacts DEF CallRecords
    <2>2. call.blocks = <<>> /\ worker[sync].pc = "idle"
        BY <1>1, SyncFacts DEF CallControl, Attempting
    <2> QED
        BY <2>1, <2>2, SyncFacts
<1> DEFINE met == HasNumber(Peer, call.height) /\ GetBlockByNumber(Peer, call.height) \in stored
<1>3. met \in BOOLEAN
    OBVIOUS
<1>4. ImportInv' /\ stored' = stored /\ worker' = worker /\ known' = known
    BY <1>1, SyncFacts, ImportInvSame DEF vars
<1>5. call' = [pc |-> "request", peers |-> call.peers, height |-> call.height,
               next |-> call.height + 1, latest |-> call.latest, blocks |-> <<>>,
               joined |-> met, steady |-> call.steady]
    <2> HIDE DEF met
    <2>1. PICK ps, h, n, l, bs, j, s :
            call = [pc |-> "peer", peers |-> ps, height |-> h, next |-> n, latest |-> l,
                    blocks |-> bs, joined |-> j, steady |-> s]
        <3>1. call = [pc |-> call.pc, peers |-> call.peers, height |-> call.height,
                      next |-> call.next, latest |-> call.latest, blocks |-> call.blocks,
                      joined |-> call.joined, steady |-> call.steady]
            BY <1>2 DEF CallRecords
        <3> QED
            BY <1>1, <3>1
    <2>2. ps = call.peers /\ h = call.height /\ l = call.latest /\ bs = <<>> /\ s = call.steady
        BY <1>2, <2>1
    <2>3. call' = [call EXCEPT !.pc = "request", !.next = call.height + 1, !.joined = met]
        BY DEF StartPeer, met
    <2>4. PICK c1 : c1 = [call EXCEPT !.pc = "request", !.next = h + 1]
        OBVIOUS
    <2>5. c1 = [pc |-> "request", peers |-> ps, height |-> h, next |-> h + 1, latest |-> l,
                blocks |-> bs, joined |-> j, steady |-> s]
        BY <2>1, <2>4
    <2>6. call' = [c1 EXCEPT !.joined = met]
        BY <2>2, <2>3, <2>4
    <2>7. call' = [pc |-> "request", peers |-> ps, height |-> h, next |-> h + 1, latest |-> l,
                   blocks |-> bs, joined |-> met, steady |-> s]
        BY <2>5, <2>6
    <2> QED
        BY <2>2, <2>7
<1>6. call' \in CallRecords
    <2> HIDE DEF met
    <2>1. "request" \in Places /\ <<>> \in Seq(Blocks) /\ call.height + 1 \in Nat
        BY <1>2 DEF Places
    <2> QED
        BY <1>2, <1>3, <1>5, <2>1, SyncCallMade, ZenonT(60)
<1>7. /\ call'.pc = "request" /\ call'.peers = call.peers /\ call'.next = call.height + 1
      /\ call'.blocks = <<>> /\ (call'.joined <=> met)
    BY <1>5
<1>8. CallTypeOK'
    BY <1>2, <1>4, <1>6 DEF CallTypeOK, CallRecords, Places
<1>9. CallControl'
    <2>1. Contiguous(call.height + 1, <<>>)
        BY DEF Contiguous
    <2> QED
        BY <1>1, <1>2, <1>4, <1>7, <2>1 DEF CallControl, Attempting
<1>10. SteadyHeight'
    BY <1>7 DEF SteadyHeight
<1>11. JoinedFollowsChain'
    <2>1. Peer' = Peer /\ call'.next - 1 = call.height
        BY <1>2, <1>7 DEF Peer
    <2>2. ASSUME met
          PROVE  /\ HasNumber(Peer, call.next - 1)'
                 /\ GetBlockByNumber(Peer, call.next - 1)' \in stored'
        BY <1>4, <2>1, <2>2 DEF HasNumber, GetBlockByNumber
    <2>3. call'.joined => met
        BY <1>7
    <2>4. DOMAIN call'.blocks = {} /\ call'.pc # "importing"
        BY <1>7
    <2> HIDE DEF met
    <2> QED
        BY <2>2, <2>3, <2>4 DEF JoinedFollowsChain
<1> QED
    BY <1>4, <1>8, <1>9, <1>10, <1>11 DEF SyncInv

\* Steps that keep the peer, the height asked for and the history.
LEMMA SameAttempt ==
    ASSUME SyncInv, UNCHANGED <<vars, known>>, Attempting, Attempting',
           call' \in CallRecords, call'.peers = call.peers, call'.next = call.next,
           call'.joined = call.joined, call'.steady = call.steady,
           call.pc # "importing", call'.pc # "importing"
    PROVE  /\ ImportInv' /\ CallTypeOK' /\ worker[sync].pc = "idle" /\ worker'[sync].pc = "idle"
           /\ Peer' = Peer /\ known[Peer] \in Trees /\ call.next >= 1
           /\ Contiguous(call.next, call.blocks)
           /\ call'.blocks = call.blocks => JoinedFollowsChain'
<1>1. ImportInv' /\ stored' = stored /\ worker' = worker /\ known' = known
    BY SyncFacts, ImportInvSame DEF vars
<1>2. CallTypeOK'
    BY <1>1, SyncFacts DEF CallTypeOK, CallRecords, Places
<1>3. worker[sync].pc = "idle" /\ worker'[sync].pc = "idle"
    BY <1>1, SyncFacts DEF CallControl
<1>4. call.peers # <<>> /\ call.next >= 1 /\ Contiguous(call.next, call.blocks)
    BY SyncFacts DEF CallControl
<1>5. Peer' = Peer /\ known[Peer] \in Trees
    <2>1. call.peers \in Seq(Peers) /\ known \in [Peers -> Trees]
        BY SyncFacts
    <2>2. Head(call.peers) \in Peers
        BY <1>4, <2>1
    <2> QED
        BY <2>1, <2>2 DEF Peer
<1>6. ASSUME call'.blocks = call.blocks PROVE JoinedFollowsChain'
    <2>1. JoinedFollowsChain
        BY SyncFacts
    <2> QED
        BY <1>1, <1>5, <1>6, <2>1 DEF JoinedFollowsChain, HasNumber, GetBlockByNumber
<1> QED
    BY <1>1, <1>2, <1>3, <1>4, <1>5, <1>6

\* The peer reads the height of its tip.
LEMMA ServeLatestPreserves ==
    ASSUME SyncInv, ServeLatest
    PROVE  SyncInv'
<1>1. UNCHANGED <<vars, known>> /\ call.pc = "request" /\ Attempting
    BY DEF ServeLatest, Attempting
<1>2. PICK top : top = Number[Tip[known[Peer]]]
    OBVIOUS
<1>3. call \in CallRecords /\ call.peers # <<>> /\ call.blocks = <<>> /\ call.next \in Nat
    BY <1>1, SyncFacts DEF CallControl
<1>4. top \in Nat
    <2>1. Head(call.peers) \in Peers
        BY <1>3, SyncFacts
    <2>2. known[Peer] \in Trees
        BY <2>1, SyncFacts DEF Peer
    <2> QED
        BY <1>2, <2>2, TipInTree
<1>5. PICK p \in Places : /\ call' = [call EXCEPT !.pc = p, !.latest = top]
                          /\ \/ p = "ended" /\ call.next > top
                             \/ p = "serve" /\ ~(call.next > top)
    <2>1. CASE call.next > top
        <3>1. call' = [call EXCEPT !.pc = "ended", !.latest = top]
            BY <1>2, <2>1 DEF ServeLatest
        <3> QED
            BY <2>1, <3>1 DEF Places
    <2>2. CASE ~(call.next > top)
        <3>1. call' = [call EXCEPT !.pc = "serve", !.latest = top]
            BY <1>2, <2>2 DEF ServeLatest
        <3> QED
            BY <2>2, <3>1 DEF Places
    <2> QED
        BY <2>1, <2>2
<1>6. /\ call' \in CallRecords /\ call'.pc = p /\ call'.latest = top
      /\ call'.peers = call.peers /\ call'.next = call.next /\ call'.blocks = call.blocks
      /\ call'.joined = call.joined /\ call'.steady = call.steady
    <2>1. [call EXCEPT !.pc = p, !.latest = top] \in CallRecords
        BY <1>3, <1>4, SyncFacts, SyncCallUpdated
    <2> QED
        BY <1>3, <1>5, <2>1 DEF CallRecords
<1>7. Attempting'
    BY <1>5, <1>6 DEF Attempting
<1>8. /\ ImportInv' /\ CallTypeOK' /\ worker'[sync].pc = "idle"
      /\ Peer' = Peer /\ call.next >= 1 /\ JoinedFollowsChain'
    BY <1>1, <1>5, <1>6, <1>7, SameAttempt
<1>9. CallControl'
    <2>1. Contiguous(call.next, <<>>)
        BY DEF Contiguous
    <2>2. Wanted' = call.next
        <3>1. Len(<<>>) = 0 /\ call.next + 0 = call.next
            BY <1>3
        <3> QED
            BY <1>3, <1>6, <3>1 DEF Wanted
    <2>3. p = "serve" => Wanted' <= top
        BY <1>3, <1>4, <1>5, <2>2
    <2> QED
        BY <1>3, <1>5, <1>6, <1>7, <1>8, <2>1, <2>3 DEF CallControl, Attempting
<1>10. SteadyHeight'
    BY <1>1, <1>2, <1>6, <1>8 DEF SteadyHeight
<1> QED
    BY <1>8, <1>9, <1>10 DEF SyncInv

\* The peer reads the block of the next height from its chain.
LEMMA ServeBlockPreserves ==
    ASSUME SyncInv, ServeBlock
    PROVE  SyncInv'
<1>1. UNCHANGED <<vars, known>> /\ call.pc = "serve" /\ Attempting
    BY DEF ServeBlock, Attempting
<1>2. /\ call \in CallRecords /\ call.peers # <<>> /\ call.blocks \in Seq(Blocks)
      /\ call.next \in Nat /\ call.next >= 1 /\ call.latest \in Nat
      /\ Contiguous(call.next, call.blocks) /\ Wanted <= call.latest /\ JoinedFollowsChain
    BY <1>1, SyncFacts DEF CallControl
<1>3. PICK S \in Trees : S = known[Peer]
    <2>1. Head(call.peers) \in Peers
        BY <1>2, SyncFacts
    <2> QED
        BY <2>1, SyncFacts DEF Peer
<1>4. PICK x : x = Chain[S][Wanted]
    OBVIOUS
<1>5. Wanted \in Nat /\ Wanted >= 1 /\ Wanted = call.next + Len(call.blocks)
    BY <1>2 DEF Wanted
<1>6. x \in Blocks /\ Number[x] = Wanted /\ x = GetBlockByNumber(Peer, Wanted)
      /\ HasNumber(Peer, Wanted)
    <2>1. Wanted \in DOMAIN Chain[S]
        BY <1>3 DEF ServeBlock, HasNumber
    <2>2. Wanted \in 0 .. Number[Tip[S]]
        BY <2>1, ChainFacts
    <2> QED
        BY <1>3, <1>4, <1>5, <2>2, ChainFacts DEF GetBlockByNumber, ServeBlock
<1>7. PICK bs : bs = Append(call.blocks, x)
    OBVIOUS
<1>8. /\ bs \in Seq(Blocks) /\ Len(bs) = Len(call.blocks) + 1 /\ bs # <<>>
      /\ bs[Len(call.blocks) + 1] = x /\ \A i \in 1 .. Len(call.blocks) : bs[i] = call.blocks[i]
      /\ Len(call.blocks) \in Nat /\ DOMAIN bs = 1 .. Len(call.blocks) + 1
      /\ DOMAIN call.blocks = 1 .. Len(call.blocks)
    BY <1>2, <1>6, <1>7
<1>9. PICK p \in Places : /\ call' = [call EXCEPT !.blocks = bs, !.pc = p]
                          /\ p = "validate" \/ (p = "serve" /\ Wanted # call.latest)
    <2>1. call' = Served(bs)
        BY <1>6, <1>7 DEF ServeBlock
    <2>2. CASE Wanted = call.latest \/ Len(bs) = BatchLimit
        <3>1. call' = [call EXCEPT !.blocks = bs, !.pc = "validate"]
            BY <2>1, <2>2 DEF Served
        <3> QED
            BY <3>1 DEF Places
    <2>3. CASE ~(Wanted = call.latest \/ Len(bs) = BatchLimit)
        <3>1. call' = [call EXCEPT !.blocks = bs, !.pc = "serve"]
            BY <2>1, <2>3 DEF Served
        <3> QED
            BY <2>3, <3>1 DEF Places
    <2> QED
        BY <2>2, <2>3
<1>10. /\ call' \in CallRecords /\ call'.pc = p /\ call'.latest = call.latest
       /\ call'.peers = call.peers /\ call'.next = call.next /\ call'.blocks = bs
       /\ call'.joined = call.joined /\ call'.steady = call.steady
    <2>1. [call EXCEPT !.blocks = bs, !.pc = p] \in CallRecords
        <3>1. 0 \in Nat
            OBVIOUS
        <3> QED
            BY <1>2, <1>8, <3>1, SyncCallUpdated
    <2> QED
        BY <1>2, <1>9, <2>1 DEF CallRecords
<1>11. Attempting'
    BY <1>9, <1>10 DEF Attempting
<1>12. /\ ImportInv' /\ CallTypeOK' /\ worker'[sync].pc = "idle" /\ Peer' = Peer
    BY <1>1, <1>9, <1>10, <1>11, SameAttempt
<1>13. CallControl'
    <2>1. Contiguous(call.next, bs)
        <3>1. ASSUME NEW i \in DOMAIN bs PROVE Number[bs[i]] = call.next + i - 1
            <4>1. CASE i = Len(call.blocks) + 1
                <5>1. Number[bs[i]] = call.next + Len(call.blocks)
                    BY <1>5, <1>6, <1>8, <4>1
                <5> QED
                    BY <1>2, <1>8, <4>1, <5>1
            <4>2. CASE i # Len(call.blocks) + 1
                <5>1. i \in 1 .. Len(call.blocks)
                    BY <1>8, <4>2
                <5> QED
                    BY <1>2, <1>8, <5>1 DEF Contiguous
            <4> QED
                BY <4>1, <4>2
        <3> QED
            BY <3>1 DEF Contiguous
    <2>2. Wanted' = Wanted + 1
        <3>1. Wanted' = call.next + Len(bs)
            BY <1>10 DEF Wanted
        <3> QED
            BY <1>2, <1>5, <1>8, <3>1
    <2>3. p = "serve" => Wanted' <= call.latest
        BY <1>2, <1>5, <1>9, <2>2
    <2> QED
        BY <1>2, <1>9, <1>10, <1>11, <1>12, <2>1, <2>3 DEF CallControl, Attempting
<1>14. SteadyHeight'
    <2>1. SteadyHeight
        BY SyncFacts
    <2> QED
        BY <1>1, <1>10, <1>12, <2>1 DEF SteadyHeight
<1>15. JoinedFollowsChain'
    <2>1. SUFFICES ASSUME call.steady, call.joined
                   PROVE  /\ HasNumber(Peer, call.next - 1)
                          /\ GetBlockByNumber(Peer, call.next - 1) \in stored
                          /\ \A i \in DOMAIN bs :
                                /\ HasNumber(Peer, call.next + i - 1)
                                /\ bs[i] = GetBlockByNumber(Peer, call.next + i - 1)
        BY <1>1, <1>9, <1>10, <1>12 DEF JoinedFollowsChain, HasNumber, GetBlockByNumber, vars
    <2>2. /\ HasNumber(Peer, call.next - 1)
          /\ GetBlockByNumber(Peer, call.next - 1) \in stored
          /\ \A i \in DOMAIN call.blocks :
                /\ HasNumber(Peer, call.next + i - 1)
                /\ call.blocks[i] = GetBlockByNumber(Peer, call.next + i - 1)
        BY <1>1, <1>2, <2>1 DEF JoinedFollowsChain
    <2>3. ASSUME NEW i \in DOMAIN bs
          PROVE  /\ HasNumber(Peer, call.next + i - 1)
                 /\ bs[i] = GetBlockByNumber(Peer, call.next + i - 1)
        <3>1. CASE i = Len(call.blocks) + 1
            <4>1. call.next + i - 1 = Wanted
                BY <1>2, <1>5, <1>8, <3>1
            <4> QED
                BY <1>6, <1>8, <3>1, <4>1
        <3>2. CASE i # Len(call.blocks) + 1
            <4>1. i \in 1 .. Len(call.blocks)
                BY <1>8, <3>2
            <4> QED
                BY <1>8, <2>2, <4>1
        <3> QED
            BY <3>1, <3>2
    <2> QED
        BY <2>2, <2>3
<1> QED
    BY <1>12, <1>13, <1>14, <1>15 DEF SyncInv

\* Only the place in syncFromPeer changes.
LEMMA PlaceOnly ==
    ASSUME SyncInv, UNCHANGED <<vars, known>>, NEW p \in Places, call' = [call EXCEPT !.pc = p],
           \/ call.pc = "serve" /\ p = "validate"
           \/ call.pc = "validate" /\ p = "import"
           \/ call.pc = "import" /\ call.blocks = <<>> /\ p = "request"
           \/ call.pc = "import" /\ call.blocks = <<>> /\ p = "ended" /\ call.next > call.latest
    PROVE  SyncInv'
<1>1. call \in CallRecords /\ call.blocks \in Seq(Blocks) /\ call.next \in Nat
    BY SyncFacts
<1>2. /\ call' \in CallRecords /\ call'.pc = p /\ call'.latest = call.latest
      /\ call'.peers = call.peers /\ call'.next = call.next /\ call'.blocks = call.blocks
      /\ call'.joined = call.joined /\ call'.steady = call.steady
    <2>1. [call EXCEPT !.pc = p] \in CallRecords
        BY <1>1, SyncCallUpdated
    <2> QED
        BY <1>1, <2>1 DEF CallRecords
<1>3. Attempting /\ Attempting' /\ call.pc # "importing" /\ call'.pc # "importing"
    BY <1>2 DEF Attempting
<1>4. /\ ImportInv' /\ CallTypeOK' /\ worker'[sync].pc = "idle"
      /\ Peer' = Peer /\ call.next >= 1 /\ Contiguous(call.next, call.blocks)
      /\ JoinedFollowsChain'
    BY <1>2, <1>3, SameAttempt
<1>5. CallControl'
    <2>1. call.peers # <<>>
        BY <1>3, SyncFacts DEF CallControl
    <2> QED
        BY <1>2, <1>3, <1>4, <2>1 DEF CallControl, Attempting
<1>6. SteadyHeight'
    <2>1. SteadyHeight
        BY SyncFacts
    <2> QED
        BY <1>2, <1>3, <1>4, <2>1 DEF SteadyHeight
<1> QED
    BY <1>4, <1>5, <1>6 DEF SyncInv

\* The answer is sent, is found contiguous, or is used up.
LEMMA ResponsePreserves ==
    ASSUME SyncInv, ServeFull \/ ValidateSyncResponse \/ BatchDone
    PROVE  SyncInv'
<1>1. CASE ServeFull
    <2>1. UNCHANGED <<vars, known>> /\ call' = [call EXCEPT !.pc = "validate"]
          /\ call.pc = "serve" /\ "validate" \in Places
        BY <1>1 DEF ServeFull, Places
    <2> QED
        BY <2>1, PlaceOnly
<1>2. CASE ValidateSyncResponse
    <2>1. CASE Fail
        BY <1>2, <2>1, EndsPreserve DEF ValidateSyncResponse
    <2>2. CASE /\ call' = [call EXCEPT !.pc = "import"]
               /\ UNCHANGED <<vars, known, budget>>
        <3>1. UNCHANGED <<vars, known>> /\ call.pc = "validate" /\ "import" \in Places
            BY <1>2, <2>2 DEF ValidateSyncResponse, Places
        <3> QED
            BY <2>2, <3>1, PlaceOnly
    <2> QED
        BY <1>2, <2>1, <2>2 DEF ValidateSyncResponse
<1>3. CASE BatchDone
    <2>1. UNCHANGED <<vars, known>> /\ call.pc = "import" /\ call.blocks = <<>>
          /\ "request" \in Places /\ "ended" \in Places
        BY <1>3 DEF BatchDone, Places
    <2>2. CASE call.next > call.latest
        <3>1. call' = [call EXCEPT !.pc = "ended"]
            BY <1>3, <2>2 DEF BatchDone
        <3> QED
            BY <2>1, <2>2, <3>1, PlaceOnly
    <2>3. CASE ~(call.next > call.latest)
        <3>1. call' = [call EXCEPT !.pc = "request"]
            BY <1>3, <2>3 DEF BatchDone
        <3> QED
            BY <2>1, <3>1, PlaceOnly
    <2> QED
        BY <2>2, <2>3
<1> QED
    BY <1>1, <1>2, <1>3

\* ImportRemoteBlock is called with the first block of the response.
LEMMA ImportStartsPreserves ==
    ASSUME SyncInv, ImportStarts
    PROVE  SyncInv'
<1>1. /\ call.pc = "import" /\ call.blocks # <<>> /\ Receive(sync, Head(call.blocks))
      /\ call' = [call EXCEPT !.pc = "importing"] /\ known' = known
    BY DEF ImportStarts
<1>2. /\ call \in CallRecords /\ call.blocks \in Seq(Blocks) /\ call.next \in Nat
      /\ sync \in Workers /\ ImportInv /\ call.peers # <<>>
      /\ call.next >= 1 /\ Contiguous(call.next, call.blocks)
    BY <1>1, SyncFacts DEF CallControl, Attempting
<1>3. PICK b \in Blocks : b = Head(call.blocks)
    BY <1>1, <1>2
<1>4. ImportInv' /\ stored' = stored
    BY <1>1, <1>2, <1>3, ReceivePreserves DEF Receive
<1>5. worker'[sync].queue = <<b>> /\ worker'[sync].pc = "hasBlock"
    <2>1. WorkersOK(worker) /\ <<b>> \in Seq(Blocks) /\ <<b>> # <<>>
        BY <1>2, ImportInvParts
    <2>2. Continue(sync, <<b>>)
        BY <1>1, <1>3 DEF Receive
    <2> QED
        BY <1>2, <2>1, <2>2, ContinueFacts
<1>6. /\ call' \in CallRecords /\ call'.pc = "importing" /\ call'.latest = call.latest
      /\ call'.peers = call.peers /\ call'.next = call.next /\ call'.blocks = call.blocks
      /\ call'.joined = call.joined /\ call'.steady = call.steady
    <2>1. "importing" \in Places
        BY DEF Places
    <2>2. [call EXCEPT !.pc = "importing"] \in CallRecords
        BY <1>2, <2>1, SyncCallUpdated
    <2> QED
        BY <1>1, <1>2, <2>2 DEF CallRecords
<1>7. Peer' = Peer /\ Attempting /\ Attempting'
    BY <1>1, <1>6 DEF Peer, Attempting
<1>8. CallTypeOK'
    BY <1>1, <1>6, SyncFacts DEF CallTypeOK, CallRecords, Places
<1>9. CallControl'
    BY <1>1, <1>2, <1>6 DEF CallControl, Attempting
<1>10. SteadyHeight'
    <2>1. SteadyHeight
        BY SyncFacts
    <2> QED
        BY <1>1, <1>6, <1>7, <2>1 DEF SteadyHeight
<1>11. JoinedFollowsChain'
    <2>1. JoinedFollowsChain
        BY SyncFacts
    <2>2. HeadGetsStored'
        BY <1>3, <1>5, <1>6 DEF HeadGetsStored
    <2> QED
        BY <1>1, <1>4, <1>6, <1>7, <2>1, <2>2 DEF JoinedFollowsChain, HasNumber, GetBlockByNumber
<1> QED
    BY <1>4, <1>8, <1>9, <1>10, <1>11 DEF SyncInv

\* ImportRemoteBlock has returned: if the attempt began on a common block
\* the block is stored now.
LEMMA ImportReturnsPreserves ==
    ASSUME SyncInv, ImportReturns
    PROVE  SyncInv'
<1>1. UNCHANGED <<vars, known>> /\ call.pc = "importing" /\ worker[sync].pc = "idle"
    BY DEF ImportReturns
<1>2. /\ call \in CallRecords /\ call.blocks \in Seq(Blocks) /\ call.next \in Nat
      /\ call.peers # <<>> /\ call.blocks # <<>> /\ call.latest \in Nat
      /\ call.next >= 1 /\ Contiguous(call.next, call.blocks)
    BY <1>1, SyncFacts DEF CallControl, Attempting
<1>3. Head(call.blocks) = call.blocks[1] /\ 1 \in DOMAIN call.blocks
    BY <1>2
<1>4. Number[Head(call.blocks)] = call.next
    BY <1>2, <1>3 DEF Contiguous
<1>5. PICK bs : bs = Tail(call.blocks)
    OBVIOUS
<1>6. /\ bs \in Seq(Blocks)
      /\ \A i \in DOMAIN bs : i + 1 \in DOMAIN call.blocks /\ bs[i] = call.blocks[i + 1] /\ i \in Nat
    BY <1>2, <1>5
<1>7. call' = [call EXCEPT !.pc = "import", !.blocks = bs, !.height = call.next,
                           !.next = call.next + 1]
    BY <1>4, <1>5 DEF ImportReturns
<1>8. /\ call' \in CallRecords /\ call'.pc = "import" /\ call'.latest = call.latest
      /\ call'.peers = call.peers /\ call'.next = call.next + 1 /\ call'.blocks = bs
      /\ call'.joined = call.joined /\ call'.steady = call.steady
    <2>1. "import" \in Places /\ call.next + 1 \in Nat
        BY <1>2 DEF Places
    <2>2. PICK n \in Nat : n = call.next + 1
        BY <2>1
    <2>3. [call EXCEPT !.pc = "import", !.blocks = bs, !.height = call.next, !.next = n]
            \in CallRecords
        BY <1>2, <1>6, <2>1, SyncCallUpdated
    <2>4. call' = [call EXCEPT !.pc = "import", !.blocks = bs, !.height = call.next, !.next = n]
        BY <1>7, <2>2
    <2> QED
        BY <1>2, <2>2, <2>3, <2>4 DEF CallRecords
<1>9. Peer' = Peer /\ Attempting /\ Attempting'
    BY <1>1, <1>8 DEF Peer, Attempting
<1>10. ImportInv' /\ stored' = stored /\ worker' = worker
    BY <1>1, SyncFacts, ImportInvSame DEF vars
<1>11. CallTypeOK'
    BY <1>1, <1>8, SyncFacts DEF CallTypeOK, CallRecords, Places
<1>12. CallControl'
    <2>1. Contiguous(call.next + 1, bs)
        <3>1. ASSUME NEW i \in DOMAIN bs PROVE Number[bs[i]] = (call.next + 1) + i - 1
            <4>1. Number[bs[i]] = call.next + (i + 1) - 1
                BY <1>2, <1>6 DEF Contiguous
            <4>2. i \in Nat
                BY <1>6
            <4>3. PICK n \in Nat : n = call.next
                BY <1>2
            <4>4. (n + 1) + i - 1 = n + (i + 1) - 1
                BY <4>2
            <4> QED
                BY <4>1, <4>3, <4>4
        <3> QED
            BY <3>1 DEF Contiguous
    <2>2. call.next + 1 >= 1
        BY <1>2
    <2> QED
        BY <1>1, <1>2, <1>8, <1>10, <2>1, <2>2 DEF CallControl, Attempting
<1>13. SteadyHeight'
    <2>1. SteadyHeight
        BY SyncFacts
    <2> QED
        BY <1>1, <1>8, <1>9, <2>1 DEF SteadyHeight
<1>14. JoinedFollowsChain'
    <2>1. SUFFICES ASSUME call.steady, call.joined
                   PROVE  /\ HasNumber(Peer, (call.next + 1) - 1)
                          /\ GetBlockByNumber(Peer, (call.next + 1) - 1) \in stored
                          /\ \A i \in DOMAIN bs :
                                /\ HasNumber(Peer, (call.next + 1) + i - 1)
                                /\ bs[i] = GetBlockByNumber(Peer, (call.next + 1) + i - 1)
        BY <1>1, <1>8, <1>9, <1>10 DEF JoinedFollowsChain, HasNumber, GetBlockByNumber
    <2>2. /\ \A i \in DOMAIN call.blocks :
                /\ HasNumber(Peer, call.next + i - 1)
                /\ call.blocks[i] = GetBlockByNumber(Peer, call.next + i - 1)
          /\ HeadGetsStored
        BY <1>1, <1>9, <2>1, SyncFacts DEF JoinedFollowsChain
    <2>3. Head(call.blocks) \in stored
        BY <1>1, <2>2 DEF HeadGetsStored
    <2>4. (call.next + 1) - 1 = call.next /\ call.next + 1 - 1 = call.next
        BY <1>2
    <2>5. HasNumber(Peer, call.next) /\ GetBlockByNumber(Peer, call.next) \in stored
        BY <1>3, <2>2, <2>3, <2>4
    <2>6. ASSUME NEW i \in DOMAIN bs
          PROVE  /\ HasNumber(Peer, (call.next + 1) + i - 1)
                 /\ bs[i] = GetBlockByNumber(Peer, (call.next + 1) + i - 1)
        <3>1. i \in Nat
            BY <1>6
        <3>2. PICK n \in Nat : n = call.next
            BY <1>2
        <3>3. (n + 1) + i - 1 = n + (i + 1) - 1
            BY <3>1
        <3> QED
            BY <1>6, <2>2, <3>2, <3>3
    <2> QED
        BY <2>4, <2>5, <2>6
<1> QED
    BY <1>10, <1>11, <1>12, <1>13, <1>14 DEF SyncInv

\* An error return of ImportRemoteBlock ends the attempt.
LEMMA ImportRefusedPreserves ==
    ASSUME SyncInv, ImportRefused
    PROVE  SyncInv'
<1>1. Refuse(sync) /\ call' = NextPeer /\ known' = known
    BY DEF ImportRefused
<1>2. worker[sync].pc = "import"
    BY <1>1 DEF Refuse
<1>3. call.peers # <<>>
    BY <1>2, SyncFacts DEF CallControl, Attempting
<1>4. ImportInv' /\ worker'[sync].pc = "idle"
    BY <1>1, SyncFacts, RefusePreserves DEF IdleWorker
<1> QED
    BY <1>1, <1>3, <1>4, NextPeerPreserves

\* A step of a call of ImportRemoteBlock, whoever made it.
LEMMA WorkerMoves ==
    ASSUME SyncInv, ImportInv', stored \subseteq stored', UNCHANGED <<known, call>>,
           worker'[sync].pc # "idle" => worker[sync].pc # "idle",
           (call.pc = "importing" /\ call.steady /\ call.joined) => HeadGetsStored'
    PROVE  SyncInv'
<1>1. /\ CallTypeOK /\ CallControl /\ SteadyHeight /\ JoinedFollowsChain
    BY SyncFacts
<1>2. CallTypeOK'
    BY <1>1 DEF CallTypeOK
<1>3. CallControl'
    BY <1>1 DEF CallControl, Attempting, Wanted, Contiguous
<1>4. SteadyHeight' /\ Peer' = Peer
    BY <1>1 DEF SteadyHeight, Attempting, Peer
<1>5. JoinedFollowsChain'
    <2>1. SUFFICES ASSUME call.steady, call.joined, Attempting
                   PROVE  /\ HasNumber(Peer, call.next - 1)
                          /\ GetBlockByNumber(Peer, call.next - 1) \in stored'
                          /\ \A i \in DOMAIN call.blocks :
                                /\ HasNumber(Peer, call.next + i - 1)
                                /\ call.blocks[i] = GetBlockByNumber(Peer, call.next + i - 1)
                          /\ call.pc = "importing" => HeadGetsStored'
        BY <1>4 DEF JoinedFollowsChain, Attempting, HasNumber, GetBlockByNumber
    <2> QED
        BY <1>1, <2>1 DEF JoinedFollowsChain
<1> QED
    BY <1>2, <1>3, <1>4, <1>5 DEF SyncInv

\* The gossip reader may store blocks, and leaves the locals of SyncChain alone.
LEMMA GossipPreserves ==
    ASSUME SyncInv, GossipStep \/ \E b \in Blocks : Gossip(b)
    PROVE  SyncInv'
<1>1. ImportInv /\ JoinedFollowsChain /\ sync \in Workers /\ gossip \in Workers /\ gossip # sync
      /\ CallControl
    BY SyncFacts, WorkersAssumption
<1>2. ImportInv' /\ stored \subseteq stored' /\ UNCHANGED <<known, call>>
      /\ worker'[sync] = worker[sync]
    <2>1. CASE GossipStep
        <3>1. (ImportStep(gossip) \/ Refuse(gossip)) /\ UNCHANGED <<known, call>>
            BY <2>1 DEF GossipStep, syncVars
        <3> QED
            BY <1>1, <3>1, ImportStepPreserves
    <2>2. CASE \E b \in Blocks : Gossip(b)
        <3>1. PICK b \in Blocks : Gossip(b)
            BY <2>2
        <3>2. Receive(gossip, b) /\ UNCHANGED <<known, call>>
            BY <3>1 DEF Gossip
        <3>3. ImportInv' /\ stored' = stored
            BY <1>1, <3>2, ReceivePreserves DEF Receive
        <3>4. WorkersOK(worker) /\ <<b>> \in Seq(Blocks) /\ Continue(gossip, <<b>>)
            BY <1>1, <3>2, ImportInvParts DEF Receive
        <3>5. worker'[sync] = worker[sync]
            BY <1>1, <3>4, ContinueFacts
        <3> QED
            BY <3>2, <3>3, <3>5
    <2> QED
        BY <2>1, <2>2
<1>3. (call.pc = "importing" /\ call.steady /\ call.joined) => HeadGetsStored'
    <2>1. SUFFICES ASSUME call.pc = "importing", call.steady, call.joined
                   PROVE  HeadGetsStored'
        OBVIOUS
    <2>2. HeadGetsStored
        BY <1>1, <2>1 DEF JoinedFollowsChain, Attempting
    <2> QED
        BY <1>2, <2>2 DEF HeadGetsStored
<1> QED
    BY <1>2, <1>3, WorkerMoves

\* The first block of the response has its parent stored: the call of
\* ImportRemoteBlock for it goes from check to check and stores it.
LEMMA HeadAdvances ==
    ASSUME SyncInv, ImportStep(sync), UNCHANGED <<known, call>>,
           call.pc = "importing", call.steady, call.joined
    PROVE  HeadGetsStored'
<1>1. /\ ImportInv /\ JoinedFollowsChain /\ CallControl /\ sync \in Workers
      /\ call.blocks \in Seq(Blocks) /\ call.next \in Nat /\ known \in [Peers -> Trees]
      /\ call.peers \in Seq(Peers) /\ call.blocks # <<>> /\ call.peers # <<>> /\ call.next >= 1
    BY SyncFacts DEF CallControl, Attempting
<1>2. PICK b \in Blocks : b = Head(call.blocks) /\ b = call.blocks[1] /\ 1 \in DOMAIN call.blocks
    BY <1>1
<1>3. Parent[b] \in stored
    <2>1. /\ HasNumber(Peer, call.next - 1)
          /\ GetBlockByNumber(Peer, call.next - 1) \in stored
          /\ HasNumber(Peer, call.next + 1 - 1)
          /\ b = GetBlockByNumber(Peer, call.next + 1 - 1)
        BY <1>1, <1>2 DEF JoinedFollowsChain, Attempting
    <2>2. known[Peer] \in Trees
        BY <1>1 DEF Peer
    <2>3. call.next + 1 - 1 = call.next
        BY <1>1
    <2>4. PICK S \in Trees : S = known[Peer]
        BY <2>2
    <2>5. call.next \in DOMAIN Chain[S] /\ b = Chain[S][call.next]
          /\ Chain[S][call.next - 1] \in stored
        BY <2>1, <2>3, <2>4 DEF HasNumber, GetBlockByNumber
    <2>6. PICK n \in Nat : n = call.next
        BY <1>1
    <2>7. n >= 1 /\ n \in 0 .. Number[Tip[S]]
        BY <1>1, <2>5, <2>6, ChainFacts
    <2>8. Parent[Chain[S][n]] = Chain[S][n - 1]
        BY <2>7, ChainFacts
    <2> QED
        BY <2>5, <2>6, <2>8
<1>4. HeadGetsStored
    BY <1>1 DEF JoinedFollowsChain, Attempting
<1>5. stored \subseteq stored'
    BY <1>1, ImportStepPreserves
<1>6. CASE b \in stored
    BY <1>2, <1>5, <1>6 DEF HeadGetsStored
<1>7. CASE b \notin stored
    <2>1. /\ worker[sync].queue = <<b>>
          /\ worker[sync].pc \in {"hasBlock", "hasParent", "decide", "import"}
          /\ worker[sync].pc \in {"decide", "import"} => worker[sync].hasParent
          /\ worker[sync].pc \in {"hasParent", "decide"} => ~worker[sync].hasBlock
        BY <1>2, <1>4, <1>7 DEF HeadGetsStored
    <2>2. Candidate(sync) = b /\ WorkersOK(worker) /\ worker[sync] \in Calls
        BY <1>1, <2>1, ImportInvParts, CandidateFacts DEF Candidate
    <2>3. worker \in [Workers -> Calls]
        BY <2>2 DEF WorkersOK
    <2>4. CASE CheckBlock(sync)
        <3>0. worker' = [worker EXCEPT ![sync].pc = "hasParent",
                                       ![sync].hasBlock = b \in stored]
            BY <2>2, <2>4 DEF CheckBlock
        <3>1. worker'[sync] = [worker[sync] EXCEPT !.pc = "hasParent", !.hasBlock = b \in stored]
            BY <1>1, <2>3, <3>0
        <3>2. worker'[sync].pc = "hasParent" /\ ~worker'[sync].hasBlock
              /\ worker'[sync].queue = worker[sync].queue
            BY <1>7, <2>2, <3>1 DEF Calls
        <3> QED
            BY <1>2, <2>1, <3>2 DEF HeadGetsStored
    <2>5. CASE CheckParent(sync)
        <3>1. worker'[sync] = [worker[sync] EXCEPT !.pc = "decide", !.hasParent = TRUE]
            BY <1>1, <1>3, <2>2, <2>3, <2>5 DEF CheckParent
        <3>2. worker'[sync].pc = "decide" /\ worker'[sync].hasParent
              /\ worker'[sync].hasBlock = worker[sync].hasBlock
              /\ worker'[sync].queue = worker[sync].queue
            BY <2>2, <3>1 DEF Calls
        <3>3. ~worker[sync].hasBlock
            BY <2>1, <2>5 DEF CheckParent
        <3> QED
            BY <1>2, <2>1, <3>2, <3>3 DEF HeadGetsStored
    <2>6. CASE Decide(sync)
        <3>1. worker[sync].pc = "decide" /\ worker[sync].hasParent /\ ~worker[sync].hasBlock
            BY <2>1, <2>6 DEF Decide
        <3>2. worker' = [worker EXCEPT ![sync].pc = "import"]
            BY <2>6, <3>1 DEF Decide
        <3>3. worker'[sync].pc = "import" /\ worker'[sync].queue = worker[sync].queue
              /\ worker'[sync].hasParent = worker[sync].hasParent
            BY <1>1, <2>2, <3>1, <3>2, PlaceChanged
        <3> QED
            BY <1>2, <2>1, <3>1, <3>3 DEF HeadGetsStored
    <2>7. CASE Import(sync)
        BY <1>2, <1>3, <2>2, <2>7 DEF Import, HeadGetsStored
    <2>8. CASE TakeChildren(sync)
        BY <2>1, <2>8 DEF TakeChildren
    <2> QED
        BY <2>4, <2>5, <2>6, <2>7, <2>8 DEF ImportStep
<1> QED
    BY <1>6, <1>7

LEMMA SyncImportPreserves ==
    ASSUME SyncInv, ImportStep(sync), UNCHANGED syncVars
    PROVE  SyncInv'
<1>1. ImportInv /\ sync \in Workers /\ UNCHANGED <<known, call>>
    BY SyncFacts DEF syncVars
<1>2. ImportInv' /\ stored \subseteq stored'
    BY <1>1, ImportStepPreserves
<1>3. worker[sync].pc # "idle"
    BY DEF ImportStep, CheckBlock, CheckParent, Decide, Import, TakeChildren
<1>4. (call.pc = "importing" /\ call.steady /\ call.joined) => HeadGetsStored'
    BY <1>1, HeadAdvances
<1> QED
    BY <1>1, <1>2, <1>3, <1>4, WorkerMoves

\* The chain of a peer changes: of the one that is asked, steady tells it.
LEMMA AcceptPreserves ==
    ASSUME SyncInv, NEW p \in Peers, NEW b \in Blocks, Accept(p, b)
    PROVE  SyncInv'
<1>1. /\ ImportInv /\ CallTypeOK /\ CallControl /\ SteadyHeight /\ JoinedFollowsChain
      /\ call \in CallRecords /\ known \in [Peers -> Trees] /\ call.peers \in Seq(Peers)
    BY SyncFacts
<1>2. /\ UNCHANGED vars /\ known' = [known EXCEPT ![p] = known[p] \cup {b}]
      /\ b \notin known[p] /\ Parent[b] \in known[p]
      /\ call' = [call EXCEPT !.steady = call.steady /\ (call.peers = <<>> \/ Peer # p)]
    BY DEF Accept
<1>3. known' \in [Peers -> Trees] /\ \A q \in Peers : q # p => known'[q] = known[q]
    <2>1. known[p] \in Trees
        BY <1>1
    <2>2. known[p] \cup {b} \in Trees
        BY <1>2, <2>1, BlocksAssumption DEF Trees
    <2> QED
        BY <1>1, <1>2, <2>2
<1> DEFINE s == call.steady /\ (call.peers = <<>> \/ Peer # p)
<1>4. s \in BOOLEAN
    OBVIOUS
<1>5. call' = [call EXCEPT !.steady = s]
    BY <1>2
<1>6. /\ s => call.steady
      /\ s => (call.peers = <<>> \/ Peer # p)
    OBVIOUS
<1> HIDE DEF s
<1>7. /\ call' \in CallRecords /\ call'.pc = call.pc /\ call'.latest = call.latest
      /\ call'.peers = call.peers /\ call'.next = call.next /\ call'.blocks = call.blocks
      /\ call'.joined = call.joined /\ call'.steady = s
    BY <1>1, <1>4, <1>5 DEF CallRecords
<1>8. /\ ImportInv' /\ stored' = stored /\ worker' = worker
    BY <1>1, <1>2, ImportInvSame DEF vars
<1>9. Peer' = Peer /\ (Attempting' <=> Attempting)
    BY <1>7 DEF Peer, Attempting
<1>10. CallTypeOK'
    BY <1>3, <1>7 DEF CallTypeOK, CallRecords, Places
<1>11. CallControl'
    BY <1>1, <1>7, <1>8, <1>9 DEF CallControl, Wanted, Contiguous
<1>12. ASSUME call'.steady, Attempting PROVE known'[Peer] = known[Peer] /\ call.steady
    <2>1. call.peers # <<>>
        BY <1>1, <1>12 DEF CallControl
    <2>2. Peer \in Peers /\ Peer # p /\ call.steady
        BY <1>1, <1>6, <1>7, <1>12, <2>1 DEF Peer
    <2> QED
        BY <1>3, <2>2
<1>13. SteadyHeight'
    BY <1>1, <1>7, <1>9, <1>12 DEF SteadyHeight
<1>14. JoinedFollowsChain'
    <2>1. SUFFICES ASSUME call'.steady, call.joined, Attempting
                   PROVE  /\ call.next - 1 \in DOMAIN Chain[known'[Peer]]
                          /\ Chain[known'[Peer]][call.next - 1] \in stored
                          /\ \A i \in DOMAIN call.blocks :
                                /\ call.next + i - 1 \in DOMAIN Chain[known'[Peer]]
                                /\ call.blocks[i] = Chain[known'[Peer]][call.next + i - 1]
                          /\ call.pc = "importing" => HeadGetsStored
        BY <1>7, <1>8, <1>9 DEF JoinedFollowsChain, HasNumber, GetBlockByNumber, HeadGetsStored
    <2> QED
        BY <1>1, <1>12, <2>1 DEF JoinedFollowsChain, HasNumber, GetBlockByNumber
<1> QED
    BY <1>8, <1>10, <1>11, <1>13, <1>14 DEF SyncInv

\* Initially nothing is stored, buffered or under way.
LEMMA SyncInvInit ==
    ASSUME SyncInit
    PROVE  SyncInv
<1>1. /\ stored = {Genesis} /\ bufferedByHash = {}
      /\ bufferedByParent = [p \in Blocks \cup {Genesis} |-> {}]
      /\ worker = [w \in Workers |-> IdleWorker]
      /\ received = {} /\ dropped = {} /\ overlapped = FALSE
      /\ known \in Starts /\ call = IdleCall
    BY DEF SyncInit, Init
<1>2. ImportInv
    <2>1. IdleWorker \in Calls /\ IdleWorker.pc = "idle" /\ IdleWorker.queue = <<>>
        <3>1. <<>> \in Seq(Blocks)
            OBVIOUS
        <3> QED
            BY <3>1, CallMade DEF IdleWorker
    <2>2. WorkersOK(worker) /\ \A w \in Workers : worker[w].pc = "idle" /\ worker[w].queue = <<>>
        BY <1>1, <2>1 DEF WorkersOK
    <2>3. OnlyReceived
        BY <1>1, <2>2 DEF OnlyReceived, Elements
    <2>4. StoredIsTree
        BY <1>1 DEF StoredIsTree
    <2>5. CallsInTurn
        BY <1>1, <2>2 DEF CallsInTurn
    <2> QED
        BY <1>1, <2>2, <2>3, <2>4, <2>5, ImportInvParts
<1>3. /\ call.pc = "idle" /\ call.peers = <<>> /\ call.blocks = <<>>
    BY <1>1 DEF IdleCall
<1>4. CallTypeOK
    <2>1. "idle" \in Places
        BY DEF Places
    <2>2. IdleCall \in CallRecords
        <3>1. <<>> \in Seq(Blocks) /\ <<>> \in Seq(Peers) /\ 0 \in Nat
            OBVIOUS
        <3> QED
            BY <2>1, <3>1, SyncCallMade DEF IdleCall
    <2> QED
        BY <1>1, <2>2, StartsAssumption DEF CallTypeOK, CallRecords, Places
<1>5. CallControl
    <2>1. worker[sync].pc = "idle"
        BY <1>1, WorkersAssumption DEF IdleWorker
    <2> QED
        BY <1>3, <2>1 DEF CallControl, Attempting
<1> QED
    BY <1>2, <1>3, <1>4, <1>5 DEF SyncInv, SteadyHeight, JoinedFollowsChain, Attempting

LEMMA SyncInvNext ==
    ASSUME SyncInv, [SyncNext]_allVars
    PROVE  SyncInv'
<1>1. CASE SyncStep
    <2>1. CASE SkipPeer \/ EndSync \/ RequestFails \/ PeerRefuses \/ ServeMissing \/ PeerDone
        BY <2>1, EndsPreserve
    <2>2. CASE StartPeer
        BY <2>2, StartPeerPreserves
    <2>3. CASE ServeLatest
        BY <2>3, ServeLatestPreserves
    <2>4. CASE ServeBlock
        BY <2>4, ServeBlockPreserves
    <2>5. CASE ServeFull \/ ValidateSyncResponse \/ BatchDone
        BY <2>5, ResponsePreserves
    <2>6. CASE ImportStarts
        BY <2>6, ImportStartsPreserves
    <2>7. CASE ImportReturns
        BY <2>7, ImportReturnsPreserves
    <2>8. CASE ImportRefused
        BY <2>8, ImportRefusedPreserves
    <2>9. CASE ImportStep(sync) /\ UNCHANGED syncVars
        BY <2>9, SyncImportPreserves
    <2> QED
        BY <1>1, <2>1, <2>2, <2>3, <2>4, <2>5, <2>6, <2>7, <2>8, <2>9 DEF SyncStep
<1>2. CASE \E order \in Orders : StartSync(order)
    BY <1>2, EndsPreserve
<1>3. CASE \E p \in Peers, b \in Blocks : Accept(p, b)
    BY <1>3, AcceptPreserves
<1>4. CASE GossipStep \/ \E b \in Blocks : Gossip(b)
    BY <1>4, GossipPreserves
<1>5. CASE UNCHANGED allVars
    <2>1. UNCHANGED <<vars, known, call>> /\ ImportInv
        BY <1>5, SyncFacts DEF allVars, syncVars
    <2>2. ImportInv' /\ stored' = stored /\ worker' = worker
        BY <2>1, ImportInvSame DEF vars
    <2>3. (call.pc = "importing" /\ call.steady /\ call.joined) => HeadGetsStored'
        <3>1. SUFFICES ASSUME call.pc = "importing", call.steady, call.joined
                       PROVE  HeadGetsStored'
            OBVIOUS
        <3>2. HeadGetsStored
            BY <3>1, SyncFacts DEF JoinedFollowsChain, Attempting
        <3> QED
            BY <2>1, <2>2, <3>2 DEF HeadGetsStored
    <2> QED
        BY <2>1, <2>2, <2>3, WorkerMoves
<1> QED
    BY <1>1, <1>2, <1>3, <1>4, <1>5 DEF SyncNext

---------------------------------------------------------------------------
(***************************************************************************)
(* The state of ImportRemoteBlock, of its buffer and of SyncChain keeps    *)
(* its shape and its meaning, for any tree of blocks, any peers and any    *)
(* interleaving of SyncChain with the gossip reader and with changes of    *)
(* the peers' chains.                                                      *)
(***************************************************************************)
THEOREM SyncInvariant == SyncSpec => []SyncInv
<1>1. SyncInit => SyncInv
    BY SyncInvInit
<1>2. SyncInv /\ [SyncNext]_allVars => SyncInv'
    BY SyncInvNext
<1> QED
    BY <1>1, <1>2, PTL DEF SyncSpec

(***************************************************************************)
(* bufferedByHash and bufferedByParent always hold the same blocks, each   *)
(* under its own parent.                                                   *)
(***************************************************************************)
COROLLARY BufferIsConsistent == SyncSpec => []BufferMapsAgree
<1>1. SyncInv => BufferMapsAgree
    BY DEF SyncInv, ImportInv
<1> QED
    BY <1>1, SyncInvariant, PTL

(***************************************************************************)
(* While calls of ImportRemoteBlock come one after the other, none of them *)
(* returns with a block buffered whose parent is stored.                   *)
(***************************************************************************)
COROLLARY EarlyChildrenAreImported == SyncSpec => []NoChildLeftBehindInTurn
<1>1. SyncInv => NoChildLeftBehindInTurn
    BY DEF SyncInv, ImportInv, CallsInTurn, NoChildLeftBehindInTurn, NoChildLeftBehind
<1> QED
    BY <1>1, SyncInvariant, PTL

(***************************************************************************)
(* An honest peer's answer is never found to have a gap, and a height it   *)
(* named is missing only if its chain has changed since.                   *)
(***************************************************************************)
COROLLARY HonestAnswersPass == SyncSpec => []HonestPeerIsNotBlamed
<1>1. ASSUME SyncInv PROVE HonestPeerIsNotBlamed
    <2>1. /\ CallControl /\ SteadyHeight /\ known \in [Peers -> Trees] /\ call.peers \in Seq(Peers)
          /\ call.next \in Nat /\ call.blocks \in Seq(Blocks) /\ call.latest \in Nat
        BY <1>1, SyncFacts
    <2>2. call.pc = "validate" => Contiguous(call.next, call.blocks)
        BY <2>1 DEF CallControl, Attempting
    <2>3. ASSUME call.pc = "serve", call.steady PROVE HasNumber(Peer, Wanted)
        <3>1. call.peers # <<>> /\ Wanted <= call.latest
            BY <2>1, <2>3 DEF CallControl, Attempting
        <3>2. call.latest = Number[Tip[known[Peer]]]
            BY <2>1, <2>3 DEF SteadyHeight, Attempting
        <3>3. known[Peer] \in Trees
            BY <2>1, <3>1 DEF Peer
        <3>4. Wanted \in 0 .. call.latest
            <4>1. Len(call.blocks) \in Nat
                BY <2>1
            <4> QED
                BY <2>1, <3>1, <4>1 DEF Wanted
        <3> QED
            BY <3>2, <3>3, <3>4, ChainFacts DEF HasNumber
    <2> QED
        BY <2>2, <2>3 DEF HonestPeerIsNotBlamed
<1> QED
    BY <1>1, SyncInvariant, PTL

(***************************************************************************)
(* An attempt that ended without an error brought the whole chain of the   *)
(* peer, if that chain is unchanged and the attempt began on a block that  *)
(* both sides had: the safety half of SyncReachesPeer.                     *)
(***************************************************************************)
THEOREM AttemptsBringChains == SyncSpec => [](CleanAttempt => PeerChainIsHere)
<1>1. ASSUME SyncInv PROVE CleanAttempt => PeerChainIsHere
    <2>1. SUFFICES ASSUME call.pc = "ended", call.steady, call.joined
                   PROVE  Tip[known[Peer]] \in stored
        BY DEF CleanAttempt, PeerChainIsHere
    <2>2. /\ call.peers # <<>> /\ call.next > call.latest /\ call.next >= 1
          /\ call.latest = Number[Tip[known[Peer]]]
          /\ HasNumber(Peer, call.next - 1) /\ GetBlockByNumber(Peer, call.next - 1) \in stored
          /\ known \in [Peers -> Trees] /\ call.peers \in Seq(Peers)
          /\ call.next \in Nat /\ call.latest \in Nat
        BY <1>1, <2>1, SyncFacts DEF CallControl, SteadyHeight, JoinedFollowsChain, Attempting
    <2>3. known[Peer] \in Trees
        BY <2>2 DEF Peer
    <2>4. call.next - 1 \in 0 .. call.latest /\ Chain[known[Peer]][call.latest] = Tip[known[Peer]]
        BY <2>2, <2>3, ChainFacts DEF HasNumber
    <2>5. call.next - 1 = call.latest
        BY <2>2, <2>4
    <2> QED
        BY <2>2, <2>4, <2>5 DEF GetBlockByNumber
<1> QED
    BY <1>1, SyncInvariant, PTL
=============================================================================
