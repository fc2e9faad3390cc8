------------------------- MODULE ChainReadersProofs -------------------------
(***************************************************************************)
(* Proofs about the block store and about the queries that read it, for    *)
(* every set of hashes and works.                                          *)
(*                                                                         *)
(* The store (Blockchain) comes first: its inductive invariant, that its   *)
(* tip only improves, and that it implements HeaviestTip.  Nothing up to   *)
(* the theorem StoreImplementsHeaviestTip mentions a reader.               *)
(*                                                                         *)
(* The readers (ChainReaders) leave the store alone: every behaviour of    *)
(* the store with its readers is, seen from the store, a behaviour of the  *)
(* store, and what is proved of the store therefore holds beside readers.  *)
(* On that rests ReaderInv, the inductive invariant of a query: while it   *)
(* walks back, the heights it has passed hold every block that stayed on   *)
(* the chain, because the block at a height changes only together with     *)
(* the canonical chain above it.                                           *)
(***************************************************************************)
EXTENDS ChainReaders, TLAPS

(***************************************************************************)
(* Lemmas about Ancestors.                                                 *)
(***************************************************************************)

\* A stored block is among its own ancestors.
LEMMA AncestorsSelf ==
    ASSUME NEW m, NEW h \in DOMAIN m
    PROVE  h \in Ancestors(m, h)
BY DEF Ancestors

\* Ancestors are closed under the parent pointers.
LEMMA AncestorsClosed ==
    ASSUME NEW m, NEW h
    PROVE  ClosedUnderParent(m, Ancestors(m, h))
<1> SUFFICES ASSUME NEW b \in Ancestors(m, h), m[b].parent \in DOMAIN m,
                    NEW S \in SUBSET DOMAIN m,
                    h \in S, ClosedUnderParent(m, S)
             PROVE  m[b].parent \in S
    BY DEF Ancestors, ClosedUnderParent
<1>1. b \in S
    BY DEF Ancestors
<1> QED
    BY <1>1 DEF ClosedUnderParent

\* The ancestors of h lie inside every closed set that holds h.
LEMMA AncestorsLeast ==
    ASSUME NEW m, NEW h, NEW S \in SUBSET DOMAIN m,
           h \in S, ClosedUnderParent(m, S)
    PROVE  Ancestors(m, h) \subseteq S
BY DEF Ancestors

\* Ancestors depend on the parent pointers only, not on the other fields.
LEMMA AncestorsSameParents ==
    ASSUME NEW m1, NEW m2, DOMAIN m1 = DOMAIN m2,
           \A h \in DOMAIN m1 : m1[h].parent = m2[h].parent, NEW h
    PROVE  Ancestors(m1, h) = Ancestors(m2, h)
<1>1. \A S \in SUBSET DOMAIN m1 :
        ClosedUnderParent(m1, S) <=> ClosedUnderParent(m2, S)
    BY DEF ClosedUnderParent
<1> QED
    BY <1>1 DEF Ancestors

\* Every parent pointer of m leads to a stored block or to no block.
ParentsStored(m) == \A h \in DOMAIN m : m[h].parent \in DOMAIN m \cup {NoHash}

\* A new leaf x changes no other block's ancestors ...
LEMMA AncestorsOfOthers ==
    ASSUME NEW m, NEW x, x \notin DOMAIN m, x # NoHash, NEW v,
           ParentsStored(m), NEW h \in DOMAIN m
    PROVE  Ancestors(Put(m, x, v), h) = Ancestors(m, h)
<1> DEFINE n == Put(m, x, v)
<1>1. DOMAIN n = DOMAIN m \cup {x} /\ \A b \in DOMAIN m : n[b] = m[b]
    BY DEF Put
<1> HIDE DEF n
<1>2. \A S \in SUBSET DOMAIN m : ClosedUnderParent(m, S) <=> ClosedUnderParent(n, S)
    BY <1>1 DEF ClosedUnderParent, ParentsStored
<1>3. ClosedUnderParent(m, Ancestors(n, h) \cap DOMAIN m)
    BY <1>1, AncestorsClosed DEF ClosedUnderParent
<1>4. Ancestors(m, h) \subseteq Ancestors(n, h)
    <2>1. h \in Ancestors(n, h) \cap DOMAIN m
        BY <1>1, AncestorsSelf
    <2> QED
        BY <2>1, <1>3, AncestorsLeast
<1>5. Ancestors(n, h) \subseteq Ancestors(m, h)
    <2>1. Ancestors(m, h) \in SUBSET DOMAIN m
        BY DEF Ancestors
    <2>2. ClosedUnderParent(n, Ancestors(m, h))
        BY <2>1, <1>2, AncestorsClosed
    <2>3. h \in Ancestors(m, h)
        BY AncestorsSelf
    <2>4. Ancestors(m, h) \in SUBSET DOMAIN n
        BY <2>1, <1>1
    <2> QED
        BY <2>2, <2>3, <2>4, AncestorsLeast
<1> QED
    BY <1>4, <1>5 DEF n

\* ... and its own are itself and the ancestors of its parent.
LEMMA AncestorsOfNew ==
    ASSUME NEW m, NEW x, x \notin DOMAIN m, x # NoHash, NEW v,
           ParentsStored(m), v.parent \in DOMAIN m
    PROVE  Ancestors(Put(m, x, v), x) = {x} \cup Ancestors(m, v.parent)
<1> DEFINE n == Put(m, x, v)
           p == v.parent
<1>1. DOMAIN n = DOMAIN m \cup {x} /\ n[x] = v /\ \A b \in DOMAIN m : n[b] = m[b]
    BY DEF Put
<1>2. Ancestors(n, p) = Ancestors(m, p)
    BY AncestorsOfOthers
<1> HIDE DEF n
<1>3. Ancestors(n, x) \subseteq {x} \cup Ancestors(m, p)
    <2> DEFINE S == {x} \cup Ancestors(m, p)
    <2>1. S \in SUBSET DOMAIN n
        BY <1>1 DEF Ancestors
    <2>2. p \in S
        BY AncestorsSelf
    <2>3. ClosedUnderParent(n, Ancestors(n, p))
        BY AncestorsClosed
    <2>4. ClosedUnderParent(n, S)
        BY <1>1, <1>2, <2>2, <2>3 DEF ClosedUnderParent
    <2> QED
        BY <2>1, <2>4, AncestorsLeast
<1>4. x \in Ancestors(n, x)
    BY <1>1, AncestorsSelf
<1>5. p \in Ancestors(n, x)
    BY <1>1, <1>4, AncestorsClosed DEF ClosedUnderParent
<1>6. Ancestors(n, p) \subseteq Ancestors(n, x)
    <2>1. Ancestors(n, x) \in SUBSET DOMAIN n
        BY DEF Ancestors
    <2> QED
        BY <2>1, <1>5, AncestorsClosed, AncestorsLeast
<1> QED
    BY <1>2, <1>3, <1>4, <1>6 DEF n

---------------------------------------------------------------------------
(***************************************************************************)
(* Lemmas about the block tree.                                            *)
(***************************************************************************)

\* The type of the table of block metadata.
MetaTable(m) == DOMAIN m \subseteq Hashes /\ m \in [DOMAIN m -> BlockMeta]

\* In a block tree every parent pointer is a stored block or NoHash.
LEMMA TreeParents ==
    ASSUME NEW m, IsBlockTree(m)
    PROVE  ParentsStored(m)
BY DEF IsBlockTree, ParentsStored

\* Canonical flags have no part in the tree.
LEMMA TreeIgnoresFlags ==
    ASSUME NEW m1, NEW m2, DOMAIN m1 = DOMAIN m2, IsBlockTree(m1),
           \A h \in DOMAIN m1 : /\ m2[h].parent = m1[h].parent
                                /\ m2[h].number = m1[h].number
                                /\ m2[h].work = m1[h].work
                                /\ m2[h].cumulative = m1[h].cumulative
    PROVE  IsBlockTree(m2)
<1>1. \A h : Ancestors(m1, h) = Ancestors(m2, h)
    BY AncestorsSameParents
<1>2. \A h : Ancestors(m1, h) \subseteq DOMAIN m1
    BY DEF Ancestors
<1>3. \A h : Numbers(m2, Ancestors(m2, h)) = Numbers(m1, Ancestors(m1, h))
    BY <1>1, <1>2 DEF Numbers
<1> QED
    BY <1>1, <1>2, <1>3 DEF IsBlockTree

\* n is the tree m with the new leaf x on parent p, stored with metadata v.
GrownBy(n, m, x, p, v) ==
    /\ MetaTable(n) /\ IsBlockTree(n)
    /\ DOMAIN n = DOMAIN m \cup {x} /\ n[x] = v
    /\ \A h \in DOMAIN m : n[h] = m[h]
    /\ \A h \in DOMAIN m : Ancestors(n, h) = Ancestors(m, h)
    /\ Ancestors(n, x) = {x} \cup Ancestors(m, p)

\* A block stored on a stored parent keeps the tree a tree.
LEMMA TreeGrows ==
    ASSUME NEW m, MetaTable(m), IsBlockTree(m),
           NEW x \in Hashes, x \notin DOMAIN m,
           NEW p \in DOMAIN m, NEW w \in Works, NEW c \in BOOLEAN
    PROVE  GrownBy(Put(m, x, ChildMeta(p, m[p], w, c)), m, x, p,
                   ChildMeta(p, m[p], w, c))
<1> DEFINE v == ChildMeta(p, m[p], w, c)
           n == Put(m, x, v)
<1>1. /\ v \in BlockMeta
      /\ v.parent = p
      /\ v.number = m[p].number + 1
      /\ v.work = w
      /\ v.cumulative = m[p].cumulative + w
      /\ m[p].number \in Nat
    BY WorksAssumption DEF ChildMeta, MetaTable, BlockMeta
<1>2. x # NoHash
    BY HashesAssumption
<1>3. DOMAIN n = DOMAIN m \cup {x} /\ n[x] = v /\ \A h \in DOMAIN m : n[h] = m[h]
    BY DEF Put
<1>4. \A h \in DOMAIN m : Ancestors(n, h) = Ancestors(m, h)
    BY <1>2, TreeParents, AncestorsOfOthers
<1>5. Ancestors(n, x) = {x} \cup Ancestors(m, p)
    BY <1>1, <1>2, TreeParents, AncestorsOfNew
<1>6. MetaTable(n)
    <2>1. DOMAIN n \subseteq Hashes
        BY <1>3 DEF MetaTable
    <2>2. \A h \in DOMAIN n : n[h] \in BlockMeta
        BY <1>1, <1>3 DEF MetaTable
    <2>3. n = [h \in DOMAIN n |-> n[h]]
        BY DEF Put
    <2> QED
        BY <2>1, <2>2, <2>3 DEF MetaTable
<1> HIDE DEF n, v
<1>7. \A h \in DOMAIN m : Ancestors(m, h) \subseteq DOMAIN m
    BY DEF Ancestors
<1>8. \A h \in DOMAIN m : Numbers(n, Ancestors(n, h)) = Numbers(m, Ancestors(m, h))
    BY <1>3, <1>4, <1>7 DEF Numbers
<1>9. Numbers(n, Ancestors(n, x)) = 0 .. n[x].number
    <2>1. Numbers(n, Ancestors(n, x)) = {n[x].number} \cup Numbers(m, Ancestors(m, p))
        BY <1>3, <1>5, <1>7 DEF Numbers
    <2>2. Numbers(m, Ancestors(m, p)) = 0 .. m[p].number
        BY DEF IsBlockTree
    <2>3. (0 .. m[p].number) \cup {m[p].number + 1} = 0 .. m[p].number + 1
        BY <1>1
    <2> QED
        BY <2>1, <2>2, <2>3, <1>1, <1>3
<1>10. \A a \in Ancestors(m, p) : n[a].number <= m[p].number
    <2> SUFFICES ASSUME NEW a \in Ancestors(m, p)
                 PROVE  n[a].number <= m[p].number
        OBVIOUS
    <2>1. n[a].number \in Numbers(m, Ancestors(m, p))
        BY <1>3, <1>7 DEF Numbers
    <2>2. n[a].number \in 0 .. m[p].number
        BY <2>1 DEF IsBlockTree
    <2> QED
        BY <2>2, <1>1
<1>11. IsBlockTree(n)
    <2>1. ASSUME NEW h \in DOMAIN n
          PROVE  \/ /\ h = Genesis
                    /\ n[h].parent = NoHash /\ n[h].number = 0 /\ n[h].cumulative = 0
                 \/ /\ n[h].parent \in DOMAIN n
                    /\ n[h].number = n[n[h].parent].number + 1
                    /\ n[h].cumulative = n[n[h].parent].cumulative + n[h].work
        BY <1>1, <1>3 DEF IsBlockTree
    <2>2. ASSUME NEW h \in DOMAIN n
          PROVE  Genesis \in Ancestors(n, h) /\ Numbers(n, Ancestors(n, h)) = 0 .. n[h].number
        BY <1>3, <1>4, <1>5, <1>8, <1>9 DEF IsBlockTree
    <2>3. ASSUME NEW h \in DOMAIN n,
                 NEW a \in Ancestors(n, h), NEW b \in Ancestors(n, h),
                 n[a].number = n[b].number
          PROVE  a = b
        <3>1. CASE h \in DOMAIN m
            BY <2>3, <3>1, <1>3, <1>4, <1>7 DEF IsBlockTree
        <3>2. CASE h = x
            <4>1. \A d \in Ancestors(m, p) : n[d].number # n[x].number
                BY <1>1, <1>3, <1>10, <1>7 DEF MetaTable, BlockMeta
            <4>2. \A d, e \in Ancestors(m, p) : n[d].number = n[e].number => d = e
                BY <1>3, <1>7 DEF IsBlockTree
            <4> QED
                BY <2>3, <3>2, <4>1, <4>2, <1>5
        <3> QED
            BY <3>1, <3>2, <1>3
    <2> QED
        BY <2>1, <2>2, <2>3 DEF IsBlockTree
<1> QED
    BY <1>3, <1>4, <1>5, <1>6, <1>11 DEF n, v, GrownBy

---------------------------------------------------------------------------
(***************************************************************************)
(* The two kinds of commit preserve the invariant.                         *)
(***************************************************************************)

\* isPreferredTip is transitive: a tip that beats the old tip beats all.
LEMMA PreferredTransitive ==
    ASSUME NEW a \in Hashes, NEW b \in Hashes, NEW c \in Hashes,
           NEW ma \in BlockMeta, NEW mb \in BlockMeta, NEW mc \in BlockMeta,
           isPreferredTip(a, ma, b, mb), isPreferredTip(b, mb, c, mc)
    PROVE  isPreferredTip(a, ma, c, mc)
<1>1. a \in Int /\ b \in Int /\ c \in Int
    BY HashesAssumption
<1> QED
    BY <1>1 DEF isPreferredTip, BlockMeta

\* Of two different blocks one is preferred.
LEMMA PreferredTotal ==
    ASSUME NEW a \in Hashes, NEW b \in Hashes, a # b,
           NEW ma \in BlockMeta, NEW mb \in BlockMeta,
           ~isPreferredTip(a, ma, b, mb)
    PROVE  isPreferredTip(b, mb, a, ma)
<1>1. a \in Int /\ b \in Int
    BY HashesAssumption
<1> QED
    BY <1>1 DEF isPreferredTip, BlockMeta

\* isPreferredTip does not look at the canonical flag.
LEMMA PreferredIgnoresFlags ==
    ASSUME NEW a, NEW b, NEW ma, NEW mb, NEW na, NEW nb,
           na.cumulative = ma.cumulative, na.number = ma.number,
           nb.cumulative = mb.cumulative, nb.number = mb.number
    PROVE  isPreferredTip(a, na, b, nb) <=> isPreferredTip(a, ma, b, mb)
BY DEF isPreferredTip

\* n is m with the canonical flags of the two reorganisation paths set.
Reflagged(n, m, o, x) ==
    /\ DOMAIN n = DOMAIN m
    /\ MetaTable(n)
    /\ \A h \in DOMAIN m : /\ n[h].parent = m[h].parent
                           /\ n[h].number = m[h].number
                           /\ n[h].work = m[h].work
                           /\ n[h].cumulative = m[h].cumulative
    /\ \A h \in DOMAIN m :
            n[h].canonical = IF h \in NewPath(m, o, x) THEN TRUE
                             ELSE IF h \in OldPath(m, o, x) THEN FALSE
                             ELSE m[h].canonical
    /\ \A h \in DOMAIN m : n[h] = [m[h] EXCEPT !.canonical = n[h].canonical]

\* rewriteCanonicalTip changes nothing but canonical flags.
LEMMA RewrittenMetaFields ==
    ASSUME NEW m, MetaTable(m), NEW o, NEW x
    PROVE  Reflagged(RewrittenMeta(m, o, x), m, o, x)
<1> DEFINE n == RewrittenMeta(m, o, x)
<1>1. DOMAIN n = DOMAIN m
    BY DEF RewrittenMeta
<1>2. ASSUME NEW h \in DOMAIN m
      PROVE  /\ n[h] \in BlockMeta
             /\ n[h].parent = m[h].parent
             /\ n[h].number = m[h].number
             /\ n[h].work = m[h].work
             /\ n[h].cumulative = m[h].cumulative
             /\ n[h].canonical = IF h \in NewPath(m, o, x) THEN TRUE
                                 ELSE IF h \in OldPath(m, o, x) THEN FALSE
                                 ELSE m[h].canonical
             /\ n[h] = [m[h] EXCEPT !.canonical = n[h].canonical]
    <2>1. m[h] \in BlockMeta
        BY DEF MetaTable
    <2>2. n[h] = [m[h] EXCEPT !.canonical =
                    IF h \in NewPath(m, o, x) THEN TRUE
                    ELSE IF h \in OldPath(m, o, x) THEN FALSE
                    ELSE m[h].canonical]
        BY DEF RewrittenMeta
    <2> HIDE DEF n
    <2> QED
        BY <2>1, <2>2 DEF BlockMeta
<1>3. n = [h \in DOMAIN n |-> n[h]]
    BY DEF RewrittenMeta
<1>4. MetaTable(n)
    <2> HIDE DEF n
    <2> QED
        BY <1>1, <1>2, <1>3 DEF MetaTable
<1> HIDE DEF n
<1> QED
    BY <1>1, <1>2, <1>4 DEF n, Reflagged

\* A commit that moves the tip of a running process to a preferred child.
LEMMA CommitTipPreserves ==
    ASSUME IInv, ~Down,
           NEW x \in Hashes, x \notin DOMAIN meta,
           NEW p \in DOMAIN meta, NEW w \in Works,
           NEW s \in SUBSET (Hashes \cup Seeds),
           s \cap Hashes = {x} \cup Ancestors(meta, p),
           isPreferredTip(x, ChildMeta(p, meta[p], w, TRUE), latest, latestMeta),
           CommitTip(x, ChildMeta(p, meta[p], w, TRUE), s)
    PROVE  IInv'
<1> DEFINE v == ChildMeta(p, meta[p], w, TRUE)
           n == Put(meta, x, v)
           o == latest
<1>1. MetaTable(meta) /\ IsBlockTree(meta)
    BY DEF IInv, TypeOK, EveryBranchReachesGenesis, MetaTable
<1>2. GrownBy(n, meta, x, p, v)
    BY <1>1, TreeGrows
<1>3. /\ o \in DOMAIN meta /\ o \in Hashes /\ o # NoHash /\ o = latestHash
      /\ latestMeta = meta[o] /\ x # NoHash /\ o # x
    BY <1>1, HashesAssumption
    DEF IInv, TypeOK, MemoryMatchesDisk, Down, MetaTable
<1>4. /\ meta' = RewrittenMeta(n, o, x)
      /\ byNumber' = RewrittenIndex(n, byNumber, o, x)
      /\ history' = Put(history, x, s)
      /\ latestHash' = x /\ latest' = x /\ latestMeta' = v /\ state' = s
    BY DEF CommitTip
<1>v. v \in BlockMeta /\ v.canonical = TRUE /\ v.parent = p /\ v.number = meta[p].number + 1
    BY <1>1, WorksAssumption DEF ChildMeta, MetaTable, BlockMeta
<1> HIDE DEF n, o, v
<1>5. Reflagged(meta', n, o, x)
    BY <1>2, <1>4, RewrittenMetaFields DEF GrownBy
<1> USE DEF GrownBy, Reflagged
<1>6. \A h : Ancestors(meta', h) = Ancestors(n, h)
    BY <1>5, AncestorsSameParents
<1>7. IsBlockTree(meta')
    BY <1>2, <1>5, TreeIgnoresFlags
<1>8. \A h : Ancestors(n, h) \subseteq DOMAIN n
    BY DEF Ancestors
<1>9. /\ NewPath(n, o, x) = Ancestors(n, x) \ Ancestors(n, o)
      /\ OldPath(n, o, x) = Ancestors(n, o) \ Ancestors(n, x)
    BY <1>3 DEF NewPath, OldPath
<1>10. x \notin Ancestors(n, o)
    <2>1. Ancestors(n, o) \subseteq DOMAIN meta
        BY <1>2, <1>3 DEF Ancestors
    <2> QED
        BY <2>1
<1>11. EveryBranchReachesGenesis'
    BY <1>2, <1>3, <1>4, <1>5, <1>7 DEF EveryBranchReachesGenesis
<1>12. CanonicalIsAncestryOfTip'
    <2>1. \A h \in DOMAIN meta : n[h].canonical <=> h \in Ancestors(n, o)
        BY <1>2, <1>3, <1>8 DEF IInv, CanonicalIsAncestryOfTip
    <2>2. \A h \in DOMAIN n : meta'[h].canonical <=> h \in Ancestors(n, x)
        <3> SUFFICES ASSUME NEW h \in DOMAIN n
                     PROVE  meta'[h].canonical <=> h \in Ancestors(n, x)
            OBVIOUS
        <3>1. CASE h = x
            <4>1. x \in Ancestors(n, x) /\ x \in NewPath(n, o, x)
                BY <1>2, <1>9, <1>10
            <4> QED
                BY <4>1, <3>1, <1>5
        <3>2. CASE h \in DOMAIN meta
            BY <3>2, <2>1, <1>5, <1>9
        <3> QED
            BY <3>1, <3>2, <1>2
    <2> QED
        BY <2>2, <1>3, <1>4, <1>5, <1>6, <1>8 DEF CanonicalIsAncestryOfTip
<1>13. NumberIndexIsCanonicalChain' /\ DOMAIN byNumber' \subseteq Nat
       /\ byNumber' \in [DOMAIN byNumber' -> Hashes]
    <2> DEFINE old == OldPath(n, o, x)
               new == NewPath(n, o, x)
               deleted == Numbers(n, old)
               written == Numbers(n, new)
    <2>1. /\ DOMAIN byNumber = 0 .. n[o].number
          /\ \A k \in DOMAIN byNumber : /\ byNumber[k] \in Ancestors(n, o)
                                        /\ n[byNumber[k]].number = k
        BY <1>2, <1>3, <1>8 DEF IInv, NumberIndexIsCanonicalChain, Ancestors
    <2>2. /\ DOMAIN byNumber' = (DOMAIN byNumber \ deleted) \cup written
          /\ byNumber' = [k \in DOMAIN byNumber' |-> byNumber'[k]]
          /\ \A k \in DOMAIN byNumber' :
                byNumber'[k] = IF k \in written
                               THEN CHOOSE h \in new : n[h].number = k
                               ELSE byNumber[k]
        BY <1>4 DEF RewrittenIndex
    <2> HIDE DEF old, new, deleted, written
    <2>3. /\ Numbers(n, Ancestors(n, x)) = 0 .. n[x].number
          /\ Numbers(n, Ancestors(n, o)) = 0 .. n[o].number
          /\ \A a, b \in Ancestors(n, o) : n[a].number = n[b].number => a = b
        BY <1>2, <1>3 DEF IsBlockTree
    <2>4. \A k \in DOMAIN byNumber' :
            /\ byNumber'[k] \in Ancestors(n, x)
            /\ n[byNumber'[k]].number = k
        <3> SUFFICES ASSUME NEW k \in DOMAIN byNumber'
                     PROVE  /\ byNumber'[k] \in Ancestors(n, x)
                            /\ n[byNumber'[k]].number = k
            OBVIOUS
        <3>1. CASE k \in written
            <4>1. \E h \in new : n[h].number = k
                BY <3>1 DEF written, Numbers
            <4>2. byNumber'[k] \in new /\ n[byNumber'[k]].number = k
                BY <4>1, <3>1, <2>2
            <4> QED
                BY <4>2, <1>9 DEF new
        <3>2. CASE k \notin written
            <4>1. k \in DOMAIN byNumber /\ k \notin deleted /\ byNumber'[k] = byNumber[k]
                BY <3>2, <2>2
            <4>2. byNumber[k] \in Ancestors(n, o) /\ n[byNumber[k]].number = k
                BY <4>1, <2>1
            <4>3. byNumber[k] \notin old
                BY <4>1, <4>2 DEF deleted, Numbers
            <4> QED
                BY <4>1, <4>2, <4>3, <1>9 DEF old
        <3> QED
            BY <3>1, <3>2
    <2>5. DOMAIN byNumber' \subseteq 0 .. n[x].number
        BY <2>3, <2>4 DEF Numbers
    <2>6. 0 .. n[x].number \subseteq DOMAIN byNumber'
        <3> SUFFICES ASSUME NEW k \in 0 .. n[x].number
                     PROVE  k \in DOMAIN byNumber'
            OBVIOUS
        <3>1. PICK a \in Ancestors(n, x) : n[a].number = k
            BY <2>3 DEF Numbers
        <3>2. CASE a \notin Ancestors(n, o)
            BY <3>1, <3>2, <2>2, <1>9 DEF written, new, Numbers
        <3>3. CASE a \in Ancestors(n, o)
            <4>1. k \in DOMAIN byNumber
                BY <3>1, <3>3, <2>1, <2>3 DEF Numbers
            <4>2. k \notin deleted
                <5> SUFFICES ASSUME NEW b \in old, n[b].number = k
                             PROVE  FALSE
                    BY DEF deleted, Numbers
                <5>1. b \in Ancestors(n, o) /\ b \notin Ancestors(n, x)
                    BY <1>9 DEF old
                <5> QED
                    BY <5>1, <3>1, <3>3, <2>3
            <4> QED
                BY <4>1, <4>2, <2>2
        <3> QED
            BY <3>2, <3>3
    <2>7. n[x].number \in Nat /\ meta'[x].number = n[x].number
        BY <1>2, <1>5, <1>v DEF BlockMeta
    <2>8. \A k \in DOMAIN byNumber' :
            byNumber'[k] \in Hashes /\ meta'[byNumber'[k]].number = k
        BY <2>4, <1>2, <1>5, <1>8 DEF MetaTable
    <2>9. DOMAIN byNumber' = 0 .. meta'[x].number
        BY <2>5, <2>6, <2>7
    <2>10. NumberIndexIsCanonicalChain'
        BY <2>4, <2>8, <2>9, <1>3, <1>4, <1>6 DEF NumberIndexIsCanonicalChain
    <2>11. DOMAIN byNumber' \subseteq Nat
        BY <2>5, <2>7
    <2> QED
        BY <2>2, <2>8, <2>10, <2>11
<1>14. TipIsPreferred'
    <2> SUFFICES ASSUME NEW h \in DOMAIN meta', h # x
                 PROVE  isPreferredTip(x, meta'[x], h, meta'[h])
        BY <1>4 DEF TipIsPreferred
    <2>1. h \in DOMAIN meta /\ h \in Hashes /\ meta[h] \in BlockMeta /\ meta[o] \in BlockMeta
        BY <1>1, <1>2, <1>3, <1>5 DEF MetaTable
    <2>2. isPreferredTip(x, v, o, meta[o])
        BY <1>3 DEF v, o
    <2>3. isPreferredTip(x, v, h, meta[h])
        <3>1. CASE h = o
            BY <2>2, <3>1
        <3>2. CASE h # o
            <4>1. isPreferredTip(o, meta[o], h, meta[h])
                BY <3>2, <2>1, <1>3 DEF IInv, TipIsPreferred
            <4> QED
                BY <2>1, <2>2, <4>1, <1>3, <1>v, PreferredTransitive
        <3> QED
            BY <3>1, <3>2
    <2>4. /\ meta'[x].cumulative = v.cumulative /\ meta'[x].number = v.number
          /\ meta'[h].cumulative = meta[h].cumulative /\ meta'[h].number = meta[h].number
        BY <2>1, <1>2, <1>5
    <2> QED
        BY <2>3, <2>4, PreferredIgnoresFlags
<1>15. history' \in [DOMAIN meta' -> SUBSET (Hashes \cup Seeds)]
       /\ history'[x] = s /\ \A h \in DOMAIN meta : history'[h] = history[h]
    BY <1>2, <1>4, <1>5 DEF IInv, TypeOK, Put
<1>16. SnapshotIsOwnBranch'
    <2> SUFFICES ASSUME NEW h \in DOMAIN meta'
                 PROVE  history'[h] \cap Hashes = Ancestors(n, h)
        BY <1>6 DEF SnapshotIsOwnBranch
    <2>1. CASE h = x
        BY <2>1, <1>2, <1>15
    <2>2. CASE h \in DOMAIN meta
        BY <2>2, <1>2, <1>15 DEF IInv, SnapshotIsOwnBranch
    <2> QED
        BY <2>1, <2>2, <1>2, <1>5
<1>17. MemoryMatchesDisk'
    <2>1. meta'[x] = v
        <3>1. meta'[x].canonical = TRUE
            <4>1. x \in Ancestors(n, x)
                BY <1>2
            <4> QED
                BY <4>1, <1>2, <1>5, <1>9, <1>10
        <3>2. meta'[x] = [v EXCEPT !.canonical = TRUE]
            BY <3>1, <1>2, <1>5
        <3> QED
            BY <3>2, <1>v DEF BlockMeta
    <2> QED
        BY <2>1, <1>4, <1>15 DEF MemoryMatchesDisk
<1>18. TypeOK'
    BY <1>2, <1>4, <1>5, <1>13, <1>15, <1>v DEF TypeOK, MetaTable
<1> QED
    BY <1>11, <1>12, <1>13, <1>14, <1>16, <1>17, <1>18 DEF IInv

\* A commit that stores a block beside the chain.
LEMMA CommitSidePreserves ==
    ASSUME IInv, ~Down,
           NEW x \in Hashes, x \notin DOMAIN meta,
           NEW p \in DOMAIN meta, NEW w \in Works,
           NEW s \in SUBSET (Hashes \cup Seeds),
           s \cap Hashes = {x} \cup Ancestors(meta, p),
           ~isPreferredTip(x, ChildMeta(p, meta[p], w, FALSE), latest, latestMeta),
           CommitSide(x, ChildMeta(p, meta[p], w, FALSE), s)
    PROVE  IInv'
<1> DEFINE v == ChildMeta(p, meta[p], w, FALSE)
           o == latest
<1>1. MetaTable(meta) /\ IsBlockTree(meta)
    BY DEF IInv, TypeOK, EveryBranchReachesGenesis, MetaTable
<1>2. GrownBy(meta', meta, x, p, v)
    BY <1>1, TreeGrows DEF CommitSide
<1>3. /\ o \in DOMAIN meta /\ o \in Hashes /\ o # NoHash /\ o = latestHash
      /\ latestMeta = meta[o] /\ x # NoHash /\ o # x
    BY <1>1, HashesAssumption
    DEF IInv, TypeOK, MemoryMatchesDisk, Down, MetaTable
<1>4. /\ history' = Put(history, x, s)
      /\ UNCHANGED <<byNumber, latestHash, latest, latestMeta, state>>
    BY DEF CommitSide, memory
<1>5. v \in BlockMeta /\ v.canonical = FALSE
    BY <1>1, WorksAssumption DEF ChildMeta, MetaTable, BlockMeta
<1>6. /\ history' \in [DOMAIN meta' -> SUBSET (Hashes \cup Seeds)]
      /\ history'[x] = s /\ \A h \in DOMAIN meta : history'[h] = history[h]
    BY <1>2, <1>4 DEF IInv, TypeOK, Put, GrownBy
<1> HIDE DEF o, v
<1> USE DEF GrownBy
<1>7. \A h \in DOMAIN meta : Ancestors(meta, h) \subseteq DOMAIN meta
    BY DEF Ancestors
<1>8. TypeOK'
    BY <1>2, <1>4, <1>6 DEF IInv, TypeOK, MetaTable
<1>9. EveryBranchReachesGenesis'
    BY <1>2, <1>3, <1>4 DEF EveryBranchReachesGenesis
<1>10. CanonicalIsAncestryOfTip'
    <2>1. \A h \in DOMAIN meta' :
            meta'[h].canonical <=> h \in DOMAIN meta /\ meta[h].canonical
        BY <1>2, <1>5
    <2>2. Ancestors(meta', o) = Ancestors(meta, o)
        BY <1>2, <1>3
    <2> QED
        BY <2>1, <2>2, <1>2, <1>3, <1>4, <1>7 DEF IInv, CanonicalIsAncestryOfTip
<1>11. NumberIndexIsCanonicalChain'
    BY <1>2, <1>3, <1>4, <1>7 DEF IInv, NumberIndexIsCanonicalChain
<1>12. TipIsPreferred'
    <2>1. isPreferredTip(o, meta[o], x, v)
        <3>1. meta[o] \in BlockMeta
            BY <1>1, <1>3 DEF MetaTable
        <3> QED
            BY <3>1, <1>3, <1>5, PreferredTotal DEF v, o
    <2> QED
        BY <2>1, <1>2, <1>3, <1>4 DEF IInv, TipIsPreferred
<1>13. MemoryMatchesDisk'
    BY <1>2, <1>3, <1>4, <1>6 DEF IInv, MemoryMatchesDisk, Down
<1>14. SnapshotIsOwnBranch'
    BY <1>2, <1>6 DEF IInv, SnapshotIsOwnBranch
<1> QED
    BY <1>8, <1>9, <1>10, <1>11, <1>12, <1>13, <1>14 DEF IInv

\* The commit of the genesis block into an empty database.
LEMMA OpenEmptyPreserves ==
    ASSUME IInv, OpenEmpty
    PROVE  IInv'
<1> DEFINE g == Genesis
           n == Put(meta, g, GenesisMeta)
<1>1. DOMAIN meta = {} /\ latest = NoHash /\ g # NoHash /\ g \in Hashes
    BY HashesAssumption, GenesisAssumption
    DEF IInv, EveryBranchReachesGenesis, OpenEmpty, Down
<1>2. /\ GenesisMeta \in BlockMeta /\ GenesisMeta.parent = NoHash
      /\ GenesisMeta.number = 0 /\ GenesisMeta.cumulative = 0
      /\ GenesisMeta.canonical = TRUE
    BY DEF GenesisMeta, NoMeta, BlockMeta
<1>3. /\ DOMAIN n = {g} /\ n[g] = GenesisMeta /\ MetaTable(n)
    BY <1>1, <1>2 DEF Put, MetaTable
<1>4. /\ meta' = RewrittenMeta(n, NoHash, g)
      /\ byNumber' = RewrittenIndex(n, byNumber, NoHash, g)
      /\ history' = Put(history, g, {g})
      /\ latestHash' = g /\ latest' = g /\ latestMeta' = GenesisMeta /\ state' = {g}
    BY <1>1 DEF OpenEmpty, CommitTip
<1> HIDE DEF g, n
<1>5. Reflagged(meta', n, NoHash, g)
    BY <1>3, <1>4, RewrittenMetaFields
<1>6. DOMAIN meta' = {g} /\ MetaTable(meta') /\ meta'[g] = GenesisMeta
    <2>1. NewPath(n, NoHash, g) = {g}
        BY DEF NewPath
    <2>2. meta'[g].canonical = TRUE
        BY <2>1, <1>3, <1>5 DEF Reflagged
    <2>3. meta'[g] = [GenesisMeta EXCEPT !.canonical = TRUE]
        BY <2>2, <1>3, <1>5 DEF Reflagged
    <2> QED
        BY <2>3, <1>2, <1>3, <1>5 DEF Reflagged, BlockMeta
<1>7. Ancestors(meta', g) = {g}
    <2>1. Ancestors(meta', g) \subseteq {g}
        BY <1>6 DEF Ancestors
    <2> QED
        BY <2>1, <1>6, AncestorsSelf
<1>8. DOMAIN byNumber' = {0} /\ byNumber' = [k \in {0} |-> g]
    <2>1. OldPath(n, NoHash, g) = {} /\ NewPath(n, NoHash, g) = {g}
        BY DEF OldPath, NewPath
    <2>2. Numbers(n, {}) = {} /\ Numbers(n, {g}) = {0}
        BY <1>2, <1>3 DEF Numbers
    <2>3. byNumber' = [k \in DOMAIN byNumber \cup {0} |->
                        IF k \in {0} THEN CHOOSE h \in {g} : n[h].number = k
                        ELSE byNumber[k]]
        BY <2>1, <2>2, <1>4 DEF RewrittenIndex
    <2>4. DOMAIN byNumber = {}
        BY DEF IInv, OpenEmpty, NumberIndexIsCanonicalChain
    <2>5. (CHOOSE h \in {g} : n[h].number = 0) = g
        BY <1>2, <1>3
    <2> QED
        BY <2>3, <2>4, <2>5
<1>9. history' = [h \in {g} |-> {g}]
    BY <1>1, <1>4 DEF IInv, TypeOK, Put
<1>10. TypeOK'
    <2>1. byNumber' \in [DOMAIN byNumber' -> Hashes] /\ DOMAIN byNumber' \subseteq Nat
        BY <1>1, <1>8
    <2>2. history' \in [DOMAIN meta' -> SUBSET (Hashes \cup Seeds)]
        BY <1>1, <1>6, <1>9
    <2> QED
        BY <2>1, <2>2, <1>1, <1>2, <1>4, <1>6 DEF TypeOK, MetaTable
<1>11. IsBlockTree(meta')
    <2>1. Numbers(meta', Ancestors(meta', g)) = 0 .. meta'[g].number
        BY <1>2, <1>6, <1>7 DEF Numbers
    <2> QED
        BY <2>1, <1>2, <1>6, <1>7 DEF IsBlockTree, g
<1>12. EveryBranchReachesGenesis' /\ CanonicalIsAncestryOfTip'
    BY <1>1, <1>2, <1>4, <1>6, <1>7, <1>11
    DEF EveryBranchReachesGenesis, CanonicalIsAncestryOfTip
<1>13. NumberIndexIsCanonicalChain'
    BY <1>1, <1>2, <1>4, <1>6, <1>7, <1>8
    DEF NumberIndexIsCanonicalChain
<1>14. TipIsPreferred' /\ MemoryMatchesDisk'
    BY <1>4, <1>6, <1>9 DEF TipIsPreferred, MemoryMatchesDisk
<1>15. SnapshotIsOwnBranch'
    BY <1>1, <1>6, <1>7, <1>9 DEF SnapshotIsOwnBranch
<1> QED
    BY <1>10, <1>12, <1>13, <1>14, <1>15 DEF IInv

\* Restarting, stopping and seeding leave the tree alone.
LEMMA OtherStepsPreserve ==
    ASSUME IInv,
           OpenExisting \/ Stop \/ (\E a \in Seeds, c \in BOOLEAN : SeedBalance(a, c))
    PROVE  IInv'
<1>1. UNCHANGED <<meta, byNumber, latestHash>>
    BY DEF OpenExisting, Stop, SeedBalance, disk
<1>2. NoMeta \in BlockMeta
    BY DEF NoMeta, BlockMeta
<1>3. EveryBranchReachesGenesis' /\ CanonicalIsAncestryOfTip' /\ TipIsPreferred'
      /\ NumberIndexIsCanonicalChain'
    BY <1>1 DEF IInv, EveryBranchReachesGenesis, CanonicalIsAncestryOfTip,
                TipIsPreferred, NumberIndexIsCanonicalChain
<1>4. CASE OpenExisting
    <2>1. TypeOK'
        BY <1>1, <1>4 DEF IInv, TypeOK, OpenExisting, disk
    <2>2. MemoryMatchesDisk' /\ SnapshotIsOwnBranch'
        BY <1>1, <1>4 DEF IInv, MemoryMatchesDisk, SnapshotIsOwnBranch, OpenExisting, disk
    <2> QED
        BY <2>1, <2>2, <1>3 DEF IInv
<1>5. CASE Stop
    <2>1. TypeOK'
        BY <1>1, <1>2, <1>5 DEF IInv, TypeOK, Stop, disk
    <2>2. MemoryMatchesDisk' /\ SnapshotIsOwnBranch'
        BY <1>1, <1>5 DEF IInv, MemoryMatchesDisk, SnapshotIsOwnBranch, Stop, disk, Down
    <2> QED
        BY <2>1, <2>2, <1>3 DEF IInv
<1>6. ASSUME NEW a \in Seeds, NEW c \in BOOLEAN, SeedBalance(a, c)
      PROVE  IInv'
    <2>1. /\ latest \in DOMAIN meta /\ latest = latestHash /\ latest # NoHash
          /\ UNCHANGED <<latest, latestMeta>> /\ state' = state \cup {a}
          /\ state' \subseteq Hashes \cup Seeds
        BY <1>6 DEF IInv, TypeOK, SeedBalance, Down
    <2>2. state' \cap Hashes = state \cap Hashes
        BY <2>1, SeedsAssumption
    <2>3. history' \in [DOMAIN meta -> SUBSET (Hashes \cup Seeds)]
          /\ \A h \in DOMAIN meta : history'[h] \cap Hashes = history[h] \cap Hashes
        <3>1. CASE c
            <4>1. history' = Put(history, latest, state')
                BY <1>6, <3>1 DEF SeedBalance
            <4>2. state' \cap Hashes = history[latest] \cap Hashes
                BY <2>1, <2>2 DEF IInv, MemoryMatchesDisk, Down
            <4> QED
                BY <4>1, <4>2, <2>1 DEF Put, IInv, TypeOK
        <3>2. CASE ~c
            BY <1>6, <3>2 DEF SeedBalance, IInv, TypeOK
        <3> QED
            BY <3>1, <3>2
    <2>4. TypeOK'
        BY <1>1, <2>1, <2>3 DEF IInv, TypeOK
    <2>5. MemoryMatchesDisk'
        BY <1>1, <2>1, <2>2, <2>3 DEF IInv, MemoryMatchesDisk, Down
    <2>6. SnapshotIsOwnBranch'
        BY <1>1, <2>3 DEF IInv, SnapshotIsOwnBranch
    <2> QED
        BY <2>4, <2>5, <2>6, <1>3 DEF IInv
<1> QED
    BY <1>4, <1>5, <1>6

\* What MineBlock and ImportBlock hand to the commit.
LEMMA ExecutedState ==
    ASSUME IInv, ~Down, NEW p \in DOMAIN meta, NEW x \in Hashes
    PROVE  /\ LoadedMeta(p) = meta[p]
           /\ LoadedState(p) \cup {x} \in SUBSET (Hashes \cup Seeds)
           /\ (LoadedState(p) \cup {x}) \cap Hashes = {x} \cup Ancestors(meta, p)
<1>1. LoadedMeta(p) = meta[p]
    BY DEF IInv, MemoryMatchesDisk, LoadedMeta
<1>2. LoadedState(p) \subseteq Hashes \cup Seeds
    BY DEF IInv, TypeOK, LoadedState
<1>3. LoadedState(p) \cap Hashes = history[p] \cap Hashes
    BY DEF IInv, MemoryMatchesDisk, LoadedState
<1>4. history[p] \cap Hashes = Ancestors(meta, p)
    BY DEF IInv, SnapshotIsOwnBranch
<1> QED
    BY <1>1, <1>2, <1>3, <1>4

\* A mined block always beats the tip it extends.
LEMMA ChildIsPreferred ==
    ASSUME NEW h \in Hashes, NEW x, NEW m \in BlockMeta, NEW w \in Works, NEW c
    PROVE  isPreferredTip(x, ChildMeta(h, m, w, c), h, m)
BY WorksAssumption DEF isPreferredTip, ChildMeta, BlockMeta

\* MineBlock commits a preferred child of the tip, so it preserves IInv.
LEMMA MineBlockPreserves ==
    ASSUME IInv, NEW x \in Hashes, NEW w \in Works, MineBlock(x, w)
    PROVE  IInv'
<1>1. ~Down /\ x \notin DOMAIN meta
    BY DEF MineBlock
<1>2. latest \in DOMAIN meta /\ latest \in Hashes /\ latestMeta = meta[latest]
      /\ latestMeta \in BlockMeta /\ LoadedState(latest) = state
    BY <1>1 DEF IInv, TypeOK, MemoryMatchesDisk, Down, LoadedState
<1>3. PICK s : s = state \cup {x}
    OBVIOUS
<1>4. s \in SUBSET (Hashes \cup Seeds) /\ s \cap Hashes = {x} \cup Ancestors(meta, latest)
    BY <1>1, <1>2, <1>3, ExecutedState
<1>5. CommitTip(x, ChildMeta(latest, meta[latest], w, TRUE), s)
    BY <1>2, <1>3 DEF MineBlock
<1>6. isPreferredTip(x, ChildMeta(latest, meta[latest], w, TRUE), latest, latestMeta)
    BY <1>2, ChildIsPreferred
<1>7. PICK p : p = latest
    OBVIOUS
<1> QED
    BY <1>1, <1>2, <1>4, <1>5, <1>6, <1>7, CommitTipPreserves

\* ImportBlock, on the tip or beside it, preserves IInv.
LEMMA ImportBlockPreserves ==
    ASSUME IInv, NEW x \in Hashes, NEW p \in Hashes, NEW w \in Works,
           ImportBlock(x, p, w)
    PROVE  IInv'
<1>1. ~Down /\ x \notin DOMAIN meta /\ p \in DOMAIN meta
    BY DEF ImportBlock
<1>2. PICK s : s = LoadedState(p) \cup {x}
    OBVIOUS
<1>3. LoadedMeta(p) = meta[p] /\ s \in SUBSET (Hashes \cup Seeds)
      /\ s \cap Hashes = {x} \cup Ancestors(meta, p)
    BY <1>1, <1>2, ExecutedState
<1> DEFINE side == ChildMeta(p, meta[p], w, FALSE)
<1>5. \/ /\ isPreferredTip(x, side, latest, latestMeta)
         /\ CommitTip(x, ChildMeta(p, meta[p], w, TRUE), s)
      \/ /\ ~isPreferredTip(x, side, latest, latestMeta)
         /\ CommitSide(x, side, s)
    BY <1>2, <1>3 DEF ImportBlock
<1>6. isPreferredTip(x, side, latest, latestMeta)
        <=> isPreferredTip(x, ChildMeta(p, meta[p], w, TRUE), latest, latestMeta)
    BY DEF isPreferredTip, ChildMeta
<1> HIDE DEF side
<1>7. CASE CommitTip(x, ChildMeta(p, meta[p], w, TRUE), s)
           /\ isPreferredTip(x, side, latest, latestMeta)
    BY <1>1, <1>3, <1>6, <1>7, CommitTipPreserves
<1>8. CASE CommitSide(x, side, s) /\ ~isPreferredTip(x, side, latest, latestMeta)
    BY <1>1, <1>3, <1>8, CommitSidePreserves DEF side
<1> QED
    BY <1>5, <1>7, <1>8

---------------------------------------------------------------------------
(***************************************************************************)
(* IInv is an invariant of the block store: the persisted tip is the       *)
(* preferred block of the tree, the canonical flags and the number index   *)
(* describe exactly its ancestors, every snapshot belongs to its branch,   *)
(* and memory agrees with the database.                                    *)
(***************************************************************************)
THEOREM StoreInvariant == Spec => []IInv
<1>1. Init => IInv
    <2> SUFFICES ASSUME Init PROVE IInv
        OBVIOUS
    <2>1. DOMAIN meta = {} /\ DOMAIN byNumber = {} /\ DOMAIN history = {}
        BY DEF Init, EmptyFunction
    <2>2. NoMeta \in BlockMeta
        BY DEF NoMeta, BlockMeta
    <2>3. TypeOK
        BY <2>1, <2>2 DEF Init, TypeOK, EmptyFunction
    <2> QED
        BY <2>1, <2>3
        DEF Init, IInv, EveryBranchReachesGenesis, IsBlockTree,
            CanonicalIsAncestryOfTip, NumberIndexIsCanonicalChain,
            TipIsPreferred, MemoryMatchesDisk, SnapshotIsOwnBranch, Down
<1>2. IInv /\ [Next]_vars => IInv'
    <2> SUFFICES ASSUME IInv, [Next]_vars PROVE IInv'
        OBVIOUS
    <2>1. CASE OpenEmpty
        BY <2>1, OpenEmptyPreserves
    <2>2. CASE OpenExisting \/ Stop
                \/ (\E a \in Seeds, c \in BOOLEAN : SeedBalance(a, c))
        BY <2>2, OtherStepsPreserve
    <2>3. CASE \E h \in Hashes, w \in Works : MineBlock(h, w)
        BY <2>3, MineBlockPreserves
    <2>4. CASE \E h \in Hashes, p \in Hashes, w \in Works : ImportBlock(h, p, w)
        BY <2>4, ImportBlockPreserves
    <2>5. CASE UNCHANGED vars
        BY <2>5 DEF vars, IInv, TypeOK, EveryBranchReachesGenesis,
            CanonicalIsAncestryOfTip, NumberIndexIsCanonicalChain,
            TipIsPreferred, MemoryMatchesDisk, SnapshotIsOwnBranch, Down
    <2> QED
        BY <2>1, <2>2, <2>3, <2>4, <2>5 DEF Next
<1> QED
    BY <1>1, <1>2, PTL DEF Spec

\* Each checked invariant of the block store is a part of IInv.
COROLLARY StoreSafety ==
    Spec => []( /\ TypeOK
                /\ EveryBranchReachesGenesis
                /\ CanonicalIsAncestryOfTip
                /\ NumberIndexIsCanonicalChain
                /\ TipIsPreferred
                /\ MemoryMatchesDisk
                /\ SnapshotIsOwnBranch )
<1>1. IInv => /\ TypeOK
              /\ EveryBranchReachesGenesis
              /\ CanonicalIsAncestryOfTip
              /\ NumberIndexIsCanonicalChain
              /\ TipIsPreferred
              /\ MemoryMatchesDisk
              /\ SnapshotIsOwnBranch
    BY DEF IInv
<1> QED
    BY <1>1, StoreInvariant, PTL

\* After any sequence of mined and imported blocks, reorganisations, crashes
\* and restarts the canonical flags are exactly the ancestry of the tip.
COROLLARY StoreCanonicalChain == Spec => []CanonicalIsAncestryOfTip
BY StoreSafety, PTL

\* rewriteCanonicalTip leaves the height index equal to the canonical chain.
COROLLARY StoreNumberIndex == Spec => []NumberIndexIsCanonicalChain
BY StoreSafety, PTL

\* A stored state is that of its block's own branch, whichever tip was in
\* memory when the block was executed.
COROLLARY StoreSnapshots == Spec => []SnapshotIsOwnBranch
BY StoreSafety, PTL

---------------------------------------------------------------------------
(***************************************************************************)
(* What a step does to the tree: nothing, the genesis block, or one leaf.  *)
(***************************************************************************)

\* The header and the work of a stored block; all of m[h] but its flag.
SameHeader(m2, m1, h) ==
    /\ m2[h].parent = m1[h].parent
    /\ m2[h].number = m1[h].number
    /\ m2[h].cumulative = m1[h].cumulative
    /\ m2[h] = [m1[h] EXCEPT !.canonical = m2[h].canonical]

\* The step stores the leaf x with work w on the stored block p.
AcceptsLeaf(x, p, w) ==
    /\ x \notin DOMAIN meta /\ p \in DOMAIN meta
    /\ DOMAIN meta' = DOMAIN meta \cup {x}
    /\ \A h \in DOMAIN meta : SameHeader(meta', meta, h)
    /\ meta'[x].parent = p
    /\ meta'[x].number = meta[p].number + 1
    /\ meta'[x].cumulative = meta[p].cumulative + w
    /\ latestHash' \in {latestHash, x}

\* Writing a block's own flag back leaves its metadata as it was.
LEMMA RecordExceptSelf ==
    ASSUME NEW r \in BlockMeta
    PROVE  r = [r EXCEPT !.canonical = r.canonical]
BY DEF BlockMeta

\* A commit that moves the tip adds one leaf and alters only flags.
LEMMA CommitTipAccepts ==
    ASSUME IInv, ~Down, NEW x \in Hashes, x \notin DOMAIN meta,
           NEW p \in DOMAIN meta, NEW w \in Works, NEW s,
           CommitTip(x, ChildMeta(p, meta[p], w, TRUE), s)
    PROVE  AcceptsLeaf(x, p, w)
<1> DEFINE v == ChildMeta(p, meta[p], w, TRUE)
           n == Put(meta, x, v)
<1>1. MetaTable(meta) /\ IsBlockTree(meta)
    BY DEF IInv, TypeOK, EveryBranchReachesGenesis, MetaTable
<1>2. GrownBy(n, meta, x, p, v)
    BY <1>1, TreeGrows
<1>3. meta' = RewrittenMeta(n, latest, x) /\ latestHash' = x
    BY DEF CommitTip
<1>4. v.parent = p /\ v.number = meta[p].number + 1 /\ v.cumulative = meta[p].cumulative + w
    BY DEF ChildMeta
<1> HIDE DEF n, v
<1>5. Reflagged(meta', n, latest, x)
    BY <1>2, <1>3, RewrittenMetaFields DEF GrownBy
<1>6. \A h \in DOMAIN meta : SameHeader(meta', meta, h)
    BY <1>2, <1>5 DEF GrownBy, Reflagged, SameHeader
<1> QED
    BY <1>2, <1>3, <1>4, <1>5, <1>6 DEF GrownBy, Reflagged, AcceptsLeaf

\* A commit beside the chain adds one leaf and alters nothing else.
LEMMA CommitSideAccepts ==
    ASSUME IInv, NEW x \in Hashes, x \notin DOMAIN meta,
           NEW p \in DOMAIN meta, NEW w \in Works, NEW s,
           CommitSide(x, ChildMeta(p, meta[p], w, FALSE), s)
    PROVE  AcceptsLeaf(x, p, w)
<1> DEFINE v == ChildMeta(p, meta[p], w, FALSE)
<1>1. MetaTable(meta) /\ IsBlockTree(meta)
    BY DEF IInv, TypeOK, EveryBranchReachesGenesis, MetaTable
<1>2. GrownBy(meta', meta, x, p, v) /\ latestHash' = latestHash
    BY <1>1, TreeGrows DEF CommitSide
<1>3. v.parent = p /\ v.number = meta[p].number + 1 /\ v.cumulative = meta[p].cumulative + w
    BY DEF ChildMeta
<1> HIDE DEF v
<1>4. \A h \in DOMAIN meta : SameHeader(meta', meta, h)
    BY <1>1, <1>2, RecordExceptSelf DEF GrownBy, SameHeader, MetaTable
<1> QED
    BY <1>2, <1>3, <1>4 DEF GrownBy, AcceptsLeaf

\* A step of the store stores genesis, accepts one leaf or leaves the tree.
LEMMA StepEffect ==
    ASSUME IInv, [Next]_vars
    PROVE  \/ UNCHANGED <<meta, latestHash>>
           \/ OpenEmpty
           \/ \E x \in Hashes, p \in Hashes, w \in Works : AcceptsLeaf(x, p, w)
<1>1. CASE OpenExisting \/ Stop \/ (\E a \in Seeds, c \in BOOLEAN : SeedBalance(a, c))
    BY <1>1 DEF OpenExisting, Stop, SeedBalance, disk
<1>2. ASSUME NEW x \in Hashes, NEW w \in Works, MineBlock(x, w)
      PROVE  \E p \in Hashes : AcceptsLeaf(x, p, w)
    <2>1. ~Down /\ x \notin DOMAIN meta /\ latest \in DOMAIN meta
          /\ latest \in Hashes /\ latestMeta = meta[latest]
        BY <1>2 DEF MineBlock, IInv, TypeOK, MemoryMatchesDisk, Down
    <2>2. PICK p, s : p = latest /\ s = state \cup {x}
        OBVIOUS
    <2>3. CommitTip(x, ChildMeta(p, meta[p], w, TRUE), s)
        BY <1>2, <2>1, <2>2 DEF MineBlock
    <2> QED
        BY <2>1, <2>2, <2>3, CommitTipAccepts
<1>3. ASSUME NEW x \in Hashes, NEW p \in Hashes, NEW w \in Works, ImportBlock(x, p, w)
      PROVE  AcceptsLeaf(x, p, w)
    <2>1. ~Down /\ x \notin DOMAIN meta /\ p \in DOMAIN meta
        BY <1>3 DEF ImportBlock
    <2>2. PICK s : s = LoadedState(p) \cup {x}
        OBVIOUS
    <2>3. LoadedMeta(p) = meta[p]
        BY <2>1, ExecutedState
    <2>4. \/ CommitTip(x, ChildMeta(p, meta[p], w, TRUE), s)
          \/ CommitSide(x, ChildMeta(p, meta[p], w, FALSE), s)
        BY <1>3, <2>2, <2>3 DEF ImportBlock
    <2> QED
        BY <2>1, <2>4, CommitTipAccepts, CommitSideAccepts
<1>4. CASE UNCHANGED vars
    BY <1>4 DEF vars
<1> QED
    BY <1>1, <1>2, <1>3, <1>4 DEF Next

(***************************************************************************)
(* No step forgets a block, rewrites its header or work, or moves the      *)
(* persisted tip to a block not preferred to the tip it leaves.            *)
(***************************************************************************)
THEOREM StoreTipOnlyImproves == Spec => TipOnlyImproves
<1> DEFINE A == /\ DOMAIN meta \subseteq DOMAIN meta'
                /\ \A h \in DOMAIN meta :
                    meta'[h] = [meta[h] EXCEPT !.canonical = meta'[h].canonical]
                /\ (latestHash \notin {latestHash', NoHash}) =>
                    isPreferredTip(latestHash', meta'[latestHash'],
                                   latestHash, meta[latestHash])
<1>1. IInv /\ IInv' /\ [Next]_vars => [A]_vars
    <2> SUFFICES ASSUME IInv, IInv', [Next]_vars PROVE A
        OBVIOUS
    <2>1. CASE UNCHANGED <<meta, latestHash>>
        BY <2>1, RecordExceptSelf DEF IInv, TypeOK
    <2>2. CASE OpenEmpty
        BY <2>2 DEF OpenEmpty, IInv, EveryBranchReachesGenesis
    <2>3. ASSUME NEW x \in Hashes, NEW p \in Hashes, NEW w \in Works, AcceptsLeaf(x, p, w)
          PROVE  A
        <3>1. DOMAIN meta \subseteq DOMAIN meta'
              /\ \A h \in DOMAIN meta :
                    meta'[h] = [meta[h] EXCEPT !.canonical = meta'[h].canonical]
            BY <2>3 DEF AcceptsLeaf, SameHeader
        <3>2. ASSUME latestHash \notin {latestHash', NoHash}
              PROVE  isPreferredTip(latestHash', meta'[latestHash'],
                                    latestHash, meta[latestHash])
            <4>1. latestHash \in DOMAIN meta /\ latestHash \in DOMAIN meta'
                BY <3>1, <3>2 DEF IInv, TypeOK
            <4>2. isPreferredTip(latestHash', meta'[latestHash'],
                                 latestHash, meta'[latestHash])
                BY <3>2, <4>1 DEF IInv, TipIsPreferred
            <4>3. /\ meta'[latestHash].cumulative = meta[latestHash].cumulative
                  /\ meta'[latestHash].number = meta[latestHash].number
                BY <2>3, <4>1 DEF AcceptsLeaf, SameHeader
            <4> QED
                BY <4>2, <4>3, PreferredIgnoresFlags
        <3> QED
            BY <3>1, <3>2
    <2> QED
        BY <2>1, <2>2, <2>3, StepEffect
<1> QED
    BY <1>1, StoreInvariant, PTL DEF Spec, TipOnlyImproves

(***************************************************************************)
(* The block store implements HeaviestTip.                                 *)
(***************************************************************************)
THEOREM StoreImplementsHeaviestTip == Spec => ImplementsHeaviestTip
<1> DEFINE K == [h \in DOMAIN meta |->
                    [parent |-> meta[h].parent, number |-> meta[h].number,
                     cumulative |-> meta[h].cumulative]]
<1>1. Init => Abs!AbsInit
    <2> SUFFICES ASSUME Init PROVE Abs!AbsInit
        OBVIOUS
    <2>1. DOMAIN meta = {} /\ latestHash = NoHash
        BY DEF Init, EmptyFunction
    <2> QED
        BY <2>1 DEF Abs!AbsInit
<1>2. IInv /\ IInv' /\ [Next]_vars => [Abs!AbsNext]_(Abs!absVars)
    <2> SUFFICES ASSUME IInv, IInv', [Next]_vars
                 PROVE  Abs!AbsNext \/ UNCHANGED <<K, latestHash>>
        BY DEF Abs!absVars
    <2>1. CASE UNCHANGED <<meta, latestHash>>
        BY <2>1
    <2>2. CASE OpenEmpty
        <3>1. DOMAIN meta = {} /\ latestHash' = Genesis
            BY <2>2 DEF OpenEmpty, IInv, EveryBranchReachesGenesis, CommitTip
        <3>2. DOMAIN meta' = {Genesis} /\ meta'[Genesis] = GenesisMeta
            <4>1. DOMAIN meta' = {Genesis}
                BY <2>2, <3>1 DEF OpenEmpty, CommitTip, RewrittenMeta, Put
            <4>2. latestMeta' = GenesisMeta /\ latest' = Genesis
                BY <2>2 DEF OpenEmpty, CommitTip
            <4> QED
                BY <4>1, <4>2, <3>1, HashesAssumption, GenesisAssumption
                DEF IInv, MemoryMatchesDisk, Down
        <3>3. K' = [h \in {Genesis} |->
                    [parent |-> NoHash, number |-> 0, cumulative |-> 0]]
            BY <3>2 DEF GenesisMeta, NoMeta
        <3>4. DOMAIN K = {}
            BY <3>1
        <3>5. Abs!StartChain
            BY <3>1, <3>3, <3>4 DEF Abs!StartChain
        <3> QED
            BY <3>5 DEF Abs!AbsNext
    <2>3. ASSUME NEW x \in Hashes, NEW p \in Hashes, NEW w \in Works, AcceptsLeaf(x, p, w)
          PROVE  Abs!AbsNext
        <3>1. /\ x \notin DOMAIN K /\ p \in DOMAIN K
              /\ DOMAIN K' = DOMAIN K \cup {x}
            BY <2>3 DEF AcceptsLeaf
        <3>2. K' = [h \in DOMAIN K \cup {x} |->
                        IF h = x
                        THEN [parent |-> p, number |-> K[p].number + 1,
                              cumulative |-> K[p].cumulative + w]
                        ELSE K[h]]
            BY <2>3 DEF AcceptsLeaf, SameHeader
        <3>3. latestHash' \in DOMAIN meta'
            BY <2>3 DEF AcceptsLeaf, IInv, TypeOK, EveryBranchReachesGenesis
        <3>4. \A h \in DOMAIN meta' \ {latestHash'} :
                isPreferredTip(latestHash', meta'[latestHash'], h, meta'[h])
            BY DEF IInv, TipIsPreferred
        <3>5. Abs!IsTip(K', latestHash')
            BY <3>3, <3>4 DEF Abs!IsTip, Abs!Preferred, isPreferredTip
        <3>6. Abs!AcceptBlock(x, p, w)
            BY <3>1, <3>2, <3>5 DEF Abs!AcceptBlock
        <3> QED
            BY <3>6 DEF Abs!AbsNext
    <2> QED
        BY <2>1, <2>2, <2>3, StepEffect
<1> QED
    BY <1>1, <1>2, StoreInvariant, PTL DEF Spec, ImplementsHeaviestTip, Abs!AbsSpec

---------------------------------------------------------------------------
(***************************************************************************)
(* The readers beside the store.                                           *)
(***************************************************************************)

\* A query of the chain only reads: RecentActivity, AddressActivity,
\* TransactionByHash, CrawlProofByTask and CallContract change nothing of the
\* database or of the tip, and the store's own steps are those of Blockchain.
THEOREM ReadersLeaveStoreAlone == ReaderSpec => Spec
<1>1. ReaderInit => Init
    BY DEF ReaderInit
<1>2. [ReaderNext]_allVars => [Next]_vars
    <2> SUFFICES ASSUME [ReaderNext]_allVars PROVE [Next]_vars
        OBVIOUS
    <2>1. CASE StoreStep
        BY <2>1 DEF StoreStep
    <2>2. CASE \E op \in Queries \ {"call"} : Start(op)
        BY <2>2 DEF Start
    <2>3. CASE \E n \in DOMAIN byNumber : StartCall(n)
        BY <2>3 DEF StartCall
    <2>4. CASE Scan \/ ScanProofs
        BY <2>4 DEF Scan, ScanProofs
    <2>5. CASE CallBlock \/ CallState \/ Return
        BY <2>5 DEF CallBlock, CallState, Return
    <2>6. CASE UNCHANGED allVars
        BY <2>6 DEF allVars
    <2> QED
        BY <2>1, <2>2, <2>3, <2>4, <2>5, <2>6 DEF ReaderNext
<1> QED
    BY <1>1, <1>2, PTL DEF ReaderSpec, Spec

\* The canonical flags, the height index and the stored states agree with the
\* tip at every moment a query may look at them.
COROLLARY ReadersSeeConsistentStore ==
    ReaderSpec => []( /\ CanonicalIsAncestryOfTip
                      /\ NumberIndexIsCanonicalChain
                      /\ SnapshotIsOwnBranch )
BY ReadersLeaveStoreAlone, StoreSafety, PTL

---------------------------------------------------------------------------
(***************************************************************************)
(* What a reader finds, and what the store may do between two reads.       *)
(***************************************************************************)

\* The store's writers forget no block, renumber none and move none to
\* another branch: what a reader has read of a block stays true of it.
LEMMA BlocksAreStable ==
    ASSUME IInv, ~Down, [Next]_vars
    PROVE  /\ DOMAIN meta \subseteq DOMAIN meta'
           /\ \A h \in DOMAIN meta : /\ meta'[h].number = meta[h].number
                                     /\ Ancestors(meta', h) = Ancestors(meta, h)
<1>1. CASE UNCHANGED <<meta, latestHash>>
    BY <1>1
<1>2. CASE OpenEmpty
    BY <1>2 DEF OpenEmpty
<1>3. ASSUME NEW x \in Hashes, NEW p \in Hashes, NEW w \in Works, AcceptsLeaf(x, p, w)
      PROVE  /\ DOMAIN meta \subseteq DOMAIN meta'
             /\ \A h \in DOMAIN meta : /\ meta'[h].number = meta[h].number
                                       /\ Ancestors(meta', h) = Ancestors(meta, h)
    <2> DEFINE n == Put(meta, x, meta'[x])
    <2>1. /\ DOMAIN n = DOMAIN meta' /\ x \notin DOMAIN meta /\ x # NoHash
          /\ \A h \in DOMAIN meta : SameHeader(meta', meta, h)
        BY <1>3, HashesAssumption DEF AcceptsLeaf, Put
    <2>2. \A h \in DOMAIN n : n[h].parent = meta'[h].parent
        BY <1>3, <2>1 DEF AcceptsLeaf, SameHeader, Put
    <2>3. ParentsStored(meta)
        BY TreeParents DEF IInv, EveryBranchReachesGenesis
    <2>4. ASSUME NEW h \in DOMAIN meta
          PROVE  Ancestors(meta', h) = Ancestors(meta, h)
        <3>1. Ancestors(n, h) = Ancestors(meta, h)
            BY <2>1, <2>3, AncestorsOfOthers
        <3> HIDE DEF n
        <3>2. Ancestors(n, h) = Ancestors(meta', h)
            BY <2>1, <2>2, AncestorsSameParents
        <3> QED
            BY <3>1, <3>2
    <2> QED
        BY <1>3, <2>1, <2>4 DEF AcceptsLeaf, SameHeader
<1> QED
    BY <1>1, <1>2, <1>3, StepEffect

\* GetBlockByNumber answers the one canonical block of the height, or none.
LEMMA BlockOfHeight ==
    ASSUME IInv, ~Down, NEW n \in Nat, NEW h, h = GetBlockByNumber(n)
    PROVE  /\ h # NoHash => h \in CanonicalChain /\ h \in Hashes /\ meta[h].number = n
           /\ \A b \in CanonicalChain : meta[b].number = n => h = b /\ h # NoHash
<1>1. /\ latest = latestHash /\ latest # NoHash /\ latest \in DOMAIN meta
      /\ latestMeta = meta[latest]
    BY DEF IInv, MemoryMatchesDisk, TypeOK, Down
<1>2. CanonicalChain = Ancestors(meta, latest) /\ CanonicalChain \subseteq DOMAIN meta
    BY <1>1 DEF IInv, CanonicalIsAncestryOfTip, CanonicalChain
<1>3. DOMAIN meta \subseteq Hashes /\ NoHash \notin Hashes
    BY HashesAssumption DEF IInv, TypeOK
<1>4. /\ Numbers(meta, CanonicalChain) = 0 .. meta[latest].number
      /\ \A a, b \in CanonicalChain : meta[a].number = meta[b].number => a = b
    BY <1>1, <1>2 DEF IInv, EveryBranchReachesGenesis, IsBlockTree
<1>5. /\ DOMAIN byNumber = 0 .. meta[latest].number
      /\ \A i \in DOMAIN byNumber :
            byNumber[i] \in CanonicalChain /\ meta[byNumber[i]].number = i
    BY <1>1, <1>2 DEF IInv, NumberIndexIsCanonicalChain
<1>6. latest \in CanonicalChain
    BY <1>1, <1>2, AncestorsSelf
<1>7. CASE n = meta[latest].number
    <2>1. h = latest
        BY <1>1, <1>7 DEF GetBlockByNumber
    <2> QED
        BY <2>1, <1>1, <1>2, <1>3, <1>4, <1>6, <1>7
<1>8. CASE n # meta[latest].number /\ n \in DOMAIN byNumber
    <2>1. h = byNumber[n]
        BY <1>1, <1>8 DEF GetBlockByNumber
    <2> QED
        BY <2>1, <1>2, <1>3, <1>4, <1>5, <1>8
<1>9. CASE n # meta[latest].number /\ n \notin DOMAIN byNumber
    <2>1. h = NoHash
        BY <1>1, <1>9 DEF GetBlockByNumber
    <2>2. \A b \in CanonicalChain : meta[b].number \in 0 .. meta[latest].number
        BY <1>4 DEF Numbers
    <2> QED
        BY <2>1, <2>2, <1>5, <1>9
<1> QED
    BY <1>7, <1>8, <1>9

\* stateForBlockRef loads the state of the block's own branch.
LEMMA StateOfBlock ==
    ASSUME IInv, ~Down, NEW h \in DOMAIN meta
    PROVE  /\ LoadedState(h) \in SUBSET (Hashes \cup Seeds)
           /\ LoadedState(h) \cap Hashes = Ancestors(meta, h)
<1>1. /\ history[h] \in SUBSET (Hashes \cup Seeds)
      /\ history[h] \cap Hashes = Ancestors(meta, h)
    BY DEF IInv, TypeOK, SnapshotIsOwnBranch
<1>2. h = latest => state \cap Hashes = history[h] \cap Hashes
    BY DEF IInv, MemoryMatchesDisk
<1>3. state \in SUBSET (Hashes \cup Seeds)
    BY DEF IInv, TypeOK
<1> QED
    BY <1>1, <1>2, <1>3 DEF LoadedState

\* What is listed after one more item.
LEMMA ListedAppend ==
    ASSUME NEW q \in Seq(Hashes), NEW h \in Hashes
    PROVE  /\ Append(q, h) \in Seq(Hashes)
           /\ Len(Append(q, h)) = Len(q) + 1
           /\ Listed(Append(q, h)) = Listed(q) \cup {h}
           /\ DOMAIN Append(q, h) = 1 .. Len(q) + 1
           /\ DOMAIN q = 1 .. Len(q)
           /\ \A i \in 1 .. Len(q) : Append(q, h)[i] = q[i] /\ q[i] \in Listed(q)
           /\ Append(q, h)[Len(q) + 1] = h
<1>1. /\ Append(q, h) \in Seq(Hashes)
      /\ Len(Append(q, h)) = Len(q) + 1
      /\ DOMAIN Append(q, h) = 1 .. Len(q) + 1
      /\ DOMAIN q = 1 .. Len(q) /\ Len(q) \in Nat
      /\ \A i \in 1 .. Len(q) : Append(q, h)[i] = q[i]
      /\ Append(q, h)[Len(q) + 1] = h
    OBVIOUS
<1>2. \A i \in 1 .. Len(q) : q[i] \in Listed(q)
    BY <1>1 DEF Listed
<1>3. Listed(Append(q, h)) = Listed(q) \cup {h}
    BY <1>1 DEF Listed
<1> QED
    BY <1>1, <1>2, <1>3

\* One turn of a walk lists the block of the height, or passes it over if the
\* walk is not about it.  What the walk is about is listed or lies below.
LEMMA WalkTurn ==
    ASSUME IInv, ReaderTypeOK, HistoryBracketsChain, reader.op # "idle",
           NEW S \in SUBSET stayed, NEW q \in Seq(Hashes),
           ListsCanonicalBlocks(q), Walking(S, q),
           NEW h, h = GetBlockByNumber(reader.number),
           NEW r, \/ h # NoHash /\ r = Append(q, h)
                  \/ (h = NoHash \/ h \notin S) /\ r = q
    PROVE  /\ r \in Seq(Hashes) /\ ListsCanonicalBlocks(r)
           /\ Len(r) <= MaxItems
           /\ \A b \in Listed(r) : meta[b].number >= reader.number
           /\ \A b \in S \ Listed(r) : meta[b].number < reader.number
<1>1. reader.number \in Nat /\ MaxItems \in Nat /\ Len(q) \in Nat
    BY LimitAssumption DEF ReaderTypeOK, MaxItems
<1>2. /\ ~Down /\ S \subseteq CanonicalChain /\ CanonicalChain \subseteq seen
      /\ seen \subseteq DOMAIN meta
    BY DEF HistoryBracketsChain, ReaderTypeOK
<1>3. \A b \in seen : meta[b].number \in Nat
    BY <1>2 DEF IInv, TypeOK, BlockMeta
<1>4. /\ h # NoHash => h \in CanonicalChain /\ h \in Hashes /\ meta[h].number = reader.number
      /\ \A b \in CanonicalChain : meta[b].number = reader.number => h = b /\ h # NoHash
    BY <1>1, <1>2, BlockOfHeight
<1>5. /\ Listed(q) \subseteq seen /\ Len(q) < MaxItems
      /\ \A i, j \in DOMAIN q : i < j => meta[q[i]].number > meta[q[j]].number
      /\ \A b \in Listed(q) : meta[b].number > reader.number
      /\ \A b \in S \ Listed(q) : meta[b].number <= reader.number
    BY DEF ListsCanonicalBlocks, Walking
<1>6. CASE h # NoHash /\ r = Append(q, h)
    <2>1. /\ r \in Seq(Hashes) /\ Len(r) = Len(q) + 1
          /\ Listed(r) = Listed(q) \cup {h}
          /\ DOMAIN r = 1 .. Len(q) + 1 /\ DOMAIN q = 1 .. Len(q)
          /\ \A i \in 1 .. Len(q) : r[i] = q[i] /\ q[i] \in Listed(q)
          /\ r[Len(q) + 1] = h
        BY <1>4, <1>6, ListedAppend
    <2>2. ASSUME NEW i \in DOMAIN r, NEW j \in DOMAIN r, i < j
          PROVE  meta[r[i]].number > meta[r[j]].number
        <3>1. i \in 1 .. Len(q)
            BY <2>1, <2>2, <1>1
        <3>2. CASE j \in 1 .. Len(q)
            BY <2>1, <2>2, <3>1, <3>2, <1>5
        <3>3. CASE j = Len(q) + 1
            BY <2>1, <3>1, <3>3, <1>4, <1>5, <1>6
        <3> QED
            BY <2>1, <3>2, <3>3, <1>1
    <2>3. ListsCanonicalBlocks(r)
        BY <2>1, <2>2, <1>2, <1>4, <1>5, <1>6 DEF ListsCanonicalBlocks
    <2>4. Len(r) <= MaxItems
        BY <2>1, <1>1, <1>5
    <2>5. ASSUME NEW b \in Listed(r) PROVE meta[b].number >= reader.number
        <3>1. meta[b].number \in Nat
            BY <2>3, <1>3 DEF ListsCanonicalBlocks
        <3>2. meta[b].number > reader.number \/ meta[b].number = reader.number
            BY <2>1, <1>4, <1>5, <1>6
        <3> QED
            BY <3>1, <3>2, <1>1
    <2>6. \A b \in S \ Listed(r) : meta[b].number < reader.number
        BY <2>1, <1>1, <1>2, <1>3, <1>4, <1>5
    <2> QED
        BY <2>1, <2>3, <2>4, <2>5, <2>6
<1>7. CASE (h = NoHash \/ h \notin S) /\ r = q
    <2>1. r = q
        BY <1>7
    <2>2. \A b \in Listed(r) : meta[b].number >= reader.number
        BY <2>1, <1>1, <1>3, <1>5
    <2>3. \A b \in S \ Listed(r) : meta[b].number < reader.number
        BY <2>1, <1>1, <1>2, <1>3, <1>4, <1>5, <1>7
    <2> QED
        BY <2>1, <2>2, <2>3, <1>1, <1>5
<1> QED
    BY <1>6, <1>7

---------------------------------------------------------------------------
(***************************************************************************)
(* Each step of the store and of a query preserves ReaderInv.              *)
(***************************************************************************)

\* A query starts on the chain of that moment.
LEMMA StartPreserves ==
    ASSUME IInv, ReaderInv,
           \/ \E op \in Queries \ {"call"} : Start(op)
           \/ \E n \in DOMAIN byNumber : StartCall(n)
    PROVE  ReaderInv'
<1>1. /\ ~Down /\ seen' = CanonicalChain /\ stayed' = CanonicalChain
      /\ UNCHANGED vars
    BY DEF Start, StartCall
<1>2. meta' = meta /\ Down' = Down /\ CanonicalChain' = CanonicalChain
    BY <1>1 DEF vars, Down, CanonicalChain
<1>3. /\ latest = latestHash /\ latest \in DOMAIN meta /\ latestMeta = meta[latest]
      /\ latestMeta.number \in Nat /\ CanonicalChain = Ancestors(meta, latest)
    BY <1>1 DEF IInv, MemoryMatchesDisk, TypeOK, Down, BlockMeta,
                CanonicalIsAncestryOfTip, CanonicalChain
<1>4. \A b \in CanonicalChain : meta[b].number <= latestMeta.number
    <2>1. Numbers(meta, CanonicalChain) = 0 .. latestMeta.number
        BY <1>3 DEF IInv, EveryBranchReachesGenesis, IsBlockTree
    <2> QED
        BY <2>1, <1>3 DEF Numbers
<1>5. CanonicalChain \subseteq DOMAIN meta
    BY DEF CanonicalChain
<1>6. /\ Listed(<<>>) = {} /\ Len(<<>>) = 0 /\ DOMAIN <<>> = {} /\ <<>> \in Seq(Hashes)
    BY DEF Listed
<1>7. ASSUME NEW op \in Queries \ {"call"}, Start(op)
      PROVE  ReaderInv'
    <2>1. reader' = [op |-> op, pc |-> "scan", top |-> latestMeta.number,
                     number |-> latestMeta.number, found |-> <<>>,
                     proofs |-> <<>>, state |-> {}]
        BY <1>7 DEF Start, IdleReader
    <2>2. /\ reader'.op = op /\ reader'.pc = "scan" /\ reader'.top = latestMeta.number
          /\ reader'.number = latestMeta.number /\ reader'.found = <<>>
          /\ reader'.proofs = <<>>
        BY <2>1
    <2>3. ReaderTypeOK'
        BY <2>1, <1>1, <1>2, <1>3, <1>5, <1>6 DEF ReaderTypeOK, Queries, Steps
    <2>4. ReaderControl' /\ CallHoldsOneBlock' /\ PastCallSeesOneBranch'
        BY <2>2 DEF ReaderControl, CallHoldsOneBlock, PastCallSeesOneBranch, Queries
    <2>5. HistoryBracketsChain'
        BY <2>2, <1>1, <1>2, <1>4 DEF HistoryBracketsChain
    <2>6. MaxItems' \in Nat \ {0}
        BY LimitAssumption DEF MaxItems
    <2>7. WalksAreComplete' /\ AnswersMissNothingSettled'
        BY <2>2, <2>6, <1>1, <1>2, <1>4, <1>6
        DEF WalksAreComplete, Walking, AnswersMissNothingSettled, ListsCanonicalBlocks
    <2> QED
        BY <2>3, <2>4, <2>5, <2>7 DEF ReaderInv
<1>8. ASSUME NEW n \in DOMAIN byNumber, StartCall(n)
      PROVE  ReaderInv'
    <2>1. reader' = [op |-> "call", pc |-> "block", top |-> 0, number |-> n,
                     found |-> <<>>, proofs |-> <<>>, state |-> {}]
        BY <1>8 DEF StartCall, IdleReader
    <2>2. /\ reader'.op = "call" /\ reader'.pc = "block"
          /\ reader'.found = <<>> /\ reader'.proofs = <<>>
        BY <2>1
    <2>3. n \in Nat
        BY DEF IInv, TypeOK
    <2>4. ReaderTypeOK'
        BY <2>1, <2>3, <1>1, <1>2, <1>5, <1>6 DEF ReaderTypeOK, Queries, Steps
    <2>5. ReaderControl' /\ CallHoldsOneBlock' /\ PastCallSeesOneBranch' /\ WalksAreComplete'
        BY <2>2 DEF ReaderControl, CallHoldsOneBlock, PastCallSeesOneBranch, WalksAreComplete
    <2>6. HistoryBracketsChain'
        BY <2>2, <1>1, <1>2 DEF HistoryBracketsChain
    <2>7. AnswersMissNothingSettled'
        BY <2>2, <1>6 DEF AnswersMissNothingSettled, ListsCanonicalBlocks
    <2> QED
        BY <2>4, <2>5, <2>6, <2>7 DEF ReaderInv
<1> QED
    BY <1>7, <1>8

\* An idle reader has nothing to answer for.
LEMMA IdleIsFine ==
    (reader = IdleReader /\ seen = {} /\ stayed = {}) => ReaderInv
<1> SUFFICES ASSUME reader = IdleReader, seen = {}, stayed = {} PROVE ReaderInv
    OBVIOUS
<1>1. /\ reader.op = "idle" /\ reader.pc = "idle"
      /\ reader.found = <<>> /\ reader.proofs = <<>>
    BY DEF IdleReader
<1>2. /\ Listed(<<>>) = {} /\ DOMAIN <<>> = {} /\ <<>> \in Seq(Hashes)
    BY DEF Listed
<1>3. ReaderTypeOK
    BY <1>2 DEF ReaderTypeOK, IdleReader, Queries, Steps
<1>4. ReaderControl /\ HistoryBracketsChain /\ WalksAreComplete /\ CallHoldsOneBlock
      /\ PastCallSeesOneBranch
    BY <1>1 DEF ReaderControl, HistoryBracketsChain, WalksAreComplete, CallHoldsOneBlock,
                PastCallSeesOneBranch
<1>5. AnswersMissNothingSettled
    BY <1>1, <1>2 DEF AnswersMissNothingSettled, ListsCanonicalBlocks
<1> QED
    BY <1>3, <1>4, <1>5 DEF ReaderInv

\* Between two reads the store moves: what was listed stays listed in order,
\* what stayed on the chain can only shrink and what was seen only grow.
LEMMA StorePreserves ==
    ASSUME IInv, IInv', ReaderInv, StoreStep
    PROVE  ReaderInv'
<1>1. CASE latest' = NoHash
    <2>1. (reader = IdleReader /\ seen = {} /\ stayed = {})'
        BY <1>1 DEF StoreStep
    <2> QED
        BY <2>1, IdleIsFine, PTL
<1>2. CASE latest' # NoHash /\ reader.op = "idle"
    <2>1. (reader = IdleReader /\ seen = {} /\ stayed = {})'
        BY <1>2 DEF StoreStep, ReaderInv, ReaderControl
    <2> QED
        BY <2>1, IdleIsFine, PTL
<1>3. CASE latest' # NoHash /\ reader.op # "idle"
    <2>1. /\ reader' = reader
          /\ seen' = seen \cup CanonicalChain'
          /\ stayed' = stayed \cap CanonicalChain'
        BY <1>3 DEF StoreStep
    <2>2. /\ DOMAIN meta \subseteq DOMAIN meta'
          /\ \A h \in DOMAIN meta : /\ meta'[h].number = meta[h].number
                                    /\ Ancestors(meta', h) = Ancestors(meta, h)
        BY <1>3, BlocksAreStable DEF ReaderInv, HistoryBracketsChain, StoreStep
    <2>3. /\ CanonicalChain' \subseteq DOMAIN meta' /\ ~Down'
          /\ seen \subseteq DOMAIN meta /\ stayed \subseteq DOMAIN meta
        BY <1>3 DEF CanonicalChain, Down, ReaderInv, ReaderTypeOK
    <2>4. /\ stayed' \subseteq stayed /\ seen \subseteq seen'
          /\ \A b \in seen \cup stayed : meta'[b].number = meta[b].number
        BY <2>1, <2>2, <2>3
    <2>5. ReaderTypeOK'
        BY <2>1, <2>2, <2>3 DEF ReaderInv, ReaderTypeOK
    <2>6. ReaderControl'
        BY <1>3, <2>1 DEF ReaderInv, ReaderControl
    <2>7. HistoryBracketsChain'
        BY <2>1, <2>3, <2>4 DEF ReaderInv, HistoryBracketsChain
    <2>8. /\ ListsCanonicalBlocks(reader.found) /\ ListsCanonicalBlocks(reader.proofs)
          /\ ListsCanonicalBlocks(reader.found)' /\ ListsCanonicalBlocks(reader.proofs)'
        <3>1. ASSUME NEW q, ListsCanonicalBlocks(q)
              PROVE  ListsCanonicalBlocks(q)'
            <4>1. /\ Listed(q) \subseteq seen'
                  /\ \A i \in DOMAIN q : q[i] \in seen
                BY <2>4, <3>1 DEF ListsCanonicalBlocks, Listed
            <4>2. \A i, j \in DOMAIN q : i < j => meta'[q[i]].number > meta'[q[j]].number
                BY <2>4, <3>1, <4>1 DEF ListsCanonicalBlocks
            <4> QED
                BY <4>1, <4>2 DEF ListsCanonicalBlocks, Listed
        <3> QED
            BY <2>1, <3>1 DEF ReaderInv, AnswersMissNothingSettled
    <2>9. ASSUME NEW T, NEW T2, T \subseteq stayed, T2 \subseteq T,
                 NEW q, ListsCanonicalBlocks(q)
          PROVE  /\ Walking(T, q) => Walking(T2, q)'
                 /\ MissesNothingOf(T, q) => MissesNothingOf(T2, q)'
        <3>1. \A h \in Listed(q) \cup T : meta'[h].number = meta[h].number
            BY <2>4, <2>9 DEF ListsCanonicalBlocks
        <3>2. MaxItems' = MaxItems
            BY <2>1 DEF MaxItems
        <3> QED
            BY <2>1, <2>9, <3>1, <3>2 DEF Walking, MissesNothingOf, Listed
    <2> DEFINE T == {b \in stayed : Matches(b)}
               P == {b \in stayed : MatchesProof(b)}
    <2>10. T' \subseteq T /\ P' \subseteq P
        BY <2>1, <2>4 DEF Matches, MatchesProof
    <2>11. WalksAreComplete'
        <3>1. reader.pc = "scan" => Walking(T, reader.found)'
            BY <2>1, <2>8, <2>9, <2>10 DEF ReaderInv, WalksAreComplete
        <3>2. reader.pc = "proofs" => /\ MissesNothingOf(T, reader.found)'
                                      /\ Walking(P, reader.proofs)'
            BY <2>1, <2>8, <2>9, <2>10 DEF ReaderInv, WalksAreComplete
        <3> QED
            BY <2>1, <3>1, <3>2 DEF WalksAreComplete
    <2>12. AnswersMissNothingSettled'
        BY <2>1, <2>8, <2>9, <2>10 DEF ReaderInv, AnswersMissNothingSettled
    <2>13. CallHoldsOneBlock' /\ PastCallSeesOneBranch'
        BY <2>1, <2>2, <2>3, <2>4 DEF ReaderInv, CallHoldsOneBlock, PastCallSeesOneBranch
    <2> QED
        BY <2>5, <2>6, <2>7, <2>11, <2>12, <2>13 DEF ReaderInv
<1> QED
    BY <1>1, <1>2, <1>3

\* The fields of a query after a turn of its first walk.
LEMMA ScanFields ==
    ASSUME ReaderTypeOK, Scan
    PROVE  \E h, r, pc, n :
             /\ h = GetBlockByNumber(reader.number)
             /\ r = IF h # NoHash /\ Matches(h) THEN Append(reader.found, h) ELSE reader.found
             /\ reader' = [op |-> reader.op, pc |-> pc, top |-> reader.top,
                           number |-> n, found |-> r,
                           proofs |-> reader.proofs, state |-> reader.state]
             /\ IF Len(r) = MaxItems \/ reader.number = 0
                THEN IF reader.op = "address"
                     THEN pc = "proofs" /\ n = reader.top
                     ELSE pc = "done" /\ n = reader.number
                ELSE pc = "scan" /\ n = reader.number - 1
<1> DEFINE h == GetBlockByNumber(reader.number)
           r == IF h # NoHash /\ Matches(h) THEN Append(reader.found, h) ELSE reader.found
<1>1. reader.pc = "scan" /\
      reader' = IF Len(r) = MaxItems \/ reader.number = 0
                THEN AfterScan(r)
                ELSE [reader EXCEPT !.found = r, !.number = @ - 1]
    BY DEF Scan
<1>2. reader = [op |-> reader.op, pc |-> reader.pc, top |-> reader.top,
                number |-> reader.number, found |-> reader.found,
                proofs |-> reader.proofs, state |-> reader.state]
    BY DEF ReaderTypeOK
<1> HIDE DEF r, h
<1>3. CASE (Len(r) = MaxItems \/ reader.number = 0) /\ reader.op = "address"
    <2>1. reader' = [op |-> reader.op, pc |-> "proofs", top |-> reader.top,
                     number |-> reader.top, found |-> r,
                     proofs |-> reader.proofs, state |-> reader.state]
        BY <1>1, <1>2, <1>3 DEF AfterScan
    <2> QED
        BY <1>3, <2>1 DEF h, r
<1>4. CASE (Len(r) = MaxItems \/ reader.number = 0) /\ reader.op # "address"
    <2>1. reader' = [op |-> reader.op, pc |-> "done", top |-> reader.top,
                     number |-> reader.number, found |-> r,
                     proofs |-> reader.proofs, state |-> reader.state]
        BY <1>1, <1>2, <1>4 DEF AfterScan
    <2> QED
        BY <1>4, <2>1 DEF h, r
<1>5. CASE ~(Len(r) = MaxItems \/ reader.number = 0)
    <2>1. reader' = [op |-> reader.op, pc |-> "scan", top |-> reader.top,
                     number |-> reader.number - 1, found |-> r,
                     proofs |-> reader.proofs, state |-> reader.state]
        BY <1>1, <1>2, <1>5
    <2> QED
        BY <1>5, <2>1 DEF h, r
<1> QED
    BY <1>3, <1>4, <1>5

\* One turn of the first walk of a query.
LEMMA ScanPreserves ==
    ASSUME IInv, ReaderInv, Scan
    PROVE  ReaderInv'
<1>1. PICK h, r, pc, n :
        /\ h = GetBlockByNumber(reader.number)
        /\ r = IF h # NoHash /\ Matches(h) THEN Append(reader.found, h) ELSE reader.found
        /\ reader' = [op |-> reader.op, pc |-> pc, top |-> reader.top,
                      number |-> n, found |-> r,
                      proofs |-> reader.proofs, state |-> reader.state]
        /\ IF Len(r) = MaxItems \/ reader.number = 0
           THEN IF reader.op = "address"
                THEN pc = "proofs" /\ n = reader.top
                ELSE pc = "done" /\ n = reader.number
           ELSE pc = "scan" /\ n = reader.number - 1
    BY ScanFields DEF ReaderInv
<1>2. /\ reader.pc = "scan" /\ UNCHANGED <<vars, seen, stayed>>
      /\ reader.op \in Queries \ {"call"} /\ reader.op # "idle" /\ reader.proofs = <<>>
    BY DEF Scan, ReaderInv, ReaderControl, Queries
<1>3. /\ meta' = meta /\ seen' = seen /\ stayed' = stayed /\ Down' = Down
      /\ CanonicalChain' = CanonicalChain
    BY <1>2 DEF vars, Down, CanonicalChain
<1>4. /\ reader'.pc = pc /\ reader'.number = n /\ reader'.op = reader.op
      /\ reader'.top = reader.top /\ reader'.found = r
      /\ reader'.proofs = <<>> /\ MaxItems' = MaxItems
    BY <1>1, <1>2 DEF MaxItems
<1> DEFINE S == {b \in stayed : Matches(b)}
           P == {b \in stayed : MatchesProof(b)}
<1>5. /\ r \in Seq(Hashes) /\ ListsCanonicalBlocks(r)
      /\ Len(r) <= MaxItems
      /\ \A b \in Listed(r) : meta[b].number >= reader.number
      /\ \A b \in S \ Listed(r) : meta[b].number < reader.number
    <2>1. S \in SUBSET stayed /\ (h \in S => Matches(h))
        OBVIOUS
    <2>2. \/ h # NoHash /\ r = Append(reader.found, h)
          \/ (h = NoHash \/ h \notin S) /\ r = reader.found
        BY <1>1, <2>1
    <2>3. /\ reader.found \in Seq(Hashes) /\ ListsCanonicalBlocks(reader.found)
          /\ Walking(S, reader.found)
        BY <1>2 DEF ReaderInv, ReaderTypeOK, AnswersMissNothingSettled, WalksAreComplete
    <2>4. ReaderTypeOK /\ HistoryBracketsChain /\ reader.op # "idle"
          /\ h = GetBlockByNumber(reader.number)
        BY <1>1, <1>2 DEF ReaderInv
    <2> HIDE DEF S
    <2> QED
        BY <2>1, <2>2, <2>3, <2>4, WalkTurn
<1>6. /\ reader.number \in Nat /\ reader.top \in Nat /\ Len(r) \in Nat
      /\ MaxItems \in Nat \ {0} /\ MaxItems' = MaxItems
      /\ \A b \in seen \cup stayed : meta[b].number \in Nat
      /\ Listed(r) \subseteq seen
    BY <1>4, <1>5, LimitAssumption
    DEF ReaderInv, ReaderTypeOK, MaxItems, ListsCanonicalBlocks, IInv, TypeOK, BlockMeta
<1>7. S' = S /\ S \subseteq stayed
    BY <1>3, <1>4 DEF Matches
<1>8. /\ Listed(<<>>) = {} /\ Len(<<>>) = 0 /\ DOMAIN <<>> = {}
    BY DEF Listed
<1>9. ReaderTypeOK'
    <2>1. pc \in Steps /\ n \in Nat
        BY <1>1, <1>6 DEF Steps
    <2> QED
        BY <1>1, <1>3, <1>5, <2>1 DEF ReaderInv, ReaderTypeOK
<1>10. ReaderControl' /\ CallHoldsOneBlock' /\ PastCallSeesOneBranch'
    BY <1>1, <1>2, <1>4
    DEF ReaderControl, CallHoldsOneBlock, PastCallSeesOneBranch, Queries
<1>11. HistoryBracketsChain'
    BY <1>2, <1>3, <1>4 DEF ReaderInv, HistoryBracketsChain
<1>12. (Len(r) = MaxItems \/ reader.number = 0) => MissesNothingOf(S, r)'
    <2> HIDE DEF S
    <2> QED
        BY <1>3, <1>5, <1>6, <1>7 DEF MissesNothingOf
<1>13. ListsCanonicalBlocks(reader.found)' /\ ListsCanonicalBlocks(reader.proofs)'
    BY <1>3, <1>4, <1>5, <1>8 DEF ListsCanonicalBlocks
<1>14. ~(Len(r) = MaxItems \/ reader.number = 0) => Walking(S, reader.found)'
    <2>1. SUFFICES ASSUME ~(Len(r) = MaxItems \/ reader.number = 0)
                   PROVE  Walking(S, reader.found)'
        OBVIOUS
    <2>2. reader'.number = reader.number - 1
        BY <1>1, <1>4, <2>1
    <2> HIDE DEF S
    <2> QED
        BY <1>3, <1>4, <1>5, <1>6, <1>7, <2>1, <2>2 DEF Walking
<1>15. reader'.pc = "proofs" => Walking(P, reader.proofs)'
    <2>1. SUFFICES ASSUME reader'.pc = "proofs" PROVE Walking(P, reader.proofs)'
        OBVIOUS
    <2>2. reader'.number = reader.top
        BY <1>1, <1>4, <2>1
    <2>3. \A b \in P' : meta'[b].number <= reader'.number
        BY <1>2, <1>3, <2>2 DEF ReaderInv, HistoryBracketsChain
    <2> HIDE DEF P
    <2> QED
        BY <1>4, <1>6, <1>8, <2>3 DEF Walking
<1>16. WalksAreComplete'
    <2> HIDE DEF S, P
    <2>1. /\ reader'.pc = "scan" => Walking(S, reader.found)'
          /\ reader'.pc = "proofs" => MissesNothingOf(S, r)' /\ Walking(P, reader.proofs)'
        BY <1>1, <1>4, <1>12, <1>14, <1>15
    <2> QED
        BY <1>4, <2>1 DEF WalksAreComplete, S, P
<1>17. AnswersMissNothingSettled'
    <2>1. reader'.pc = "done" => reader'.op # "address" /\ MissesNothingOf(S, r)'
        BY <1>1, <1>4, <1>12
    <2> QED
        BY <1>4, <1>13, <2>1 DEF AnswersMissNothingSettled
<1> QED
    BY <1>9, <1>10, <1>11, <1>16, <1>17 DEF ReaderInv

\* One turn of the second walk of AddressActivity.
LEMMA ScanProofsPreserves ==
    ASSUME IInv, ReaderInv, ScanProofs
    PROVE  ReaderInv'
<1> DEFINE h == GetBlockByNumber(reader.number)
           r == IF h # NoHash /\ MatchesProof(h)
                THEN Append(reader.proofs, h) ELSE reader.proofs
           T == {b \in stayed : Matches(b)}
           P == {b \in stayed : MatchesProof(b)}
<1>1. /\ reader.pc = "proofs" /\ UNCHANGED <<vars, seen, stayed>>
      /\ reader' = IF Len(r) = MaxItems \/ reader.number = 0
                   THEN [reader EXCEPT !.proofs = r, !.pc = "done"]
                   ELSE [reader EXCEPT !.proofs = r, !.number = @ - 1]
    BY DEF ScanProofs
<1>2. reader = [op |-> reader.op, pc |-> reader.pc, top |-> reader.top,
                number |-> reader.number, found |-> reader.found,
                proofs |-> reader.proofs, state |-> reader.state]
    BY DEF ReaderInv, ReaderTypeOK
<1>3. /\ reader.op = "address"
      /\ meta' = meta /\ seen' = seen /\ stayed' = stayed /\ Down' = Down
      /\ CanonicalChain' = CanonicalChain
    BY <1>1 DEF ReaderInv, ReaderControl, vars, Down, CanonicalChain
<1>4. /\ r \in Seq(Hashes) /\ ListsCanonicalBlocks(r)
      /\ Len(r) <= MaxItems
      /\ \A b \in Listed(r) : meta[b].number >= reader.number
      /\ \A b \in P \ Listed(r) : meta[b].number < reader.number
    <2>1. P \in SUBSET stayed /\ (h \in P => MatchesProof(h))
        OBVIOUS
    <2>2. \/ h # NoHash /\ r = Append(reader.proofs, h)
          \/ (h = NoHash \/ h \notin P) /\ r = reader.proofs
        BY <2>1
    <2>3. /\ reader.proofs \in Seq(Hashes) /\ ListsCanonicalBlocks(reader.proofs)
          /\ Walking(P, reader.proofs)
        BY <1>1 DEF ReaderInv, ReaderTypeOK, AnswersMissNothingSettled, WalksAreComplete
    <2>4. ReaderTypeOK /\ HistoryBracketsChain /\ reader.op # "idle"
        BY <1>3 DEF ReaderInv
    <2> HIDE DEF P, r
    <2> QED
        BY <2>1, <2>2, <2>3, <2>4, WalkTurn
<1> HIDE DEF r, h
<1>5. PICK q : q = r
    OBVIOUS
<1>6. PICK pc, n :
        /\ reader' = [op |-> reader.op, pc |-> pc, top |-> reader.top,
                      number |-> n, found |-> reader.found,
                      proofs |-> q, state |-> reader.state]
        /\ IF Len(q) = MaxItems \/ reader.number = 0
           THEN pc = "done" /\ n = reader.number
           ELSE pc = "proofs" /\ n = reader.number - 1
    BY <1>1, <1>2, <1>5
<1>7. /\ reader'.op = reader.op /\ reader'.pc = pc /\ reader'.number = n
      /\ reader'.top = reader.top /\ reader'.found = reader.found
      /\ reader'.proofs = q /\ MaxItems' = MaxItems
    BY <1>6 DEF MaxItems
<1>8. /\ reader.number \in Nat /\ Len(q) \in Nat /\ MaxItems \in Nat \ {0}
      /\ \A b \in seen \cup stayed : meta[b].number \in Nat
      /\ Listed(q) \subseteq seen /\ Listed(reader.found) \subseteq seen
    BY <1>4, <1>5, LimitAssumption
    DEF ReaderInv, ReaderTypeOK, MaxItems, AnswersMissNothingSettled, ListsCanonicalBlocks,
        IInv, TypeOK, BlockMeta
<1>9. T' = T /\ P' = P /\ P \subseteq stayed
    BY <1>3, <1>7 DEF Matches, MatchesProof
<1>10. ReaderTypeOK'
    <2>1. pc \in Steps /\ n \in Nat /\ q \in Seq(Hashes)
        BY <1>4, <1>5, <1>6, <1>8 DEF Steps
    <2> QED
        BY <1>3, <1>6, <2>1 DEF ReaderInv, ReaderTypeOK
<1>11. ReaderControl' /\ CallHoldsOneBlock' /\ PastCallSeesOneBranch'
    BY <1>3, <1>6, <1>7 DEF ReaderControl, CallHoldsOneBlock, PastCallSeesOneBranch
<1>12. HistoryBracketsChain'
    BY <1>3, <1>7 DEF ReaderInv, HistoryBracketsChain
<1>13. ListsCanonicalBlocks(reader.found)' /\ ListsCanonicalBlocks(reader.proofs)'
    BY <1>3, <1>4, <1>5, <1>7
    DEF ReaderInv, AnswersMissNothingSettled, ListsCanonicalBlocks
<1>14. MissesNothingOf(T, reader.found)'
    <2>1. MissesNothingOf(T, reader.found)
        BY <1>1 DEF ReaderInv, WalksAreComplete
    <2> HIDE DEF T
    <2> QED
        BY <2>1, <1>3, <1>7, <1>9 DEF MissesNothingOf
<1>15. (Len(q) = MaxItems \/ reader.number = 0) => MissesNothingOf(P, q)'
    <2> HIDE DEF P
    <2> QED
        BY <1>3, <1>4, <1>5, <1>7, <1>8, <1>9 DEF MissesNothingOf
<1>16. ~(Len(q) = MaxItems \/ reader.number = 0) => Walking(P, reader.proofs)'
    <2>1. SUFFICES ASSUME ~(Len(q) = MaxItems \/ reader.number = 0)
                   PROVE  Walking(P, reader.proofs)'
        OBVIOUS
    <2>2. reader'.number = reader.number - 1
        BY <1>6, <1>7, <2>1
    <2> HIDE DEF P
    <2> QED
        BY <1>3, <1>4, <1>5, <1>7, <1>8, <1>9, <2>1, <2>2 DEF Walking
<1>17. WalksAreComplete'
    <2> HIDE DEF T, P
    <2>1. /\ reader'.pc # "scan"
          /\ reader'.pc = "proofs" => Walking(P, reader.proofs)'
        BY <1>6, <1>7, <1>16
    <2> QED
        BY <2>1, <1>14 DEF WalksAreComplete, T, P
<1>18. AnswersMissNothingSettled'
    <2> HIDE DEF T, P
    <2>1. reader'.pc = "done" => MissesNothingOf(P, reader.proofs)'
        BY <1>6, <1>7, <1>15
    <2> QED
        BY <2>1, <1>13, <1>14 DEF AnswersMissNothingSettled, T, P
<1> QED
    BY <1>10, <1>11, <1>12, <1>17, <1>18 DEF ReaderInv

\* A contract call finds the block of its height, then that block's state.
LEMMA CallPreserves ==
    ASSUME IInv, ReaderInv, CallBlock \/ CallState
    PROVE  ReaderInv'
<1>1. /\ UNCHANGED <<vars, seen, stayed>> /\ reader.op = "call"
      /\ reader.pc \in {"block", "state"} /\ reader.proofs = <<>>
    BY DEF CallBlock, CallState, ReaderInv, ReaderControl
<1>2. /\ meta' = meta /\ seen' = seen /\ stayed' = stayed /\ Down' = Down
      /\ CanonicalChain' = CanonicalChain /\ ~Down
      /\ CanonicalChain \subseteq seen /\ seen \subseteq DOMAIN meta
      /\ DOMAIN meta \subseteq Hashes
    BY <1>1 DEF vars, Down, CanonicalChain, ReaderInv, HistoryBracketsChain, ReaderTypeOK,
                IInv, TypeOK
<1>3. /\ reader = [op |-> reader.op, pc |-> reader.pc, top |-> reader.top,
                   number |-> reader.number, found |-> reader.found,
                   proofs |-> reader.proofs, state |-> reader.state]
      /\ reader.number \in Nat
    BY DEF ReaderInv, ReaderTypeOK
<1>4. /\ Listed(<<>>) = {} /\ DOMAIN <<>> = {}
      /\ \A h : Listed(<<h>>) = {h} /\ DOMAIN <<h>> = {1} /\ <<h>>[1] = h /\ Len(<<h>>) = 1
    BY DEF Listed
<1>5. PICK pc, f, t :
        /\ reader' = [op |-> "call", pc |-> pc, top |-> reader.top,
                      number |-> reader.number, found |-> f, proofs |-> <<>>, state |-> t]
        /\ pc \in {"state", "done"}
        /\ f = <<>> \/ \E h \in seen : f = <<h>> /\ meta[h].number = reader.number
        /\ pc = "state" => f # <<>>
        /\ (pc = "done" /\ f # <<>>) => t \cap Hashes = Ancestors(meta, f[1])
        /\ t \in SUBSET (Hashes \cup Seeds)
    <2>1. CASE CallBlock
        <3> DEFINE h == GetBlockByNumber(reader.number)
        <3>1. reader.pc = "block" /\ reader.found = <<>>
              /\ reader.state \in SUBSET (Hashes \cup Seeds)
            BY <2>1 DEF CallBlock, ReaderInv, ReaderControl, ReaderTypeOK
        <3>2. reader' = IF h = NoHash THEN [reader EXCEPT !.pc = "done"]
                        ELSE [reader EXCEPT !.found = <<h>>, !.pc = "state"]
            BY <2>1 DEF CallBlock
        <3>3. h # NoHash => h \in seen /\ meta[h].number = reader.number
            BY <1>2, <1>3, BlockOfHeight
        <3> HIDE DEF h
        <3>4. CASE h = NoHash
            <4>1. reader' = [op |-> "call", pc |-> "done", top |-> reader.top,
                             number |-> reader.number, found |-> <<>>,
                             proofs |-> <<>>, state |-> reader.state]
                BY <1>1, <1>3, <3>1, <3>2, <3>4
            <4> QED
                BY <3>1, <4>1
        <3>5. CASE h # NoHash
            <4>1. reader' = [op |-> "call", pc |-> "state", top |-> reader.top,
                             number |-> reader.number, found |-> <<h>>,
                             proofs |-> <<>>, state |-> reader.state]
                BY <1>1, <1>3, <3>1, <3>2, <3>5
            <4> QED
                BY <3>1, <3>3, <3>5, <4>1
        <3> QED
            BY <3>4, <3>5
    <2>2. CASE CallState
        <3> DEFINE h == reader.found[1]
        <3>1. /\ reader' = [reader EXCEPT !.state = LoadedState(h), !.pc = "done"]
              /\ reader.pc = "state"
            BY <2>2 DEF CallState
        <3>2. /\ reader.found \in Seq(Hashes) /\ Len(reader.found) = 1
              /\ h \in seen /\ meta[h].number = reader.number
            BY <3>1 DEF ReaderInv, CallHoldsOneBlock, ReaderTypeOK
        <3>3. reader.found = <<h>>
            BY <3>2
        <3>4. /\ LoadedState(h) \in SUBSET (Hashes \cup Seeds)
              /\ LoadedState(h) \cap Hashes = Ancestors(meta, h)
            BY <1>2, <3>2, StateOfBlock
        <3>5. reader' = [op |-> "call", pc |-> "done", top |-> reader.top,
                         number |-> reader.number, found |-> reader.found,
                         proofs |-> <<>>, state |-> LoadedState(h)]
            BY <1>1, <1>3, <3>1
        <3> QED
            BY <3>2, <3>3, <3>4, <3>5
    <2> QED
        BY <2>1, <2>2
<1>6. /\ reader'.op = "call" /\ reader'.pc = pc /\ reader'.number = reader.number
      /\ reader'.found = f /\ reader'.proofs = <<>> /\ reader'.state = t
    BY <1>5
<1>7. /\ f \in Seq(Hashes) /\ Listed(f) \subseteq seen
      /\ \A i, j \in DOMAIN f : ~(i < j)
      /\ f # <<>> => Len(f) = 1 /\ f[1] \in seen /\ meta[f[1]].number = reader.number
    <2>1. CASE f = <<>>
        BY <2>1, <1>4
    <2>2. ASSUME NEW h \in seen, f = <<h>>, meta[h].number = reader.number
          PROVE  /\ f \in Seq(Hashes) /\ Listed(f) \subseteq seen
                 /\ \A i, j \in DOMAIN f : ~(i < j)
                 /\ Len(f) = 1 /\ f[1] \in seen /\ meta[f[1]].number = reader.number
        BY <2>2, <1>2, <1>4
    <2> QED
        BY <2>1, <2>2, <1>5
<1>8. ReaderTypeOK'
    BY <1>2, <1>5, <1>7 DEF ReaderInv, ReaderTypeOK, Queries, Steps
<1>9. ReaderControl' /\ WalksAreComplete'
    BY <1>5, <1>6 DEF ReaderControl, WalksAreComplete
<1>10. HistoryBracketsChain'
    BY <1>1, <1>2, <1>6 DEF ReaderInv, HistoryBracketsChain
<1>11. CallHoldsOneBlock' /\ PastCallSeesOneBranch'
    BY <1>2, <1>5, <1>6, <1>7 DEF CallHoldsOneBlock, PastCallSeesOneBranch
<1>12. AnswersMissNothingSettled'
    BY <1>2, <1>4, <1>6, <1>7 DEF AnswersMissNothingSettled, ListsCanonicalBlocks
<1> QED
    BY <1>8, <1>9, <1>10, <1>11, <1>12 DEF ReaderInv

(***************************************************************************)
(* ReaderInv holds however the store's steps fall between the reads of a   *)
(* query, for every block tree and every length of the walks.              *)
(***************************************************************************)
THEOREM ReaderInvariant == ReaderSpec => []ReaderInv
<1>1. ReaderInit => ReaderInv
    BY IdleIsFine DEF ReaderInit
<1>2. IInv /\ IInv' /\ ReaderInv /\ [ReaderNext]_allVars => ReaderInv'
    <2> SUFFICES ASSUME IInv, IInv', ReaderInv, [ReaderNext]_allVars PROVE ReaderInv'
        OBVIOUS
    <2>1. CASE StoreStep
        BY <2>1, StorePreserves
    <2>2. CASE (\E op \in Queries \ {"call"} : Start(op))
               \/ (\E n \in DOMAIN byNumber : StartCall(n))
        BY <2>2, StartPreserves
    <2>3. CASE Scan
        BY <2>3, ScanPreserves
    <2>4. CASE ScanProofs
        BY <2>4, ScanProofsPreserves
    <2>5. CASE CallBlock \/ CallState
        BY <2>5, CallPreserves
    <2>6. CASE Return
        <3>1. (reader = IdleReader /\ seen = {} /\ stayed = {})'
            BY <2>6 DEF Return
        <3> QED
            BY <3>1, IdleIsFine, PTL
    <2>7. CASE UNCHANGED allVars
        BY <2>7
        DEF allVars, vars, readerVars, ReaderInv, ReaderTypeOK, ReaderControl,
            HistoryBracketsChain, WalksAreComplete, CallHoldsOneBlock,
            AnswersMissNothingSettled, PastCallSeesOneBranch, ListsCanonicalBlocks,
            MissesNothingOf, Walking, Matches, MatchesProof, MaxItems, CanonicalChain,
            Down, Listed
    <2> QED
        BY <2>1, <2>2, <2>3, <2>4, <2>5, <2>6, <2>7 DEF ReaderNext
<1>3. ReaderSpec => []IInv
    BY ReadersLeaveStoreAlone, StoreInvariant, PTL
<1> QED
    BY <1>1, <1>2, <1>3, PTL DEF ReaderSpec

\* RecentActivity, AddressActivity, TransactionByHash and CrawlProofByTask
\* miss nothing that stays on the chain during the query and list nothing
\* that never was on it, whatever is mined or reorganised between the reads.
COROLLARY ReadersMissNothingSettled == ReaderSpec => []AnswersMissNothingSettled
<1>1. ReaderInv => AnswersMissNothingSettled
    BY DEF ReaderInv
<1> QED
    BY <1>1, ReaderInvariant, PTL

\* CallContract at a past height runs on all of one branch and nothing else,
\* also when the block it found leaves the chain before its state is loaded.
COROLLARY CallsSeeOneBranch == ReaderSpec => []PastCallSeesOneBranch
<1>1. ReaderInv => PastCallSeesOneBranch
    BY DEF ReaderInv
<1> QED
    BY <1>1, ReaderInvariant, PTL
=============================================================================
