---------------------------- MODULE Blockchain ----------------------------
(***************************************************************************)
(* The block store of core/blockchain.go: the block tree kept in the       *)
(* badger database, the canonical chain inside it, and the tip, its        *)
(* metadata and its state that the process keeps in memory.                *)
(*                                                                         *)
(* Every writer holds bc.mu and does all its database writes in one badger *)
(* transaction, so an operation is one step with two outcomes: the         *)
(* transaction commits, or it fails and the call returns the error.  A     *)
(* call that returns an error and changes nothing is a stuttering step.    *)
(*                                                                         *)
(* A hash is a number, compared as strings.Compare compares hashes.  The   *)
(* state a block's execution yields is the set of blocks executed to reach *)
(* it: the ledger inside it is the subject of other modules.               *)
(***************************************************************************)
EXTENDS Integers

CONSTANTS
    Hashes,     \* the hashes blocks may have
    NoHash,     \* the empty string: "no block"
    Genesis,    \* hash of the genesis block, fixed by the network config
    Works,      \* the useful work one block may carry
    Seeds       \* balances SeedBalance may be asked to set

ASSUME HashesAssumption == Hashes \subseteq Int /\ NoHash \notin Hashes
ASSUME GenesisAssumption == Genesis \in Hashes
ASSUME WorksAssumption == Works \subseteq Nat
ASSUME SeedsAssumption == Seeds \cap Hashes = {}

VARIABLES
    \* the database
    meta,       \* blocks/meta/<hash>, written with blocks/hash/<hash>
    byNumber,   \* blocks/number/<n>
    history,    \* state/history/<hash>
    latestHash, \* meta/latest_hash
    \* the process
    latest,     \* bc.latest; NoHash while the process is down
    latestMeta, \* bc.latestMeta
    state       \* bc.state

disk == <<meta, byNumber, history, latestHash>>
memory == <<latest, latestMeta, state>>
vars == <<meta, byNumber, history, latestHash, latest, latestMeta, state>>

BlockMeta == [parent : Hashes \cup {NoHash}, number : Nat, work : Nat,
              cumulative : Nat, canonical : BOOLEAN]
NoMeta == [parent |-> NoHash, number |-> 0, work |-> 0,
           cumulative |-> 0, canonical |-> FALSE]

Down == latest = NoHash

---------------------------------------------------------------------------
(***************************************************************************)
(* The ancestors of h, h included: what the walk along ParentHash in       *)
(* reorgPaths visits.  It is the least set that holds h and is closed      *)
(* under the parent pointers of m.                                         *)
(***************************************************************************)
ClosedUnderParent(m, S) ==
    \A b \in S : m[b].parent \in DOMAIN m => m[b].parent \in S

Ancestors(m, h) ==
    {a \in DOMAIN m : \A S \in SUBSET DOMAIN m :
        (h \in S /\ ClosedUnderParent(m, S)) => a \in S}

\* candidate replaces current: more work, then more blocks, then lower hash.
isPreferredTip(candidateHash, candidate, currentHash, current) ==
    \/ candidate.cumulative > current.cumulative
    \/ /\ candidate.cumulative = current.cumulative
       /\ \/ candidate.number > current.number
          \/ /\ candidate.number = current.number
             /\ candidateHash < currentHash

\* reorgPaths: the blocks the old tip loses and the ones the new tip brings.
OldPath(m, oldTip, newTip) ==
    IF oldTip = NoHash THEN {} ELSE Ancestors(m, oldTip) \ Ancestors(m, newTip)

NewPath(m, oldTip, newTip) ==
    IF oldTip = NoHash THEN {newTip} ELSE Ancestors(m, newTip) \ Ancestors(m, oldTip)

\* reorgPaths refuses two tips with no common ancestor (ErrInvalidBlock).
CommonAncestor(m, oldTip, newTip) ==
    oldTip = NoHash \/ Ancestors(m, oldTip) \cap Ancestors(m, newTip) # {}

Numbers(m, S) == {m[h].number : h \in S}

\* Mutant: the abandoned branch keeps its canonical flags.
RewrittenMetaKeepsOldFlags(m, oldTip, newTip) ==
    [h \in DOMAIN m |->
        [m[h] EXCEPT !.canonical = @ \/ h \in NewPath(m, oldTip, newTip)]]

\* rewriteCanonicalTip, its writes of blocks/meta/<hash>.
RewrittenMeta(m, oldTip, newTip) ==
    [h \in DOMAIN m |->
        [m[h] EXCEPT !.canonical =
            IF h \in NewPath(m, oldTip, newTip) THEN TRUE
            ELSE IF h \in OldPath(m, oldTip, newTip) THEN FALSE
            ELSE @]]

\* Mutant: the abandoned heights are overwritten but never deleted.
RewrittenIndexWithoutDeletes(m, index, oldTip, newTip) ==
    LET written == Numbers(m, NewPath(m, oldTip, newTip))
    IN  [n \in DOMAIN index \cup written |->
            IF n \in written
            THEN CHOOSE h \in NewPath(m, oldTip, newTip) : m[h].number = n
            ELSE index[n]]

\* rewriteCanonicalTip, its deletes and then its writes of blocks/number/<n>.
RewrittenIndex(m, index, oldTip, newTip) ==
    LET deleted == Numbers(m, OldPath(m, oldTip, newTip))
        written == Numbers(m, NewPath(m, oldTip, newTip))
    IN  [n \in (DOMAIN index \ deleted) \cup written |->
            IF n \in written
            THEN CHOOSE h \in NewPath(m, oldTip, newTip) : m[h].number = n
            ELSE index[n]]

\* f with key k set to v, as a write to the key-value store.
Put(f, k, v) == [x \in DOMAIN f \cup {k} |-> IF x = k THEN v ELSE f[x]]

---------------------------------------------------------------------------
(***************************************************************************)
(* persistBlockArtifacts followed by rewriteCanonicalTip and the write of  *)
(* meta/latest_hash; after the commit the process adopts the new tip.      *)
(***************************************************************************)
CommitTip(h, m, s) ==
    LET stored == Put(meta, h, m) IN
    /\ CommonAncestor(stored, latest, h)
    /\ meta' = RewrittenMeta(stored, latest, h)
    /\ byNumber' = RewrittenIndex(stored, byNumber, latest, h)
    /\ history' = Put(history, h, s)
    /\ latestHash' = h
    /\ latest' = h
    /\ latestMeta' = m
    /\ state' = s

\* persistBlockArtifacts alone: the block joins the tree beside the chain.
CommitSide(h, m, s) ==
    /\ meta' = Put(meta, h, m)
    /\ history' = Put(history, h, s)
    /\ UNCHANGED <<byNumber, latestHash, memory>>

GenesisMeta == [NoMeta EXCEPT !.canonical = TRUE]

\* OpenBlockchain on an empty database writes the genesis block.
OpenEmpty ==
    /\ Down
    /\ latestHash = NoHash
    /\ CommitTip(Genesis, GenesisMeta, {Genesis})

\* OpenBlockchain on a database that holds a chain: loadLocked.
OpenExisting ==
    /\ Down
    /\ latestHash # NoHash
    /\ latest' = latestHash
    /\ latestMeta' = meta[latestHash]
    /\ state' = history[latestHash]
    /\ UNCHANGED disk

\* The process stops, by Close or by a crash; memory is lost.
Stop ==
    /\ ~Down
    /\ latest' = NoHash
    /\ latestMeta' = NoMeta
    /\ state' = {}
    /\ UNCHANGED disk

\* prepareBlock: the block executes on its parent's state.
ChildMeta(p, parentMeta, w, canonical) ==
    [parent |-> p, number |-> parentMeta.number + 1, work |-> w,
     cumulative |-> parentMeta.cumulative + w, canonical |-> canonical]

\* MineBlock: h is the hash of the new block, w the work it carries.
MineBlock(h, w) ==
    /\ ~Down
    /\ h \notin DOMAIN meta
    /\ CommitTip(h, ChildMeta(latest, latestMeta, w, TRUE), state \cup {h})

\* Mutant: a block of a side branch executes on the tip's state.
LoadedStateOfTip(p) == state

\* getBlockMetaLocked and getStateSnapshotLocked prefer what is in memory.
LoadedMeta(p) == IF p = latest THEN latestMeta ELSE meta[p]
LoadedState(p) == IF p = latest THEN state ELSE history[p]

\* Mutant: only a block that extends the tip moves it; no reorganisation.
ImportBlockNeverReorganises(h, p, w) ==
    /\ ~Down
    /\ h \notin DOMAIN meta
    /\ p \in DOMAIN meta
    /\ LET child(canonical) == ChildMeta(p, LoadedMeta(p), w, canonical)
           s      == LoadedState(p) \cup {h}
       IN  \/ p = latest /\ CommitTip(h, child(TRUE), s)
           \/ p # latest /\ CommitSide(h, child(FALSE), s)

(***************************************************************************)
(* ImportBlock(block): h its hash, p its parent, w its work.  A known      *)
(* block, an unknown parent and a block prepareBlock refuses change        *)
(* nothing.                                                                *)
(***************************************************************************)
ImportBlock(h, p, w) ==
    /\ ~Down
    /\ h \notin DOMAIN meta
    /\ p \in DOMAIN meta
    /\ LET child(canonical) == ChildMeta(p, LoadedMeta(p), w, canonical)
           s      == LoadedState(p) \cup {h}
           better == isPreferredTip(h, child(FALSE), latest, latestMeta)
       IN  \/ better /\ CommitTip(h, child(TRUE), s)
           \/ ~better /\ CommitSide(h, child(FALSE), s)

\* SeedBalance assigns the balance in memory first; the write may then fail.
SeedBalance(a, committed) ==
    /\ ~Down
    /\ state' = state \cup {a}
    /\ history' = IF committed THEN Put(history, latest, state') ELSE history
    /\ UNCHANGED <<meta, byNumber, latestHash, latest, latestMeta>>

---------------------------------------------------------------------------
EmptyFunction == [h \in {} |-> NoHash]

Init ==
    /\ meta = EmptyFunction
    /\ byNumber = EmptyFunction
    /\ history = EmptyFunction
    /\ latestHash = NoHash
    /\ latest = NoHash
    /\ latestMeta = NoMeta
    /\ state = {}

Next ==
    \/ OpenEmpty
    \/ OpenExisting
    \/ Stop
    \/ \E h \in Hashes, w \in Works : MineBlock(h, w)
    \/ \E h \in Hashes, p \in Hashes, w \in Works : ImportBlock(h, p, w)
    \/ \E a \in Seeds, committed \in BOOLEAN : SeedBalance(a, committed)

Spec == Init /\ [][Next]_vars

---------------------------------------------------------------------------
(***************************************************************************)
(* Properties.                                                             *)
(***************************************************************************)

\* The shape of the database and of the process's copy of its tip.
TypeOK ==
    /\ DOMAIN meta \subseteq Hashes
    /\ meta \in [DOMAIN meta -> BlockMeta]
    /\ DOMAIN byNumber \subseteq Nat
    /\ byNumber \in [DOMAIN byNumber -> Hashes]
    /\ history \in [DOMAIN meta -> SUBSET (Hashes \cup Seeds)]
    /\ latestHash \in DOMAIN meta \cup {NoHash}
    /\ latest \in {latestHash, NoHash}
    /\ latestMeta \in BlockMeta
    /\ state \subseteq Hashes \cup Seeds

(***************************************************************************)
(* After any mix of mining, imports, reorganisations and restarts, the     *)
(* blocks flagged canonical are exactly the ancestors of the persisted     *)
(* tip: rewriteCanonicalTip clears the whole abandoned branch and flags    *)
(* the whole adopted one.                                                  *)
(***************************************************************************)
CanonicalIsAncestryOfTip ==
    {h \in DOMAIN meta : meta[h].canonical} =
        IF latestHash = NoHash THEN {} ELSE Ancestors(meta, latestHash)

(***************************************************************************)
(* blocks/number/<n> names the canonical block of height n and no height   *)
(* above the tip is left behind, also when a shorter, heavier branch wins  *)
(* (GetBlockByNumber then answers ErrBlockNotFound).                       *)
(***************************************************************************)
NumberIndexIsCanonicalChain ==
    IF latestHash = NoHash
    THEN DOMAIN byNumber = {}
    ELSE /\ DOMAIN byNumber = 0 .. meta[latestHash].number
         /\ \A n \in DOMAIN byNumber :
             /\ byNumber[n] \in Ancestors(meta, latestHash)
             /\ meta[byNumber[n]].number = n

(***************************************************************************)
(* Walking back from any stored block, on any branch, meets every height   *)
(* down to 0 exactly once and ends at the genesis block, and the work a    *)
(* block claims in total is its parent's total plus its own: what          *)
(* reorgPaths needs to find a common ancestor, and what makes the totals   *)
(* of two branches comparable.                                             *)
(***************************************************************************)
IsBlockTree(m) ==
    /\ \A h \in DOMAIN m :
        \/ /\ h = Genesis
           /\ m[h].parent = NoHash /\ m[h].number = 0 /\ m[h].cumulative = 0
        \/ /\ m[h].parent \in DOMAIN m
           /\ m[h].number = m[m[h].parent].number + 1
           /\ m[h].cumulative = m[m[h].parent].cumulative + m[h].work
    /\ \A h \in DOMAIN m :
        /\ Genesis \in Ancestors(m, h)
        /\ Numbers(m, Ancestors(m, h)) = 0 .. m[h].number
        /\ \A a, b \in Ancestors(m, h) : m[a].number = m[b].number => a = b

EveryBranchReachesGenesis ==
    /\ IsBlockTree(meta)
    /\ (latestHash = NoHash) <=> (DOMAIN meta = {})

(***************************************************************************)
(* The persisted tip beats every other block of the tree under             *)
(* isPreferredTip, whatever the order in which the blocks arrived: the     *)
(* node never sits on a lighter branch than one it has stored.             *)
(***************************************************************************)
TipIsPreferred ==
    \A h \in DOMAIN meta :
        h # latestHash =>
            isPreferredTip(latestHash, meta[latestHash], h, meta[h])

(***************************************************************************)
(* A running process agrees with its database about the tip: the tip's     *)
(* hash, its metadata (the canonical flag too) and the blocks executed to  *)
(* reach its state.                                                        *)
(***************************************************************************)
MemoryMatchesDisk ==
    ~Down =>
        /\ latest = latestHash
        /\ latestMeta = meta[latestHash]
        /\ state \cap Hashes = history[latestHash] \cap Hashes

(***************************************************************************)
(* Every stored snapshot is the state of its own branch: it was reached by *)
(* executing the ancestors of its block, all of them and nothing else,     *)
(* never a block of a sibling branch.                                      *)
(***************************************************************************)
SnapshotIsOwnBranch ==
    \A h \in DOMAIN meta : history[h] \cap Hashes = Ancestors(meta, h)

\* The inductive invariant: all of the above together.
IInv ==
    /\ TypeOK
    /\ EveryBranchReachesGenesis
    /\ CanonicalIsAncestryOfTip
    /\ NumberIndexIsCanonicalChain
    /\ TipIsPreferred
    /\ MemoryMatchesDisk
    /\ SnapshotIsOwnBranch

(***************************************************************************)
(* What ImportBlock and MineBlock may never do: forget a block, change its *)
(* header or its work, or move the persisted tip to a block that is not    *)
(* preferred to the one it leaves.                                         *)
(***************************************************************************)
TipOnlyImproves ==
    [][ /\ DOMAIN meta \subseteq DOMAIN meta'
        /\ \A h \in DOMAIN meta :
            meta'[h] = [meta[h] EXCEPT !.canonical = meta'[h].canonical]
        /\ (latestHash \notin {latestHash', NoHash}) =>
            isPreferredTip(latestHash', meta'[latestHash'],
                           latestHash, meta[latestHash]) ]_vars

(***************************************************************************)
(* The store implements HeaviestTip: seen from its database, mining,       *)
(* importing, reorganising, seeding and restarting only ever accept a      *)
(* block and leave the tip on the preferred block of the tree.             *)
(***************************************************************************)
Abs == INSTANCE HeaviestTip WITH
    known <- [h \in DOMAIN meta |->
                [parent |-> meta[h].parent, number |-> meta[h].number,
                 cumulative |-> meta[h].cumulative]],
    tip <- latestHash

ImplementsHeaviestTip == Abs!AbsSpec

=============================================================================
