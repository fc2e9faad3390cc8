---------------------------- MODULE HeaviestTip ----------------------------
(***************************************************************************)
(* What the block store promises to the rest of the node, without database *)
(* keys, canonical flags, reorganisation paths, memory or restarts: it     *)
(* accumulates a tree of blocks and its tip is the one block of the tree   *)
(* that is preferred to all others.  Restarts are invisible.               *)
(***************************************************************************)
EXTENDS Integers

CONSTANTS Hashes, NoHash, Genesis, Works

VARIABLES
    known,  \* hash -> [parent, number, cumulative] of every accepted block
    tip     \* the hash of the chain's head, NoHash before genesis

absVars == <<known, tip>>

\* More cumulative work, then more blocks, then the lower hash.
Preferred(k, a, b) ==
    \/ k[a].cumulative > k[b].cumulative
    \/ k[a].cumulative = k[b].cumulative /\ k[a].number > k[b].number
    \/ k[a].cumulative = k[b].cumulative /\ k[a].number = k[b].number /\ a < b

IsTip(k, t) == t \in DOMAIN k /\ \A h \in DOMAIN k \ {t} : Preferred(k, t, h)

AbsInit == known = [h \in {} |-> NoHash] /\ tip = NoHash

StartChain ==
    /\ DOMAIN known = {}
    /\ known' = [h \in {Genesis} |->
                    [parent |-> NoHash, number |-> 0, cumulative |-> 0]]
    /\ tip' = Genesis

\* A block h with work w on the known block p is accepted.
AcceptBlock(h, p, w) ==
    /\ h \notin DOMAIN known
    /\ p \in DOMAIN known
    /\ known' = [x \in DOMAIN known \cup {h} |->
                    IF x = h
                    THEN [parent |-> p, number |-> known[p].number + 1,
                          cumulative |-> known[p].cumulative + w]
                    ELSE known[x]]
    /\ IsTip(known', tip')

AbsNext ==
    \/ StartChain
    \/ \E h, p \in Hashes, w \in Works : AcceptBlock(h, p, w)

AbsSpec == AbsInit /\ [][AbsNext]_absVars
=============================================================================
