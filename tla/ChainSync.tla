----------------------------- MODULE ChainSync -----------------------------
(***************************************************************************)
(* Chain synchronisation (core/p2p.go): SyncChain asks one peer after the  *)
(* other for the blocks above the local height and hands them, one by one, *)
(* to ImportRemoteBlock, while the gossip reader hands it blocks of its    *)
(* own; handleChainSync answers on the peer's side.                        *)
(*                                                                         *)
(* handleChainSync reads the height and then block after block, each read  *)
(* under a lock of its own, while the peer's chain may grow or reorganise. *)
(* A peer's store is the set of blocks it has accepted; its chain is the   *)
(* ancestry of the preferred one (HeaviestTip).                            *)
(*                                                                         *)
(* Scores, bans and rate limits are PeerGuard's subject: here the peers    *)
(* come in any order, and any peer may be banned or may refuse to answer.  *)
(***************************************************************************)
EXTENDS BlockImport

CONSTANTS
    Peers,
    Starts,     \* what the peers may know at the start: peer -> blocks
    Number,     \* block -> its height
    Total,      \* block -> its cumulative work
    BatchLimit, \* blocks in one response
    MaxSyncs,   \* bound: calls of SyncChain
    MaxAccepts, \* bound: blocks the peers accept after the start
    MaxGossip,  \* bound: gossiped blocks
    gossip,     \* the worker that reads the block topic
    sync        \* the worker that runs SyncChain

ASSUME NumberAssumption ==
    /\ Number \in [Blocks \cup {Genesis} -> Nat] /\ Number[Genesis] = 0
    /\ \A b \in Blocks : Number[b] = Number[Parent[b]] + 1
ASSUME TotalAssumption ==
    /\ Total \in [Blocks \cup {Genesis} -> Nat]
    /\ \A b \in Blocks : Total[b] >= Total[Parent[b]]
ASSUME PeersAssumption == IsFiniteSet(Peers)
ASSUME BatchLimitAssumption == BatchLimit \in Nat \ {0}
ASSUME WorkersAssumption == Workers = {gossip, sync} /\ gossip # sync

VARIABLES
    known,      \* peer -> the blocks it has accepted
    call,       \* SyncChain: its place and its locals; joined and steady are
                \* history: the branches met at its start, the peer's chain
                \* has not changed since
    budget      \* what is left of the bounds: calls, accepts, gossip

syncVars == <<known, call, budget>>
allVars == <<vars, syncVars>>

IdleCall == [pc |-> "idle", peers |-> <<>>, height |-> 0, next |-> 0,
             latest |-> 0, blocks |-> <<>>, joined |-> FALSE, steady |-> TRUE]

---------------------------------------------------------------------------
(***************************************************************************)
(* The chain of a node that has accepted the blocks S.                     *)
(***************************************************************************)
Heavier(a, b) ==
    \/ Total[a] > Total[b]
    \/ Total[a] = Total[b] /\ Number[a] > Number[b]
    \/ Total[a] = Total[b] /\ Number[a] = Number[b] /\ a < b

Trees == {S \in SUBSET (Blocks \cup {Genesis}) :
            Genesis \in S /\ \A b \in S \ {Genesis} : Parent[b] \in S}

Tip == [S \in Trees |-> CHOOSE t \in S : \A b \in S \ {t} : Heavier(t, b)]

\* Its blocks by height, 0 to the height of the tip.
Chain ==
    [S \in Trees |->
        LET path == {Genesis} \cup (IF Tip[S] = Genesis THEN {} ELSE Ancestry[Tip[S]])
        IN  [n \in 0 .. Number[Tip[S]] |-> CHOOSE b \in path : Number[b] = n]]

HasNumber(p, n) == n \in DOMAIN Chain[known[p]]
GetBlockByNumber(p, n) == Chain[known[p]][n]

ASSUME StartsAssumption == Starts \subseteq [Peers -> Trees]

---------------------------------------------------------------------------
(***************************************************************************)
(* The calling side.                                                       *)
(***************************************************************************)
Peer == Head(call.peers)

Orders == {p \in [1 .. Cardinality(Peers) -> Peers] :
            \A i, j \in DOMAIN p : p[i] = p[j] => i = j}

\* SyncChain is called with the height of the local tip.
StartSync(order) ==
    /\ call.pc = "idle"
    /\ budget.syncs > 0
    /\ budget' = [budget EXCEPT !.syncs = @ - 1]
    /\ call' = [IdleCall EXCEPT !.pc = "peer", !.peers = order,
                                !.height = Number[Tip[stored]]]
    /\ UNCHANGED <<vars, known>>

\* The attempt with this peer is over; height is kept for the next one.
NextPeer == [IdleCall EXCEPT !.pc = "peer", !.peers = Tail(call.peers), !.height = call.height]

\* penalizePeer and an error return.
Fail ==
    /\ call' = NextPeer
    /\ UNCHANGED <<vars, known, budget>>

\* syncFromPeer starts above the height reached so far.
StartPeer ==
    /\ call.pc = "peer"
    /\ call.peers # <<>>
    /\ call' = [call EXCEPT !.pc = "request", !.next = call.height + 1,
                             !.joined = HasNumber(Peer, call.height)
                                        /\ GetBlockByNumber(Peer, call.height) \in stored]
    /\ UNCHANGED <<vars, known, budget>>

\* The peer is banned: it is skipped.
SkipPeer ==
    /\ call.pc = "peer"
    /\ call.peers # <<>>
    /\ call' = NextPeer
    /\ UNCHANGED <<vars, known, budget>>

EndSync ==
    /\ call.pc = "peer"
    /\ call.peers = <<>>
    /\ call' = IdleCall
    /\ UNCHANGED <<vars, known, budget>>

\* requestBlocks fails: no stream, a deadline, an answer cut short.
RequestFails == call.pc = "request" /\ Fail

\* The peer answers that it is limited, that the caller is banned, ...
PeerRefuses == call.pc = "request" /\ Fail

---------------------------------------------------------------------------
(***************************************************************************)
(* handleChainSync on the peer's side.                                     *)
(***************************************************************************)

\* LatestBlock; above it there is nothing to serve.
ServeLatest ==
    /\ call.pc = "request"
    /\ LET top == Number[Tip[known[Peer]]] IN
        call' = IF call.next > top THEN [call EXCEPT !.pc = "ended", !.latest = top]
                ELSE [call EXCEPT !.pc = "serve", !.latest = top]
    /\ UNCHANGED <<vars, known, budget>>

\* The height the loop has come to.
Wanted == call.next + Len(call.blocks)

Served(blocks) ==
    [call EXCEPT !.blocks = blocks,
        !.pc = IF Wanted = call.latest \/ Len(blocks) = BatchLimit THEN "validate" ELSE "serve"]

\* Mutant: a height that has disappeared is left out of the answer.
ServeBlockSkipsMissing ==
    /\ call.pc = "serve"
    /\ call' = Served(IF HasNumber(Peer, Wanted)
                      THEN Append(call.blocks, GetBlockByNumber(Peer, Wanted))
                      ELSE Append(call.blocks, Tip[known[Peer]]))
    /\ UNCHANGED <<vars, known, budget>>

\* GetBlockByNumber of the next height.
ServeBlock ==
    /\ call.pc = "serve"
    /\ HasNumber(Peer, Wanted)
    /\ call' = Served(Append(call.blocks, GetBlockByNumber(Peer, Wanted)))
    /\ UNCHANGED <<vars, known, budget>>

\* The height has gone meanwhile: the answer is an error, and so is charged.
ServeMissing ==
    /\ call.pc = "serve"
    /\ ~HasNumber(Peer, Wanted)
    /\ Fail

\* The answer would grow too large: it is sent as it is.
ServeFull ==
    /\ call.pc = "serve"
    /\ call.blocks # <<>>
    /\ call' = [call EXCEPT !.pc = "validate"]
    /\ UNCHANGED <<vars, known, budget>>

---------------------------------------------------------------------------
\* validateSyncResponse: the heights follow each other.
Contiguous(start, blocks) ==
    \A i \in DOMAIN blocks : Number[blocks[i]] = start + i - 1

ValidateSyncResponse ==
    /\ call.pc = "validate"
    /\ \/ ~Contiguous(call.next, call.blocks) /\ Fail
       \/ /\ Contiguous(call.next, call.blocks)
          /\ call' = [call EXCEPT !.pc = "import"]
          /\ UNCHANGED <<vars, known, budget>>

\* importBlock(block): ImportRemoteBlock runs in this goroutine.
ImportStarts ==
    /\ call.pc = "import"
    /\ call.blocks # <<>>
    /\ Receive(sync, Head(call.blocks))
    /\ call' = [call EXCEPT !.pc = "importing"]
    /\ UNCHANGED <<known, budget>>

\* It returned no error: imported, known already, or only buffered.
ImportReturns ==
    /\ call.pc = "importing"
    /\ worker[sync].pc = "idle"
    /\ LET n == Number[Head(call.blocks)] IN
        call' = [call EXCEPT !.pc = "import", !.blocks = Tail(call.blocks),
                             !.height = n, !.next = n + 1]
    /\ UNCHANGED <<vars, known, budget>>

\* It returned an error: the attempt ends here.
ImportRefused ==
    /\ Refuse(sync)
    /\ call' = NextPeer
    /\ UNCHANGED <<known, budget>>

\* Mutant: a full response is taken for the last one.
BatchDoneNeverAsksAgain ==
    /\ call.pc = "import"
    /\ call.blocks = <<>>
    /\ call' = [call EXCEPT !.pc = "ended"]
    /\ UNCHANGED <<vars, known, budget>>

\* The response is used up: ask again up to the height the peer named.
BatchDone ==
    /\ call.pc = "import"
    /\ call.blocks = <<>>
    /\ call' = [call EXCEPT !.pc = IF call.next > call.latest THEN "ended" ELSE "request"]
    /\ UNCHANGED <<vars, known, budget>>

\* rewardPeer, and on to the next peer.
PeerDone ==
    /\ call.pc = "ended"
    /\ call' = NextPeer
    /\ UNCHANGED <<vars, known, budget>>

---------------------------------------------------------------------------
\* A peer mines or imports a block; its chain may change under the server.
Accept(p, b) ==
    /\ budget.accepts > 0
    /\ b \notin known[p] /\ Parent[b] \in known[p]
    /\ known' = [known EXCEPT ![p] = @ \cup {b}]
    /\ budget' = [budget EXCEPT !.accepts = @ - 1]
    /\ call' = [call EXCEPT !.steady = @ /\ (call.peers = <<>> \/ Peer # p)]
    /\ UNCHANGED vars

\* consumeBlocks hands a gossiped block to ImportRemoteBlock.
Gossip(b) ==
    /\ budget.gossip > 0
    /\ Receive(gossip, b)
    /\ budget' = [budget EXCEPT !.gossip = @ - 1]
    /\ UNCHANGED <<known, call>>

ImportStep(w) ==
    \/ CheckBlock(w)
    \/ CheckParent(w)
    \/ Decide(w)
    \/ Import(w)
    \/ TakeChildren(w)

SyncInit ==
    /\ Init
    /\ known \in Starts
    /\ call = IdleCall
    /\ budget = [syncs |-> MaxSyncs, accepts |-> MaxAccepts, gossip |-> MaxGossip]

SyncStep ==
    \/ StartPeer
    \/ SkipPeer
    \/ EndSync
    \/ RequestFails
    \/ PeerRefuses
    \/ ServeLatest
    \/ ServeBlock
    \/ ServeMissing
    \/ ServeFull
    \/ ValidateSyncResponse
    \/ ImportStarts
    \/ ImportReturns
    \/ ImportRefused
    \/ BatchDone
    \/ PeerDone
    \/ ImportStep(sync) /\ UNCHANGED syncVars

GossipStep == (ImportStep(gossip) \/ Refuse(gossip)) /\ UNCHANGED syncVars

SyncNext ==
    \/ \E order \in Orders : StartSync(order)
    \/ SyncStep
    \/ \E p \in Peers, b \in Blocks : Accept(p, b)
    \/ \E b \in Blocks : Gossip(b)
    \/ GossipStep

(***************************************************************************)
(* A started call goes on: streams have deadlines, and the locks are only  *)
(* held for one read or write.  Nobody has to send a block, start a sync   *)
(* or accept anything.                                                     *)
(***************************************************************************)
SyncSpec ==
    /\ SyncInit /\ [][SyncNext]_allVars
    /\ WF_allVars(SyncStep) /\ WF_allVars(GossipStep)

---------------------------------------------------------------------------
(***************************************************************************)
(* Properties.                                                             *)
(***************************************************************************)

(***************************************************************************)
(* An honest peer whose chain grows or reorganises while it answers never  *)
(* sends heights with a gap, the offence syncFromPeer charges most; a      *)
(* height it can no longer find is answered with an error, and only when   *)
(* its chain has changed since the attempt began.                          *)
(***************************************************************************)
HonestPeerIsNotBlamed ==
    /\ call.pc = "validate" => Contiguous(call.next, call.blocks)
    /\ (call.pc = "serve" /\ ~HasNumber(Peer, Wanted)) => ~call.steady

\* An attempt ended without an error against a peer that stayed as it was and
\* had the block where the attempt began.
CleanAttempt == call.pc = "ended" /\ call.steady /\ call.joined

PeerChainIsHere == Tip[known[Peer]] \in stored

(***************************************************************************)
(* Against peers that run handleChainSync, an attempt of syncFromPeer that *)
(* ends without an error has brought the whole chain of the peer, whatever *)
(* gossip imports, buffers or drops beside it, if that chain did not       *)
(* change meanwhile and its block at the height where the attempt began    *)
(* was stored here.  (On another branch at that height the ancestors are   *)
(* never asked for, and the blocks stay in the buffer.)  And SyncChain     *)
(* returns, unless its peers take in new blocks for ever.  The exception   *)
(* is needed, and nothing is claimed of a peer that answers otherwise: the *)
(* loop has no limit of its own, it asks on up to the height that the last *)
(* response named, and a block that was only buffered moves it on too.     *)
(***************************************************************************)
SyncReachesPeer ==
    /\ [](CleanAttempt => PeerChainIsHere)
    /\ []<><<TRUE>>_known \/ ((call.pc # "idle") ~> (call.pc = "idle"))

---------------------------------------------------------------------------
(***************************************************************************)
(* The inductive invariant of SyncChain.                                   *)
(***************************************************************************)
CallTypeOK ==
    /\ known \in [Peers -> Trees]
    /\ call \in [pc : {"idle", "peer", "request", "serve", "validate", "import",
                        "importing", "ended"},
                 peers : Seq(Peers), height : Nat, next : Nat, latest : Nat,
                 blocks : Seq(Blocks), joined : BOOLEAN, steady : BOOLEAN]

Attempting == call.pc \notin {"idle", "peer"}

\* Heights follow each other, and what was served is used up in its order.
CallControl ==
    /\ worker[sync].pc # "idle" => call.pc = "importing"
    /\ ~Attempting => call.blocks = <<>>
    /\ Attempting => /\ call.peers # <<>>
                     /\ call.next >= 1
                     /\ Contiguous(call.next, call.blocks)
    /\ call.pc \in {"request", "ended"} => call.blocks = <<>>
    /\ call.pc = "importing" => call.blocks # <<>>
    /\ call.pc = "serve" => Wanted <= call.latest
    /\ call.pc = "ended" => call.next > call.latest

\* A peer that has not changed still has the height it named.
SteadyHeight ==
    (call.steady /\ Attempting /\ call.pc # "request") =>
        call.latest = Number[Tip[known[Peer]]]

\* The first block of the response has been stored, or the worker is at it
\* and has found its parent.
HeadGetsStored ==
    \/ Head(call.blocks) \in stored
    \/ /\ worker[sync].queue = <<Head(call.blocks)>>
       /\ worker[sync].pc \in {"hasBlock", "hasParent", "decide", "import"}
       /\ worker[sync].pc \in {"decide", "import"} => worker[sync].hasParent
       /\ worker[sync].pc \in {"hasParent", "decide"} => ~worker[sync].hasBlock

\* An attempt that began on a common block follows the peer's chain.
JoinedFollowsChain ==
    (call.steady /\ call.joined /\ Attempting) =>
        /\ HasNumber(Peer, call.next - 1)
        /\ GetBlockByNumber(Peer, call.next - 1) \in stored
        /\ \A i \in DOMAIN call.blocks :
            /\ HasNumber(Peer, call.next + i - 1)
            /\ call.blocks[i] = GetBlockByNumber(Peer, call.next + i - 1)
        /\ call.pc = "importing" => HeadGetsStored

SyncInv ==
    /\ ImportInv
    /\ CallTypeOK
    /\ CallControl
    /\ SteadyHeight
    /\ JoinedFollowsChain
=============================================================================
