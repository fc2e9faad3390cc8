------------------------------- MODULE Engine -------------------------------
(***************************************************************************)
(* The mining loop of core/engine.go against the callers that submit work  *)
(* to it and the blocks other nodes send.                                  *)
(*                                                                         *)
(* Three actors interleave:                                                *)
(*   - a submitter, one at a time since submitTransaction and              *)
(*     submitSearchTask hold e.submitMu; it reads the chain, the work in   *)
(*     flight and the two pools one lock at a time before it adds;         *)
(*   - the miner, one at a time since tryMine holds e.inFlight; MineOnce   *)
(*     takes and releases a lock at each of its steps below;               *)
(*   - the importer of other nodes' blocks, which knows nothing of pools.  *)
(*                                                                         *)
(* Of the ledger only nonces and the frontier are kept.  A block must fail *)
(* if a nonce is not the sender's next one, or a proof is for a task that  *)
(* is not open; any other block may fail too, for what is not kept (a      *)
(* balance, a name and its price, the disk).  A submission that is refused *)
(* for what is not kept leaves no trace and is not modelled.  The pools    *)
(* are sequences, as the module Pool shows them to be.                     *)
(***************************************************************************)
EXTENDS PoolOps

CONSTANTS
    Frontier,          \* search tasks that live on the chain, not in a pool
    MempoolTaskBatch,  \* e.MempoolTaskBatch
    TaskFailureLimit,  \* DefaultTaskFailureLimit
    QuarantineLimit,   \* DefaultQuarantineLimit
    CrawlOutcomes,     \* what a crawl may end with, of "ok", "retry", "terminal"
    Ownerships,        \* sets of tasks the partition may give to this node
    Branches           \* what the tip may be after another node's block

ASSUME FrontierAssumption == Frontier \cap Txs = {}
ASSUME BatchAssumption == MempoolTaskBatch \in Nat \ {0}
ASSUME FailureLimitAssumption == TaskFailureLimit \in Nat \ {0}
ASSUME OwnershipsAssumption == \A own \in Ownerships : own \subseteq Txs \cup Frontier
ASSUME BranchesAssumption ==
    Branches \subseteq [nonces : [Senders -> Nat], open : SUBSET Frontier, settled : SUBSET Frontier]

VARIABLES
    nonces,        \* chain: sender -> next nonce at the tip
    open,          \* chain: frontier tasks no proof has settled ...
    settled,       \* ... and those one has, both at the tip
    txPool,        \* e.TxPool
    taskPool,      \* e.TaskPool
    inFlight,      \* e.inFlightTransfers and e.inFlightTasks
    taskFailures,  \* e.taskFailures: task -> count
    quarantined,   \* e.quarantinedTasks, oldest first
    submit,        \* the submitter: its place and its locals
    tick,          \* the miner: its place in MineOnce and its live locals
    accepted       \* history: submitted with success

chainVars == <<nonces, open, settled>>
poolVars == <<txPool, taskPool>>
failureVars == <<taskFailures, quarantined>>
engineVars == <<chainVars, poolVars, inFlight, failureVars, accepted>>
vars == <<engineVars, submit, tick>>

NoSubmit == [pc |-> "idle"]
NoTick == [pc |-> "idle", transactions |-> <<>>, work |-> <<>>, frontier |-> {},
           failed |-> <<>>, mined |-> <<>>, proofs |-> {}, cutoffs |-> <<>>, cutting |-> <<>>]
NothingInFlight == [transfers |-> {}, tasks |-> {}]

OfSender(S, s) == {t \in S : t.from = s}

---------------------------------------------------------------------------
(***************************************************************************)
(* Submission.                                                             *)
(***************************************************************************)

\* mergeSenderPendingTransactions finds no conflict and the replay of the
\* result on the snapshot reaches this nonce.
Replays(base, found) ==
    /\ \A u, v \in found : u.nonce = v.nonce => u = v
    /\ {u.nonce : u \in found} = base .. base + Cardinality(found) - 1

\* pendingStateForSender, first the snapshot of the chain ...
ReadChain(t) ==
    /\ submit = NoSubmit
    /\ submit' = [pc |-> "readInFlight", tx |-> t, base |-> nonces[t.from], found |-> {}]
    /\ UNCHANGED <<engineVars, tick>>

\* ... then inFlightWorkForSender ...
ReadInFlight ==
    /\ submit.pc = "readInFlight"
    /\ submit' = [submit EXCEPT !.pc = "readTxPool",
            !.found = OfSender(inFlight.transfers \cup inFlight.tasks, submit.tx.from)]
    /\ UNCHANGED <<engineVars, tick>>

\* ... then TxPool.PendingForSender ...
ReadTxPool ==
    /\ submit.pc = "readTxPool"
    /\ submit' = [submit EXCEPT !.pc = "readTaskPool",
            !.found = @ \cup OfSender(Elements(txPool), submit.tx.from)]
    /\ UNCHANGED <<engineVars, tick>>

\* ... then TaskPool.PendingForSender; validatePendingTransaction decides.
ReadTaskPool ==
    /\ submit.pc = "readTaskPool"
    /\ LET found == submit.found \cup OfSender(Elements(taskPool), submit.tx.from)
       IN  submit' = IF /\ Replays(submit.base, found)
                        /\ submit.tx.nonce = submit.base + Cardinality(found)
                     THEN [submit EXCEPT !.pc = "add", !.found = {}]
                     ELSE NoSubmit
    /\ UNCHANGED <<engineVars, tick>>

\* TxPool.Add or TaskPool.Add, and e.submitMu is released.
AddToPool ==
    /\ submit.pc = "add"
    /\ LET t == submit.tx
           pool == IF t.task THEN taskPool ELSE txPool
       IN  /\ accepted' = IF Accepts(pool, t) THEN accepted \cup {t} ELSE accepted
           /\ taskPool' = IF t.task THEN Added(pool, t) ELSE taskPool
           /\ txPool' = IF t.task THEN txPool ELSE Added(pool, t)
    /\ submit' = NoSubmit
    /\ UNCHANGED <<chainVars, inFlight, failureVars, tick>>

---------------------------------------------------------------------------
(***************************************************************************)
(* One mining tick: MineOnce under tryMine's guard.                        *)
(***************************************************************************)

\* TxPool.Drain(256), which is more than any pool modelled here holds.
DrainTransfers ==
    /\ tick.pc = "idle"
    /\ tick' = [tick EXCEPT !.pc = "drainTasks", !.transactions = txPool]
    /\ txPool' = <<>>
    /\ UNCHANGED <<chainVars, taskPool, inFlight, failureVars, accepted, submit>>

\* TaskPool.DrainHighestValue.
DrainTasks ==
    /\ tick.pc = "drainTasks"
    /\ LET taken == HighestValue(taskPool, MempoolTaskBatch) IN
        /\ tick' = [tick EXCEPT !.pc = "readFrontier", !.work = taken]
        /\ taskPool' = Only(taskPool, Elements(taskPool) \ Elements(taken))
    /\ UNCHANGED <<chainVars, txPool, inFlight, failureVars, accepted, submit>>

\* frontierMiningTasks; its batch is above the frontiers modelled here.
ReadFrontier ==
    /\ tick.pc = "readFrontier"
    /\ tick' = [tick EXCEPT !.pc = "partition", !.frontier = open \ Elements(quarantined)]
    /\ UNCHANGED <<engineVars, submit>>

\* FilterWorkItems: the items this node owns, in their order.  Ownership is a
\* hash of the item over the workers connected at this tick, so from one
\* tick to the next it may change for any item.
FilterWorkItems(items, own) == Only(items, own)

\* FilterWorkItems and the requeue of what other workers own; a tick that
\* has nothing left to do ends here.
Partition(own) ==
    /\ tick.pc = "partition"
    /\ LET owned == FilterWorkItems(tick.work, own)
           unowned == FilterWorkItems(tick.work, Elements(tick.work) \ own)
           frontier == tick.frontier \cap own
       IN  /\ taskPool' = Requeued(taskPool, unowned)
           /\ tick' = IF tick.transactions = <<>> /\ owned = <<>> /\ frontier = {}
                      THEN NoTick
                      ELSE [tick EXCEPT !.pc = "publish", !.work = owned, !.frontier = frontier]
    /\ UNCHANGED <<chainVars, txPool, inFlight, failureVars, accepted, submit>>

\* The first setInFlightWork.
PublishInFlight ==
    /\ tick.pc = "publish"
    /\ inFlight' = [transfers |-> Elements(tick.transactions), tasks |-> Elements(tick.work)]
    /\ tick' = [tick EXCEPT !.pc = "crawl"]
    /\ UNCHANGED <<chainVars, poolVars, failureVars, accepted, submit>>

\* Mutant: a failed task does not hold back the later ones of its lane.
LaneOutcomesUnblocked(out) == \A t \in DOMAIN out : out[t] # "blocked"

\* mineSearchTasks: a lane is the tasks of one sender, in order; after the
\* first failure the rest of the lane is not crawled.  A frontier task is a
\* lane of its own.
LaneOutcomes(out) ==
    /\ \A i \in DOMAIN tick.work :
        out[tick.work[i]] = "blocked" <=>
            \E j \in 1 .. i - 1 : /\ tick.work[j].from = tick.work[i].from
                                  /\ out[tick.work[j]] # "ok"
    /\ \A f \in tick.frontier : out[f] # "blocked"

\* A failure that is terminal, or one too many.
Quarantines(out, t) ==
    \/ out[t] = "terminal"
    \/ out[t] = "retry" /\ taskFailures[t] + 1 >= TaskFailureLimit

\* recordQuarantinedTask for each element of q; only the newest are kept.
Recorded(list, q) ==
    LET all == list \o q
        first == IF Len(all) > QuarantineLimit THEN Len(all) - QuarantineLimit + 1 ELSE 1
    IN  SubSeq(all, first, Len(all))

OrdersOf(S) == {s \in [1 .. Cardinality(S) -> S] : Elements(s) = S}

BelowCutoff(cutoffs, t) == t.from \in DOMAIN cutoffs => t.nonce < cutoffs[t.from]

\* Mutant: the transfers behind a quarantined task stay in the block.
KeepAllTransactions(cutoffs, q) == q

\* filterTransactionsBySenderNonceCutoff.
FilterTransactions(cutoffs, q) == Only(q, {t \in Elements(q) : BelowCutoff(cutoffs, t)})

\* The tasks of the pool that fail for good ...
Unminable(out) == {t \in Elements(tick.work) : Quarantines(out, t)}

\* ... the lowest nonce of each of their senders, from which it is cut ...
QuarantineCutoffs(bad) ==
    [s \in {t.from : t \in bad} |->
        CHOOSE n \in {t.nonce : t \in OfSender(bad, s)} : \A u \in OfSender(bad, s) : n <= u.nonce]

\* ... and the tasks that are quarantined with them.
Aside(out) ==
    Unminable(out) \cup
    {t \in Elements(tick.work) :
        out[t] = "blocked" /\ t.from \in DOMAIN QuarantineCutoffs(Unminable(out))}

(***************************************************************************)
(* The crawls end (each within TaskTimeout) and MineOnce sorts their       *)
(* outcomes: proofs, retries, quarantine, and the nonce from which each    *)
(* sender of a quarantined task is cut.                                    *)
(***************************************************************************)
Crawl(out) ==
    /\ tick.pc = "crawl"
    /\ LaneOutcomes(out)
    /\ LET work == Elements(tick.work)
           cutoffs == QuarantineCutoffs(Unminable(out))
           kept == FilterTransactions(cutoffs, tick.transactions)
       IN  /\ \E order \in OrdersOf(DOMAIN cutoffs) :
                tick' = [tick EXCEPT
                    !.pc = IF order = <<>> THEN "requeueFailed" ELSE "cutTasks",
                    !.transactions = kept, !.work = <<>>, !.frontier = {},
                    !.failed = Only(tick.work, {t \in work : out[t] # "ok"} \ Aside(out)),
                    !.mined = Only(tick.work, {t \in work : out[t] = "ok"}),
                    !.proofs = {f \in tick.frontier : out[f] = "ok"},
                    !.cutoffs = cutoffs,
                    !.cutting = order]
           /\ taskFailures' = [t \in DOMAIN taskFailures |->
                IF t \notin DOMAIN out \/ out[t] = "blocked" THEN taskFailures[t]
                ELSE IF out[t] = "retry" /\ ~Quarantines(out, t) THEN taskFailures[t] + 1
                ELSE 0]
           /\ \E order \in OrdersOf({f \in tick.frontier : Quarantines(out, f)}) :
                quarantined' = Recorded(quarantined, Only(tick.work, Aside(out)) \o order)
    /\ UNCHANGED <<chainVars, poolVars, inFlight, accepted, submit>>

\* RemoveSenderFromNonce on a pool: what goes and what stays.
FromCutoff(q, s) == {t \in Elements(q) : t.from = s /\ t.nonce >= tick.cutoffs[s]}
Cut(q, s) == Only(q, FromCutoff(q, s))
Uncut(q, s) == Only(q, Elements(q) \ FromCutoff(q, s))

\* For each sender that was cut: its tasks leave the pool for quarantine ...
CutTasks ==
    /\ tick.pc = "cutTasks"
    /\ LET s == Head(tick.cutting) IN
        /\ taskPool' = Uncut(taskPool, s)
        /\ quarantined' = Recorded(quarantined, Cut(taskPool, s))
    /\ tick' = [tick EXCEPT !.pc = "cutTransfers"]
    /\ UNCHANGED <<chainVars, txPool, inFlight, taskFailures, accepted, submit>>

\* ... and its transfers are dropped.
CutTransfers ==
    /\ tick.pc = "cutTransfers"
    /\ txPool' = Uncut(txPool, Head(tick.cutting))
    /\ tick' = [tick EXCEPT !.cutting = Tail(@),
            !.pc = IF Tail(tick.cutting) = <<>> THEN "requeueFailed" ELSE "cutTasks"]
    /\ UNCHANGED <<chainVars, taskPool, inFlight, failureVars, accepted, submit>>

RequeueFailed ==
    /\ tick.pc = "requeueFailed"
    /\ taskPool' = Requeued(taskPool, tick.failed)
    /\ tick' = [tick EXCEPT !.pc = "publishMined", !.failed = <<>>]
    /\ UNCHANGED <<chainVars, txPool, inFlight, failureVars, accepted, submit>>

\* The transactions of the block, transfers first.
BlockTransactions == tick.transactions \o tick.mined


\* The second setInFlightWork; without transactions and proofs no block.
PublishMined ==
    /\ tick.pc = "publishMined"
    /\ inFlight' = [transfers |-> Elements(tick.transactions), tasks |-> Elements(tick.mined)]
    /\ tick' = [tick EXCEPT !.pc =
            IF BlockTransactions = <<>> /\ tick.proofs = {} THEN "clear" ELSE "mine"]
    /\ UNCHANGED <<chainVars, poolVars, failureVars, accepted, submit>>

\* The nonces of the block continue the chain at its tip, in the block's order.
Executes(block) ==
    \A i \in DOMAIN block :
        block[i].nonce = nonces[block[i].from] +
            Cardinality({j \in 1 .. i - 1 : block[j].from = block[i].from})

NoncesAfter(block) ==
    [s \in Senders |-> nonces[s] + Cardinality(FromSender(block, s))]

\* The tasks that the pages behind the block's proofs may open: none that the
\* chain has had.
Spawns ==
    IF tick.mined = <<>> /\ tick.proofs = {} THEN {{}}
    ELSE SUBSET (Frontier \ (open \cup settled))

(***************************************************************************)
(* Blockchain.MineBlock on the tip of the moment: the block executes and   *)
(* becomes the tip, or it is refused.  Nonces and proofs that do not fit   *)
(* always refuse it; a balance, the price or owner of a name and a failed  *)
(* write may.                                                              *)
(***************************************************************************)
MineBlock ==
    /\ tick.pc = "mine"
    /\ \/ /\ Executes(BlockTransactions) /\ tick.proofs \subseteq open
          /\ nonces' = NoncesAfter(BlockTransactions)
          /\ \E spawned \in Spawns : open' = (open \ tick.proofs) \cup spawned
          /\ settled' = settled \cup tick.proofs
          /\ tick' = [NoTick EXCEPT !.pc = "clear"]
       \/ /\ tick' = [tick EXCEPT !.pc = "requeueTransfers", !.proofs = {}, !.cutoffs = <<>>]
          /\ UNCHANGED chainVars
    /\ UNCHANGED <<poolVars, inFlight, failureVars, accepted, submit>>

\* Mutant: a failed block's transfers are not given back.
RequeueTransfersForgotten ==
    /\ tick.pc = "requeueTransfers"
    /\ tick' = [tick EXCEPT !.pc = "requeueTasks"]
    /\ UNCHANGED <<engineVars, submit>>

\* MineBlock failed: the work goes back, transfers and then tasks.
RequeueTransfers ==
    /\ tick.pc = "requeueTransfers"
    /\ txPool' = Requeued(txPool, tick.transactions)
    /\ tick' = [tick EXCEPT !.pc = "requeueTasks", !.transactions = <<>>]
    /\ UNCHANGED <<chainVars, taskPool, inFlight, failureVars, accepted, submit>>

RequeueTasks ==
    /\ tick.pc = "requeueTasks"
    /\ taskPool' = Requeued(taskPool, tick.mined)
    /\ tick' = [NoTick EXCEPT !.pc = "clear"]
    /\ UNCHANGED <<chainVars, txPool, inFlight, failureVars, accepted, submit>>

\* The deferred clearInFlightWork, and tryMine's release of e.inFlight.
ClearInFlight ==
    /\ tick.pc = "clear"
    /\ inFlight' = NothingInFlight
    /\ tick' = NoTick
    /\ UNCHANGED <<chainVars, poolVars, failureVars, accepted, submit>>

---------------------------------------------------------------------------
(***************************************************************************)
(* ImportBlock of another node's block that is preferred to the tip: the   *)
(* next block of the chain, or the end of a heavier branch.  The engine    *)
(* sees of it only the state at the new tip, which may be behind the old   *)
(* one: nonces go back, settled tasks are open again, and tasks that the   *)
(* old branch had opened are gone.  Nobody tells the engine, and no pool   *)
(* takes back the transactions of the blocks that were left.               *)
(***************************************************************************)
ImportBlock(tip) ==
    /\ nonces' = tip.nonces /\ open' = tip.open /\ settled' = tip.settled
    /\ UNCHANGED <<poolVars, inFlight, failureVars, accepted, submit, tick>>

---------------------------------------------------------------------------
Init ==
    /\ nonces = [s \in Senders |-> 0]
    /\ open = Frontier /\ settled = {}
    /\ txPool = <<>> /\ taskPool = <<>>
    /\ inFlight = NothingInFlight
    /\ taskFailures = [t \in {u \in Txs : u.task} \cup Frontier |-> 0]
    /\ quarantined = <<>>
    /\ submit = NoSubmit
    /\ tick = NoTick
    /\ accepted = {}

Submitter ==
    \/ \E t \in Txs : ReadChain(t)
    \/ ReadInFlight
    \/ ReadTxPool
    \/ ReadTaskPool
    \/ AddToPool

Outcomes ==
    [Elements(tick.work) \cup tick.frontier -> CrawlOutcomes \cup {"blocked"}]

Miner ==
    \/ DrainTransfers
    \/ DrainTasks
    \/ ReadFrontier
    \/ \E own \in Ownerships : Partition(own)
    \/ PublishInFlight
    \/ \E out \in Outcomes : Crawl(out)
    \/ CutTasks
    \/ CutTransfers
    \/ RequeueFailed
    \/ PublishMined
    \/ MineBlock
    \/ RequeueTransfers
    \/ RequeueTasks
    \/ ClearInFlight

Importer == \E tip \in Branches : ImportBlock(tip)

Next == Submitter \/ Miner \/ Importer

\* The miner runs: the ticker fires, the locks are released after a few
\* statements and each crawl ends by TaskTimeout.  Nothing else is assumed.
Spec == Init /\ [][Next]_vars /\ WF_vars(Miner)

---------------------------------------------------------------------------
(***************************************************************************)
(* Properties.                                                             *)
(***************************************************************************)
\* The work MineOnce has taken out of the pools and not yet disposed of.
Hands ==
    Elements(tick.transactions) \cup Elements(tick.work) \cup
    Elements(tick.mined) \cup Elements(tick.failed)

\* What the node holds.
Held == Elements(txPool) \cup Elements(taskPool) \cup Hands

\* t goes into a block of this node in this step.
IsMined(t) == tick.pc = "mine" /\ tick'.pc = "clear" /\ t \in Elements(BlockTransactions)

\* t goes in this step with a quarantined task: with the crawls of the tick or
\* out of a pool.
IsCut(t) ==
    /\ tick.pc \in {"crawl", "cutTasks", "cutTransfers"} /\ tick' # tick
    /\ ~BelowCutoff(tick'.cutoffs, t)

(***************************************************************************)
(* With pools that do not overflow, what is accepted is kept until it is   *)
(* mined.  A step takes in what it accepts; and what the node holds, in a  *)
(* pool or in the miner's hands, it gives up only in a block of its own,   *)
(* from the cutoff on of a sender whose task is quarantined, or because    *)
(* another transaction with the same nonce is held.  Failed crawls, failed *)
(* blocks, partition skips, races with submitters, and imports that        *)
(* overtake the work or reorganise the chain under a tick lose nothing.    *)
(* Of mined work nothing is claimed: when a reorganisation leaves its      *)
(* block, no pool gets it back.                                            *)
(***************************************************************************)
AcceptedWorkIsKeptUntilMined ==
    [][/\ accepted' \subseteq accepted \cup Held'
       /\ \A t \in Held :
            \/ t \in Held'
            \/ IsMined(t)
            \/ IsCut(t)
            \/ \E u \in Held' : Slot(u) = Slot(t)]_vars

(***************************************************************************)
(* Concurrent lanes do not reorder a sender: the tasks of a sender that    *)
(* go into a block are in nonce order, and none of them comes after a task *)
(* of the same sender that failed in this tick.                            *)
(***************************************************************************)
MinedTasksKeepSenderOrder ==
    /\ \A i, j \in DOMAIN tick.mined :
        (i < j /\ tick.mined[i].from = tick.mined[j].from)
            => tick.mined[i].nonce < tick.mined[j].nonce
    /\ \A t \in Elements(tick.mined), u \in Elements(tick.failed) :
        t.from = u.from => t.nonce < u.nonce

(***************************************************************************)
(* A block holds nothing of a sender from the nonce on that this tick      *)
(* quarantined, neither tasks nor transfers.                               *)
(***************************************************************************)
BlockRespectsCutoffs ==
    tick.pc = "mine" =>
        \A t \in Elements(BlockTransactions) : BelowCutoff(tick.cutoffs, t)

\* MineBlock has just refused a block.
BlockFails == tick.pc = "requeueTransfers"


---------------------------------------------------------------------------
(***************************************************************************)
(* What the repository says of the engine and the code does not do.        *)
(***************************************************************************)

(***************************************************************************)
(* docs/minerbox-roadmap.md: "workers run concurrently without violating   *)
(* sender ordering or corrupting block assembly".  The block handed to     *)
(* MineBlock has each sender's transactions in nonce order.                *)
(***************************************************************************)
BlockKeepsSenderOrder ==
    tick.pc = "mine" =>
        \A i, j \in DOMAIN BlockTransactions :
            (i < j /\ BlockTransactions[i].from = BlockTransactions[j].from)
                => BlockTransactions[i].nonce < BlockTransactions[j].nonce

(***************************************************************************)
(* TestPendingNonceIncludesInFlightSearchTasks: PendingNonce counts work   *)
(* that is being mined, so no caller is given a nonce that is already      *)
(* taken.  No nonce of a sender is both in a pool and in the miner's       *)
(* hands.                                                                  *)
(***************************************************************************)
HeldNoncesAreNotGivenAgain ==
    \A t \in Hands, u \in Elements(txPool) \cup Elements(taskPool) :
        Slot(t) = Slot(u) => t = u
=============================================================================
