---------------------------- MODULE ChainReaders ----------------------------
(***************************************************************************)
(* The queries of core/blockchain.go that walk the chain: one transaction  *)
(* or one proof by its hash, the recent activity, the activity of an       *)
(* address, and a contract call at a past block.                           *)
(*                                                                         *)
(* None of them holds bc.mu for the whole walk.  Each takes it once for    *)
(* LatestBlock and once more for every GetBlockByNumber, so that blocks    *)
(* may be mined or imported and the chain may reorganise between two       *)
(* reads; an index entry that is gone by then is skipped.                  *)
(*                                                                         *)
(* One query is in flight beside the store's writers.  The transaction     *)
(* asked for (the task of the address, the task of the proof) is in the    *)
(* blocks Carriers, on any branch.                                         *)
(***************************************************************************)
EXTENDS Blockchain, Sequences

CONSTANTS
    Carriers,   \* the blocks that carry the transaction
    Limit       \* normalizeActivityLimit: the most items of an answer

ASSUME CarriersAssumption == Carriers \subseteq Hashes \ {Genesis}
ASSUME LimitAssumption == Limit \in Nat \ {0}

VARIABLES
    reader,     \* the query in flight and its answer so far
    seen,       \* history: blocks canonical at some moment of the query
    stayed      \* history: blocks canonical ever since the query started

readerVars == <<reader, seen, stayed>>
allVars == <<vars, readerVars>>

Queries == {"lookup", "recent", "address", "call"}

IdleReader == [op |-> "idle", pc |-> "idle", top |-> 0, number |-> 0,
               found |-> <<>>, proofs |-> <<>>, state |-> {}]

Listed(q) == {q[i] : i \in DOMAIN q}

CanonicalChain == {h \in DOMAIN meta : meta[h].canonical}

---------------------------------------------------------------------------
\* GetBlockByNumber: the tip from memory, any other height from the index.
GetBlockByNumber(n) ==
    IF n = latestMeta.number THEN latest
    ELSE IF n \in DOMAIN byNumber THEN byNumber[n]
    ELSE NoHash

MaxItems == IF reader.op = "lookup" THEN 1 ELSE Limit

\* Does block h hold something the query lists?
Matches(h) == IF reader.op = "recent" THEN h # Genesis ELSE h \in Carriers

\* The proofs of an address are those of the tasks its transactions posted.
MatchesProof(h) == reader.found # <<>> /\ h \in Carriers

\* A query starts and reads LatestBlock.
Start(op) ==
    /\ ~Down
    /\ reader.op = "idle"
    /\ reader' = [IdleReader EXCEPT !.op = op, !.pc = "scan",
                                    !.top = latestMeta.number, !.number = latestMeta.number]
    /\ seen' = CanonicalChain
    /\ stayed' = CanonicalChain
    /\ UNCHANGED vars

\* A call at an explicit height looks that height up, whatever the tip.
StartCall(n) ==
    /\ ~Down
    /\ reader.op = "idle"
    /\ reader' = [IdleReader EXCEPT !.op = "call", !.pc = "block", !.number = n]
    /\ seen' = CanonicalChain
    /\ stayed' = CanonicalChain
    /\ UNCHANGED vars

\* The first walk is over: an address query goes on with the proofs.
AfterScan(found) ==
    IF reader.op = "address"
    THEN [reader EXCEPT !.found = found, !.pc = "proofs", !.number = reader.top]
    ELSE [reader EXCEPT !.found = found, !.pc = "done"]

\* Mutant: heights are counted down from where the tip is by now.
ScanFromMovingTip ==
    /\ reader.pc = "scan"
    /\ LET h == GetBlockByNumber(latestMeta.number + reader.number - reader.top)
           found == IF h # NoHash /\ Matches(h) THEN Append(reader.found, h) ELSE reader.found
       IN  reader' = IF Len(found) = MaxItems \/ reader.number = 0
                     THEN AfterScan(found)
                     ELSE [reader EXCEPT !.found = found, !.number = @ - 1]
    /\ UNCHANGED <<vars, seen, stayed>>

\* One turn of the walk down the heights.
Scan ==
    /\ reader.pc = "scan"
    /\ LET h == GetBlockByNumber(reader.number)
           found == IF h # NoHash /\ Matches(h) THEN Append(reader.found, h) ELSE reader.found
       IN  reader' = IF Len(found) = MaxItems \/ reader.number = 0
                     THEN AfterScan(found)
                     ELSE [reader EXCEPT !.found = found, !.number = @ - 1]
    /\ UNCHANGED <<vars, seen, stayed>>

\* One turn of the second walk of AddressActivity, over the crawl proofs.
ScanProofs ==
    /\ reader.pc = "proofs"
    /\ LET h == GetBlockByNumber(reader.number)
           proofs == IF h # NoHash /\ MatchesProof(h)
                     THEN Append(reader.proofs, h) ELSE reader.proofs
       IN  reader' = IF Len(proofs) = MaxItems \/ reader.number = 0
                     THEN [reader EXCEPT !.proofs = proofs, !.pc = "done"]
                     ELSE [reader EXCEPT !.proofs = proofs, !.number = @ - 1]
    /\ UNCHANGED <<vars, seen, stayed>>

\* stateForBlockRef finds the block of the height, or answers its error.
CallBlock ==
    /\ reader.pc = "block"
    /\ LET h == GetBlockByNumber(reader.number) IN
        reader' = IF h = NoHash THEN [reader EXCEPT !.pc = "done"]
                  ELSE [reader EXCEPT !.found = <<h>>, !.pc = "state"]
    /\ UNCHANGED <<vars, seen, stayed>>

\* Mutant: the call runs on the state of the tip.
CallStateOfTip ==
    /\ reader.pc = "state"
    /\ reader' = [reader EXCEPT !.state = state, !.pc = "done"]
    /\ UNCHANGED <<vars, seen, stayed>>

\* It loads the state of that block under the lock once more.
CallState ==
    /\ reader.pc = "state"
    /\ reader' = [reader EXCEPT !.state = LoadedState(reader.found[1]), !.pc = "done"]
    /\ UNCHANGED <<vars, seen, stayed>>

\* The answer goes out.
Return ==
    /\ reader.pc = "done"
    /\ reader' = IdleReader
    /\ seen' = {} /\ stayed' = {}
    /\ UNCHANGED vars

---------------------------------------------------------------------------
(***************************************************************************)
(* A step of the store.  The nonce of the transaction is used up on every  *)
(* branch that holds it, so that no block carries it a second time.        *)
(***************************************************************************)
StoreStep ==
    /\ Next
    /\ \A h \in (DOMAIN meta' \ DOMAIN meta) \cap Carriers :
        Ancestors(meta', h) \cap Carriers = {h}
    /\ IF latest' = NoHash
       THEN reader' = IdleReader /\ seen' = {} /\ stayed' = {}
       ELSE /\ UNCHANGED reader
            /\ seen' = IF reader.op = "idle" THEN {} ELSE seen \cup CanonicalChain'
            /\ stayed' = stayed \cap CanonicalChain'

ReaderInit == Init /\ reader = IdleReader /\ seen = {} /\ stayed = {}

ReaderNext ==
    \/ StoreStep
    \/ \E op \in Queries \ {"call"} : Start(op)
    \/ \E n \in DOMAIN byNumber : StartCall(n)
    \/ Scan
    \/ ScanProofs
    \/ CallBlock
    \/ CallState
    \/ Return

ReaderSpec == ReaderInit /\ [][ReaderNext]_allVars

---------------------------------------------------------------------------
(***************************************************************************)
(* Properties.                                                             *)
(***************************************************************************)

\* q lists blocks once each and downwards, each canonical during the query.
ListsCanonicalBlocks(q) ==
    /\ Listed(q) \subseteq seen
    /\ \A i, j \in DOMAIN q : i < j => meta[q[i]].number > meta[q[j]].number

\* Nothing of S is missing from q, unless q is full of newer blocks.
MissesNothingOf(S, q) ==
    \A b \in S \ Listed(q) :
        /\ Len(q) = MaxItems
        /\ \A h \in Listed(q) : meta[h].number > meta[b].number

(***************************************************************************)
(* TransactionByHash, CrawlProofByTask, RecentActivity and AddressActivity *)
(* while blocks arrive and the chain reorganises between their reads:      *)
(* everything they answer was on the chain at some moment of the query,    *)
(* and what stays on the chain from its start to its end is never missed,  *)
(* however the chain changes above it.  (A transaction that a              *)
(* reorganisation moves to another block may be missed.)                   *)
(***************************************************************************)
AnswersMissNothingSettled ==
    /\ ListsCanonicalBlocks(reader.found)
    /\ ListsCanonicalBlocks(reader.proofs)
    /\ (reader.pc = "done" /\ reader.op # "call") =>
        /\ MissesNothingOf({b \in stayed : Matches(b)}, reader.found)
        /\ reader.op = "address" =>
            MissesNothingOf({b \in stayed : MatchesProof(b)}, reader.proofs)

(***************************************************************************)
(* CallContract at a past height runs on the state of one block that was   *)
(* canonical at that height during the call, even when the block leaves    *)
(* the chain between the two reads: all of its branch and nothing else.    *)
(***************************************************************************)
PastCallSeesOneBranch ==
    (reader.pc = "done" /\ reader.op = "call" /\ reader.found # <<>>) =>
        LET h == reader.found[1] IN
            /\ h \in seen
            /\ meta[h].number = reader.number
            /\ reader.state \cap Hashes = Ancestors(meta, h)

---------------------------------------------------------------------------
(***************************************************************************)
(* The inductive invariant behind the two properties.                      *)
(***************************************************************************)

Steps == {"idle", "scan", "proofs", "block", "state", "done"}

ReaderTypeOK ==
    /\ reader \in [op : Queries \cup {"idle"}, pc : Steps, top : Nat, number : Nat,
                   found : Seq(Hashes), proofs : Seq(Hashes),
                   state : SUBSET (Hashes \cup Seeds)]
    /\ seen \subseteq DOMAIN meta
    /\ stayed \subseteq DOMAIN meta

\* Which step belongs to which query; a query in flight has a running node.
ReaderControl ==
    /\ reader.op = "idle" => reader = IdleReader /\ seen = {} /\ stayed = {}
    /\ reader.pc = "idle" => reader.op = "idle"
    /\ reader.pc = "proofs" => reader.op = "address"
    /\ reader.pc \in {"block", "state"} => reader.op = "call"
    /\ reader.pc = "scan" => reader.op \in Queries \ {"call"}
    /\ (reader.pc \in {"scan", "block"} \/ reader.op = "call") => reader.proofs = <<>>
    /\ reader.pc = "block" => reader.found = <<>>

\* The chain of this moment lies between what stayed and what was seen.
HistoryBracketsChain ==
    reader.op # "idle" =>
        /\ ~Down
        /\ stayed \subseteq CanonicalChain
        /\ CanonicalChain \subseteq seen
        /\ reader.op # "call" => \A b \in stayed : meta[b].number <= reader.top

\* A walk that lists S in q has done exactly the heights above reader.number.
Walking(S, q) ==
    /\ Len(q) < MaxItems
    /\ \A h \in Listed(q) : meta[h].number > reader.number
    /\ \A b \in S \ Listed(q) : meta[b].number <= reader.number

WalksAreComplete ==
    /\ reader.pc = "scan" => Walking({b \in stayed : Matches(b)}, reader.found)
    /\ reader.pc = "proofs" =>
        /\ MissesNothingOf({b \in stayed : Matches(b)}, reader.found)
        /\ Walking({b \in stayed : MatchesProof(b)}, reader.proofs)

\* Between its two reads a call holds one block that was canonical.
CallHoldsOneBlock ==
    reader.pc = "state" =>
        /\ Len(reader.found) = 1
        /\ reader.found[1] \in seen
        /\ meta[reader.found[1]].number = reader.number

ReaderInv ==
    /\ ReaderTypeOK
    /\ ReaderControl
    /\ HistoryBracketsChain
    /\ WalksAreComplete
    /\ CallHoldsOneBlock
    /\ AnswersMissNothingSettled
    /\ PastCallSeesOneBranch
=============================================================================
