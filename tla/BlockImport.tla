---------------------------- MODULE BlockImport ----------------------------
(***************************************************************************)
(* ImportRemoteBlock (core/block_validation.go) with the buffer of early   *)
(* blocks that ForkChoice keeps (core/fork_choice.go).                     *)
(*                                                                         *)
(* ImportRemoteBlock takes bc.mu and f.mu one after the other, never       *)
(* together: whether a block and its parent are stored is read first, and  *)
(* the decision to buffer is made later under another lock.  The workers   *)
(* are the goroutines that call it: the gossip reader (consumeBlocks) and  *)
(* the chain sync (SyncChain).                                             *)
(*                                                                         *)
(* A block is its hash, a number ordered as hashes are; the store is the   *)
(* set of blocks ImportBlock has accepted.  The module gives the steps of  *)
(* a call; ChainSync says who calls.                                       *)
(***************************************************************************)
EXTENDS Integers, Sequences, FiniteSets

CONSTANTS
    Blocks,     \* the blocks other nodes may send
    Genesis,
    Parent,     \* block -> its parent
    Refusable,  \* blocks whose validation or execution may fail
    Workers

ASSUME BlocksAssumption ==      \* a hash has 32 bytes: there are finitely many
    Blocks \subseteq Int /\ IsFiniteSet(Blocks) /\ Genesis \notin Blocks
ASSUME ParentAssumption == Parent \in [Blocks -> Blocks \cup {Genesis}]
ASSUME RefusableAssumption == Refusable \subseteq Blocks

VARIABLES
    stored,            \* the chain: blocks with metadata in the database
    bufferedByHash,    \* f.bufferedByHash
    bufferedByParent,  \* f.bufferedByParent: parent -> blocks waiting for it
    worker,            \* each caller: its place and its locals
    received,          \* history: blocks handed to ImportRemoteBlock
    dropped,           \* history: blocks an error return left unprocessed
    overlapped         \* history: two calls have run at the same time

vars == <<stored, bufferedByHash, bufferedByParent, worker, received, dropped, overlapped>>

\* The blocks from each block down to genesis: the least sets closed under Parent.
Ancestry ==
    [b \in Blocks |->
        {a \in Blocks : \A S \in SUBSET Blocks :
            (b \in S /\ \A c \in S : Parent[c] \in S \cup {Genesis}) => a \in S}]

Elements(q) == {q[i] : i \in DOMAIN q}

IdleWorker == [pc |-> "idle", queue |-> <<>>, hasBlock |-> FALSE, hasParent |-> FALSE]

Candidate(w) == Head(worker[w].queue)

\* The loop goes on with queue q, or ends when q is empty.
Continue(w, q) ==
    worker' = [worker EXCEPT ![w] =
        IF q = <<>> THEN IdleWorker
        ELSE [IdleWorker EXCEPT !.pc = "hasBlock", !.queue = q]]

---------------------------------------------------------------------------
\* ImportRemoteBlock is called with block b.
Receive(w, b) ==
    /\ worker[w].pc = "idle"
    /\ Continue(w, <<b>>)
    /\ received' = received \cup {b}
    /\ overlapped' = (overlapped \/ \E other \in Workers : worker[other].pc # "idle")
    /\ UNCHANGED <<stored, bufferedByHash, bufferedByParent, dropped>>

\* chain.HasBlockHash(candidate.Hash)
CheckBlock(w) ==
    /\ worker[w].pc = "hasBlock"
    /\ worker' = [worker EXCEPT ![w].pc = "hasParent",
                                ![w].hasBlock = Candidate(w) \in stored]
    /\ UNCHANGED <<stored, bufferedByHash, bufferedByParent, received, dropped, overlapped>>

\* chain.HasBlockHash(candidate.Header.ParentHash)
CheckParent(w) ==
    /\ worker[w].pc = "hasParent"
    /\ worker' = [worker EXCEPT ![w].pc = "decide",
                                ![w].hasParent = Parent[Candidate(w)] \in stored]
    /\ UNCHANGED <<stored, bufferedByHash, bufferedByParent, received, dropped, overlapped>>

\* Mutant: the block is remembered by its hash only.
BufferWithoutParent(b) ==
    /\ bufferedByHash' = bufferedByHash \cup {b}
    /\ UNCHANGED bufferedByParent

\* bufferLocked; a block that is already buffered is left where it is.
Buffer(b) ==
    /\ bufferedByHash' = bufferedByHash \cup {b}
    /\ bufferedByParent' = [bufferedByParent EXCEPT ![Parent[b]] = @ \cup {b}]

\* ForkChoice.Decide: ignore, buffer or import.
Decide(w) ==
    /\ worker[w].pc = "decide"
    /\ \/ /\ worker[w].hasBlock
          /\ Continue(w, Tail(worker[w].queue))
          /\ UNCHANGED <<bufferedByHash, bufferedByParent>>
       \/ /\ ~worker[w].hasBlock /\ ~worker[w].hasParent
          /\ Buffer(Candidate(w))
          /\ Continue(w, Tail(worker[w].queue))
       \/ /\ ~worker[w].hasBlock /\ worker[w].hasParent
          /\ worker' = [worker EXCEPT ![w].pc = "import"]
          /\ UNCHANGED <<bufferedByHash, bufferedByParent>>
    /\ UNCHANGED <<stored, received, dropped, overlapped>>

\* ValidateBlock and chain.ImportBlock accept the candidate (a parent that
\* is not stored, ErrBlockNotFound, would only skip it) ...
Import(w) ==
    /\ worker[w].pc = "import"
    /\ IF Parent[Candidate(w)] \in stored
       THEN /\ stored' = stored \cup {Candidate(w)}
            /\ worker' = [worker EXCEPT ![w].pc = "take"]
       ELSE stored' = stored /\ Continue(w, Tail(worker[w].queue))
    /\ UNCHANGED <<bufferedByHash, bufferedByParent, received, dropped, overlapped>>

\* ... or one of them fails: the call returns, whatever is still queued.
Refuse(w) ==
    /\ worker[w].pc = "import"
    /\ Candidate(w) \in Refusable
    /\ dropped' = dropped \cup Elements(worker[w].queue)
    /\ worker' = [worker EXCEPT ![w] = IdleWorker]
    /\ UNCHANGED <<stored, bufferedByHash, bufferedByParent, received, overlapped>>

\* The blocks of S in the order of their hashes; siblings have one number.
Sorted(S) ==
    CHOOSE s \in [1 .. Cardinality(S) -> S] :
        \A i, j \in DOMAIN s : i < j => s[i] < s[j]

\* Mutant: the children replace what was still queued.
TakeChildrenForgetsQueue(w) ==
    /\ worker[w].pc = "take"
    /\ LET children == bufferedByParent[Candidate(w)] IN
        /\ bufferedByHash' = bufferedByHash \ children
        /\ Continue(w, Sorted(children))
    /\ bufferedByParent' = [bufferedByParent EXCEPT ![Candidate(w)] = {}]
    /\ UNCHANGED <<stored, received, dropped, overlapped>>

\* Mutant: the children stay buffered.
TakeNoChildren(w) ==
    /\ worker[w].pc = "take"
    /\ Continue(w, Tail(worker[w].queue))
    /\ UNCHANGED <<stored, bufferedByHash, bufferedByParent, received, dropped, overlapped>>

\* CanonicalImported: the children that waited come before the queue.
TakeChildren(w) ==
    /\ worker[w].pc = "take"
    /\ LET children == bufferedByParent[Candidate(w)] \cap bufferedByHash IN
        /\ bufferedByHash' = bufferedByHash \ children
        /\ Continue(w, Sorted(children) \o Tail(worker[w].queue))
    /\ bufferedByParent' = [bufferedByParent EXCEPT ![Candidate(w)] = {}]
    /\ UNCHANGED <<stored, received, dropped, overlapped>>

---------------------------------------------------------------------------
Init ==
    /\ stored = {Genesis}
    /\ bufferedByHash = {}
    /\ bufferedByParent = [p \in Blocks \cup {Genesis} |-> {}]
    /\ worker = [w \in Workers |-> IdleWorker]
    /\ received = {} /\ dropped = {} /\ overlapped = FALSE

---------------------------------------------------------------------------
(***************************************************************************)
(* Properties.                                                             *)
(***************************************************************************)

\* The shape of the state.
TypeOK ==
    /\ stored \subseteq Blocks \cup {Genesis}
    /\ bufferedByHash \subseteq Blocks
    /\ bufferedByParent \in [Blocks \cup {Genesis} -> SUBSET Blocks]
    /\ worker \in [Workers -> [pc : {"idle", "hasBlock", "hasParent", "decide", "import", "take"},
                               queue : Seq(Blocks), hasBlock : BOOLEAN, hasParent : BOOLEAN]]
    /\ \A w \in Workers : worker[w].pc = "idle" <=> worker[w].queue = <<>>
    /\ received \subseteq Blocks /\ dropped \subseteq received /\ overlapped \in BOOLEAN

(***************************************************************************)
(* The two maps of ForkChoice hold the same blocks, each under its own     *)
(* parent: no buffered block can become unreachable, however the callers   *)
(* interleave.                                                             *)
(***************************************************************************)
BufferMapsAgree ==
    /\ TypeOK
    /\ \A p \in Blocks \cup {Genesis} :
        bufferedByParent[p] = {b \in bufferedByHash : Parent[b] = p}

(***************************************************************************)
(* Blocks may arrive in any order, also child before parent and more than  *)
(* once: when a block and all its ancestors have been received it ends up  *)
(* in the chain, unless one of them was dropped with a refused block or    *)
(* two calls overlapped.                                                   *)
(***************************************************************************)
ReceivedChainIsStored ==
    \A b \in Blocks :
        (Ancestry[b] \subseteq received) ~>
            (b \in stored \/ overlapped \/ Ancestry[b] \cap dropped # {})

\* When no call is running no block is left waiting for a stored parent.
NoChildLeftBehind ==
    (\A w \in Workers : worker[w].pc = "idle") =>
        \A b \in bufferedByHash : Parent[b] \notin stored

(***************************************************************************)
(* TestImportRemoteBlockBuffersFutureChild, for every order of blocks: an  *)
(* early child is imported with its parent as long as the calls come one   *)
(* after the other.  When they overlap, a child may be buffered just after *)
(* its parent was stored, and then waits until it is sent again.           *)
(***************************************************************************)
NoChildLeftBehindInTurn == ~overlapped => NoChildLeftBehind

---------------------------------------------------------------------------
(***************************************************************************)
(* The inductive invariant of ImportRemoteBlock.                           *)
(***************************************************************************)
StoredIsTree ==
    Genesis \in stored /\ \A b \in stored \ {Genesis} : Parent[b] \in stored

\* Calls that come one after the other: what a worker has read is still so,
\* and a waiting child of a stored block is about to be taken.
CallsInTurn ==
    /\ \A v, w \in Workers : worker[v].pc # "idle" /\ worker[w].pc # "idle" => v = w
    /\ \A w \in Workers :
        worker[w].pc = "decide" /\ ~worker[w].hasParent => Parent[Candidate(w)] \notin stored
    /\ \A b \in bufferedByHash :
        Parent[b] \in stored =>
            \E w \in Workers : worker[w].pc = "take" /\ Candidate(w) = Parent[b]

\* What is queued or buffered was received.
OnlyReceived ==
    /\ bufferedByHash \subseteq received
    /\ \A w \in Workers : Elements(worker[w].queue) \subseteq received

ImportInv ==
    /\ BufferMapsAgree
    /\ OnlyReceived
    /\ StoredIsTree
    /\ ~overlapped => CallsInTurn
=============================================================================
