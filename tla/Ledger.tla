------------------------------- MODULE Ledger -------------------------------
(***************************************************************************)
(* The ledger of core/blockchain.go: what the transactions and the crawl   *)
(* proofs of a block do to a StateSnapshot.                                *)
(*                                                                         *)
(* prepareBlock clones the parent's state, applies the transactions, then  *)
(* the proofs, and gives the whole block up at the first error.  draft is  *)
(* the clone; state is the snapshot of the tip.                            *)
(*                                                                         *)
(* A hash stands for its preimage.  The identifier of a task is a          *)
(* sequence: the hash of the transaction that asked for it, followed by    *)
(* the links that led to it (buildAutonomousSearchTaskID hashes the        *)
(* parent's identifier, the depth and the link).  A page is the number of  *)
(* times it holds each term, its length and its links.                     *)
(***************************************************************************)
EXTENDS WorkScore, Sequences, FiniteSets, FiniteSetsExt, Functions

CONSTANTS
    Users,             \* addresses that have a key
    Miners,            \* the users that crawl
    Architect,         \* the architect's address, a user's or not
    Escrow,            \* SearchEscrowAddress
    Registry,          \* UNSRegistryAddress
    SearchPrecompile,  \* SearchPrecompileAddress
    Txs,               \* the signed transactions blocks may hold
    Pages,             \* the pages a crawl may return
    Terms,             \* words; the names UNS sells are words
    HostOf,            \* normalizeWorkHost: URL -> host
    Difficulty,        \* request.Difficulty of the tasks users ask for
    Endowment,         \* the genesis balances
    MaxDepth,          \* autonomousCrawlMaxDepth
    LinksPerProof,     \* autonomousCrawlLinksPerProof
    PendingTaskLimit   \* autonomousCrawlPendingTaskLimit

Accounts == Users \cup {Architect, Escrow, Registry}

\* The distinct terms of a page.
Words(p) == {w \in Terms : p.counts[w] > 0}

ASSUME AccountsAssumption ==
    /\ IsFiniteSet(Users)
    /\ Miners \subseteq Users
    /\ Cardinality({Escrow, Registry, SearchPrecompile}) = 3
    /\ {Escrow, Registry, SearchPrecompile} \cap (Users \cup {Architect}) = {}
ASSUME TxsAssumption ==
    \A t \in Txs :
        /\ t.from \in Users /\ t.nonce \in Nat /\ t.value \in Nat
        /\ t.type \in {"transfer", "search", "deploy"}
        /\ \A u \in Txs : u.hash = t.hash => u = t
ASSUME EndowmentAssumption == Endowment \in [Accounts -> Nat]
ASSUME PagesAssumption ==
    \A p \in Pages :
        /\ p.counts \in [Terms -> Nat] /\ p.bytes \in Nat
        /\ IsFiniteSet(Words(p)) /\ IsFiniteSet(p.links)
ASSUME DifficultyAssumption == Difficulty \in Nat
ASSUME FrontierAssumption == MaxDepth \in Nat /\ LinksPerProof \in Nat /\ PendingTaskLimit \in Nat

VARIABLES
    state,     \* bc.state
    draft,     \* prepareBlock's snapshot
    proofs     \* the proofs of the block so far: [task, page]

vars == <<state, draft, proofs>>

\* prepareBlock has come to the proofs.
proving == proofs # {}

---------------------------------------------------------------------------
(***************************************************************************)
(* Money.                                                                  *)
(***************************************************************************)
ArchitectFeeNumerator == 333
ArchitectFeeDenominator == 10000
UNSBasePrice == 100000
UNSPopularityMultiplier == 10000

ArchitectFee(amount) == (amount * ArchitectFeeNumerator) \div ArchitectFeeDenominator
NetValue(t) == t.value - ArchitectFee(t.value)

\* Mutant: the receiver gets the gross value.
CreditGross(s, address, amount) ==
    [s EXCEPT !.balances[address] = @ + amount + ArchitectFee(amount)]

creditBalance(s, address, amount) == [s EXCEPT !.balances[address] = @ + amount]

UNSRegistrationPrice(s, name) ==
    UNSBasePrice + s.mentions[name] * UNSPopularityMultiplier

\* The debit, the fee and the nonce that every transaction pays first.
Charged(s, t) ==
    [s EXCEPT !.balances[t.from] = @ - t.value,
              !.balances[Architect] = @ + ArchitectFee(t.value),
              !.nonces[t.from] = t.nonce + 1]

IsNative(a) == a \in {Registry, SearchPrecompile}

\* Value, nonce and balance; only a call with data may carry no value.
Chargeable(s, t) ==
    /\ \/ t.type = "deploy"
       \/ t.value > 0
       \/ t.type = "transfer" /\ t.data # "" /\ (IsNative(t.to) \/ t.to \in DOMAIN s.contracts)
    /\ t.nonce = s.nonces[t.from]
    /\ s.balances[t.from] >= t.value

---------------------------------------------------------------------------
(***************************************************************************)
(* Transactions.                                                           *)
(***************************************************************************)

\* What each kind of transaction needs besides its charge.
IsPayment(s, t) ==
    t.type = "transfer" /\ ~IsNative(t.to) /\ t.to \notin DOMAIN s.contracts /\ t.to \in Accounts

\* Mutant: a name can be bought again.
IsRegistrationOfAnyName(s, t) ==
    /\ t.type = "transfer" /\ t.to = Registry /\ t.data \in Terms
    /\ t.value = UNSRegistrationPrice(s, t.data)

\* executeUNSRegistration: a free name at exactly its price.
IsRegistration(s, t) ==
    /\ t.type = "transfer" /\ t.to = Registry /\ t.data \in Terms
    /\ t.data \notin DOMAIN s.names
    /\ t.value = UNSRegistrationPrice(s, t.data)

\* ExecuteUserContractTransfer: only a note contract runs, for no value.
IsNote(s, t) ==
    /\ t.type = "transfer" /\ t.to \in DOMAIN s.contracts
    /\ s.contracts[t.to].handler = "note" /\ t.value = 0 /\ t.data # ""

IsSearch(t) == t.type = "search" /\ t.data # ""

\* The contract's address is derived from the transaction's hash.
IsDeployment(s, t) ==
    /\ t.type = "deploy" /\ t.to = "" /\ t.data \in {"note", "descriptor"}
    /\ t.hash \notin DOMAIN s.contracts

Applicable(s, t) ==
    /\ Chargeable(s, t)
    /\ \/ IsPayment(s, t) \/ IsRegistration(s, t) \/ IsNote(s, t)
       \/ IsSearch(t) \/ IsDeployment(s, t)

\* Put(f, k, v): the map f with f[k] assigned.
Put(f, k, v) == [x \in DOMAIN f \cup {k} |-> IF x = k THEN v ELSE f[x]]

TaskRecord(submitter, url, reward, autonomous, depth) ==
    [submitter |-> submitter, url |-> url, reward |-> reward, autonomous |-> autonomous,
     depth |-> depth, completed |-> FALSE, minedBy |-> ""]

\* A transfer to an account: escrow, registry owner and architect included.
Transfer(t) ==
    /\ ~proving /\ Chargeable(draft, t) /\ IsPayment(draft, t)
    /\ draft' = creditBalance(Charged(draft, t), t.to, NetValue(t))
    /\ UNCHANGED <<state, proofs>>

RegisterName(t) ==
    /\ ~proving /\ Chargeable(draft, t) /\ IsRegistration(draft, t)
    /\ draft' = [creditBalance(Charged(draft, t), Registry, NetValue(t)) EXCEPT
                    !.names = Put(@, t.data, t.from)]
    /\ UNCHANGED <<state, proofs>>

SetNote(t) ==
    /\ ~proving /\ Chargeable(draft, t) /\ IsNote(draft, t)
    /\ draft' = [Charged(draft, t) EXCEPT !.contracts[t.to].note = t.data]
    /\ UNCHANGED <<state, proofs>>

\* Mutant: the fee is left in escrow as well.
SearchTaskInFull(t) ==
    /\ ~proving /\ Chargeable(draft, t) /\ IsSearch(t)
    /\ draft' = [creditBalance(Charged(draft, t), Escrow, NetValue(t)) EXCEPT
                    !.tasks = Put(@, <<t.hash>>, TaskRecord(t.from, t.data, t.value, FALSE, 0))]
    /\ UNCHANGED <<state, proofs>>

\* The bounty goes to escrow, less the fee; the record promises as much.
SearchTask(t) ==
    /\ ~proving /\ Chargeable(draft, t) /\ IsSearch(t)
    /\ draft' = [creditBalance(Charged(draft, t), Escrow, NetValue(t)) EXCEPT
                    !.tasks = Put(@, <<t.hash>>, TaskRecord(t.from, t.data, NetValue(t), FALSE, 0))]
    /\ UNCHANGED <<state, proofs>>

\* A deployment's value, less the fee, is credited to nobody.
DeployContract(t) ==
    /\ ~proving /\ Chargeable(draft, t) /\ IsDeployment(draft, t)
    /\ draft' = [Charged(draft, t) EXCEPT
                    !.contracts = Put(@, t.hash, [handler |-> t.data, owner |-> t.from, note |-> ""]),
                    !.burned = @ + NetValue(t)]
    /\ UNCHANGED <<state, proofs>>

---------------------------------------------------------------------------
(***************************************************************************)
(* Crawl proofs.                                                           *)
(***************************************************************************)

\* ApplyCrawlProof's guards: the task is open, the sum is the recorded one,
\* and escrow can pay it.
Provable(s, id, reward) ==
    /\ id \in DOMAIN s.tasks
    /\ ~s.tasks[id].completed
    /\ reward = s.tasks[id].reward
    /\ s.balances[Escrow] >= reward

\* The counts of the page that url has in the index, if it has one.
IndexedCounts(s, url) ==
    IF url \in DOMAIN s.index THEN s.index[url].counts ELSE [w \in Terms |-> 0]

\* Mutant: the counts of the page that is replaced are not taken back.
MentionsAddedTwice(s, url, counts) == [w \in Terms |-> s.mentions[w] + counts[w]]

\* subtractMentionCounts, never below zero, and then addMentionCounts.
Mentions(s, url, counts) ==
    [w \in Terms |->
        (IF s.mentions[w] <= IndexedCounts(s, url)[w] THEN 0
         ELSE s.mentions[w] - IndexedCounts(s, url)[w]) + counts[w]]

Paid(s, id, miner) ==
    [s EXCEPT !.balances[Escrow] = @ - s.tasks[id].reward,
              !.balances[miner] = @ + s.tasks[id].reward]

\* The payment, the search index, the mention counts and the task's record.
Settled(s, id, miner, page) ==
    LET url == s.tasks[id].url IN
    [Paid(s, id, miner) EXCEPT
        !.mentions = Mentions(s, url, page.counts),
        !.index = Put(@, url, [counts |-> page.counts, task |-> id]),
        !.tasks[id].completed = TRUE, !.tasks[id].minedBy = miner]

Active(s) == {id \in DOMAIN s.tasks : ~s.tasks[id].completed}
ActiveAutonomous(s) == {id \in Active(s) : s.tasks[id].autonomous}

\* Mutant: a link somebody is already asked to crawl is followed again.
NewLinksOnceIndexed(s, id, links) == links \ ({s.tasks[id].url} \cup DOMAIN s.index)

\* selectAutonomousOutboundLinks: links neither indexed nor asked for.
NewLinks(s, id, links) ==
    links \ ({s.tasks[id].url} \cup DOMAIN s.index \cup {s.tasks[a].url : a \in Active(s)})

\* How many of the links are followed.
Followed(s, id, links) ==
    IF s.tasks[id].autonomous /\ s.tasks[id].depth >= MaxDepth THEN 0
    ELSE Min({Cardinality(NewLinks(s, id, links)), LinksPerProof,
              Max({0, PendingTaskLimit - Cardinality(ActiveAutonomous(s))})})

\* The draft with the tasks spawned by task id, one for each of the links.
Spawned(s, id, links) ==
    LET children == {Append(id, u) : u \in links} IN
    [s EXCEPT !.tasks = [x \in DOMAIN @ \cup children |->
        IF x \in children
        THEN TaskRecord(@[id].submitter, x[Len(x)], 0, TRUE, @[id].depth + 1)
        ELSE @[x]]]

\* computeBlockWork looks each proof's task up in the state after the block's
\* transactions: a task that the block itself spawned is not found.
IsScored(id) == draft.tasks[id].autonomous => id \in DOMAIN state.tasks

\* ApplyCrawlProof.  Which links come first is up to their host, path and
\* length: any choice of the right size.
CrawlProof(id, miner, reward, page) ==
    /\ IsScored(id)
    /\ Provable(draft, id, reward)
    /\ LET settled == Settled(draft, id, miner, page) IN
        \E links \in kSubset(Followed(settled, id, page.links), NewLinks(settled, id, page.links)) :
            draft' = Spawned(settled, id, links)
    /\ proofs' = proofs \cup {[task |-> id, page |-> page]}
    /\ UNCHANGED state

---------------------------------------------------------------------------
(***************************************************************************)
(* The work of the block that leads from state to draft.                   *)
(***************************************************************************)
TransactionCount == SumFunction(draft.nonces) - SumFunction(state.nonces)

SearchTaskCount ==
    Cardinality({id \in DOMAIN draft.tasks \ DOMAIN state.tasks : ~draft.tasks[id].autonomous})

TransactionWork == TransactionCount + (searchTaskTxWorkUnits - 1) * SearchTaskCount

HostOccurrences(p) ==
    Cardinality({q \in proofs : HostOf[draft.tasks[q.task].url] = HostOf[draft.tasks[p.task].url]})

SubmitterOccurrences(p) ==
    Cardinality({q \in proofs : draft.tasks[q.task].submitter = draft.tasks[p.task].submitter})

\* A spawned task has difficulty 0.
ProofWork(p, hosts, submitters) ==
    computeUsefulProofWork(
        IF draft.tasks[p.task].autonomous THEN 0 ELSE Difficulty,
        usefulProofQualityBPS(Cardinality(Words(p.page)), p.page.bytes),
        hosts, submitters)

computeBlockWork ==
    TransactionWork +
    SumFunction([p \in proofs |-> ProofWork(p, HostOccurrences(p), SubmitterOccurrences(p))])

---------------------------------------------------------------------------
(***************************************************************************)
(* Blocks.                                                                 *)
(***************************************************************************)
CommitBlock ==
    /\ draft # state
    /\ state' = draft
    /\ proofs' = {}
    /\ UNCHANGED draft

\* A transaction or a proof that cannot be applied fails the whole block;
\* reward is what the proof claims.
RejectBlock ==
    /\ draft # state
    /\ \/ ~proving /\ \E t \in Txs : ~Applicable(draft, t)
       \/ \E id \in DOMAIN draft.tasks : \E reward \in {0, draft.tasks[id].reward} :
            ~(IsScored(id) /\ Provable(draft, id, reward))
    /\ draft' = state
    /\ proofs' = {}
    /\ UNCHANGED state

\* burned is history: what was debited and credited to nobody.
Genesis ==
    [balances |-> Endowment, nonces |-> [u \in Users |-> 0],
     tasks |-> <<>>, index |-> <<>>, mentions |-> [w \in Terms |-> 0],
     names |-> <<>>, contracts |-> <<>>, burned |-> 0]

Init ==
    /\ state = Genesis
    /\ draft = Genesis
    /\ proofs = {}

Next ==
    \/ \E t \in Txs : Transfer(t)
    \/ \E t \in Txs : RegisterName(t)
    \/ \E t \in Txs : SetNote(t)
    \/ \E t \in Txs : SearchTask(t)
    \/ \E t \in Txs : DeployContract(t)
    \/ \E id \in DOMAIN draft.tasks, miner \in Miners, page \in Pages :
        CrawlProof(id, miner, draft.tasks[id].reward, page)
    \/ CommitBlock
    \/ RejectBlock

Spec == Init /\ [][Next]_vars

---------------------------------------------------------------------------
(***************************************************************************)
(* Properties.  They hold of the draft after every transaction and proof,  *)
(* so of every block however it is cut.                                    *)
(***************************************************************************)
Snapshots == {state, draft}

(***************************************************************************)
(* No transaction, proof or failed block makes or loses money: what the    *)
(* accounts hold and what deployments burned add up to the genesis         *)
(* balances, the rounding of the architect's fee included, and no account  *)
(* is overdrawn.                                                           *)
(***************************************************************************)
SupplyIsConserved ==
    \A s \in Snapshots :
        /\ SumFunction(s.balances) + s.burned = SumFunction(Endowment)
        /\ \A x \in Accounts : s.balances[x] >= 0

(***************************************************************************)
(* Escrow can always pay every open task, whichever is settled first and   *)
(* whatever else is sent to it: ApplyCrawlProof's check of the escrow      *)
(* balance never fails an honest proof.                                    *)
(***************************************************************************)
EscrowCoversOpenTasks ==
    \A s \in Snapshots :
        s.balances[Escrow] >= SumFunction([id \in Active(s) |-> s.tasks[id].reward])

(***************************************************************************)
(* The mention counts that price UNS names are the sum over the pages in   *)
(* the index, also after a page is crawled again: the saturating           *)
(* subtraction never has to saturate.                                      *)
(***************************************************************************)
MentionsMatchIndex ==
    \A s \in Snapshots, w \in Terms :
        s.mentions[w] = SumFunction([u \in DOMAIN s.index |-> s.index[u].counts[w]])

(***************************************************************************)
(* The crawl the network gives itself is finite: no URL is ever given to   *)
(* two autonomous tasks, however many pages link to it; at most            *)
(* PendingTaskLimit of them are open, a task has at most LinksPerProof     *)
(* children, each spawned by a settled task one level up, and none is      *)
(* deeper than MaxDepth (1 when MaxDepth is 0).                            *)
(***************************************************************************)
FrontierIsBounded ==
    \A s \in Snapshots :
        /\ \A i, j \in {id \in DOMAIN s.tasks : s.tasks[id].autonomous} :
            s.tasks[i].url = s.tasks[j].url => i = j
        /\ Cardinality(ActiveAutonomous(s)) <= PendingTaskLimit
        /\ \A id \in DOMAIN s.tasks :
            /\ Cardinality({c \in DOMAIN s.tasks : Len(c) = Len(id) + 1
                                /\ SubSeq(c, 1, Len(id)) = id}) <= LinksPerProof
            /\ s.tasks[id].depth <= Max({1, MaxDepth})
            /\ s.tasks[id].autonomous =>
                LET parent == SubSeq(id, 1, Len(id) - 1) IN
                /\ parent \in DOMAIN s.tasks
                /\ s.tasks[parent].completed
                /\ s.tasks[id].depth = s.tasks[parent].depth + 1

(***************************************************************************)
(* The work of a block, on which fork choice rests.  Every transaction and *)
(* every proof weighs at least one unit, so that a block with content      *)
(* makes its branch heavier.  Bundling earns nothing: a block weighs at    *)
(* most what its proofs would weigh each in a block of its own, and what   *)
(* they would weigh from as many hosts (TestComputeBlockWorkDampensRepea-  *)
(* tedHosts), the two roundings and the floors of the penalties included.  *)
(***************************************************************************)
BundlingEarnsNoWork ==
    /\ computeBlockWork >= TransactionCount + Cardinality(proofs)
    /\ computeBlockWork - TransactionWork
        <= SumFunction([p \in proofs |-> ProofWork(p, 1, SubmitterOccurrences(p))])
    /\ \A p \in proofs : ProofWork(p, HostOccurrences(p), SubmitterOccurrences(p)) <= ProofWork(p, 1, 1)

\* What later states of a branch keep of s.
Keeps(s, t) ==
    /\ \A id \in DOMAIN s.tasks :
        /\ id \in DOMAIN t.tasks
        /\ s.tasks[id].completed => t.tasks[id] = s.tasks[id]
    /\ \A n \in DOMAIN s.names : n \in DOMAIN t.names /\ t.names[n] = s.names[n]
    /\ DOMAIN s.index \subseteq DOMAIN t.index
    /\ \A u \in Users : t.nonces[u] >= s.nonces[u]

(***************************************************************************)
(* What a block may never do to the state of the tip: pay a task twice or  *)
(* forget one, change the owner of a name, drop a page from the index, or  *)
(* turn a nonce back.                                                      *)
(***************************************************************************)
SettledIsFinal ==
    [][ Keeps(state, state') ]_vars

---------------------------------------------------------------------------
(***************************************************************************)
(* The inductive invariant.                                                *)
(***************************************************************************)
Links == UNION {p.links : p \in Pages}
Urls == {t.data : t \in Txs} \cup Links
Ids == Seq({t.hash : t \in Txs} \cup Links)

TaskRecords ==
    [submitter : Users, url : Urls, reward : Nat, autonomous : BOOLEAN, depth : Nat,
     completed : BOOLEAN, minedBy : Users \cup {""}]

Entries == [counts : [Terms -> Nat], task : Ids]

IsMap(f, D, R) == DOMAIN f \subseteq D /\ IsFiniteSet(DOMAIN f) /\ f \in [DOMAIN f -> R]

HasFields(s) ==
    s = [balances |-> s.balances, nonces |-> s.nonces, tasks |-> s.tasks, index |-> s.index,
         mentions |-> s.mentions, names |-> s.names, contracts |-> s.contracts,
         burned |-> s.burned]

StateTypeOK(s) ==
    /\ HasFields(s)
    /\ s.balances \in [Accounts -> Nat]
    /\ s.nonces \in [Users -> Nat]
    /\ s.mentions \in [Terms -> Nat]
    /\ s.burned \in Nat
    /\ IsMap(s.tasks, Ids, TaskRecords)
    /\ IsMap(s.index, Urls, Entries)
    /\ IsMap(s.names, Terms, Users)

\* A task a user asked for is named after a transaction that was applied.
IsAsked(s, id) ==
    /\ s.tasks[id].depth = 0
    /\ \E t \in Txs : id = <<t.hash>> /\ t.nonce < s.nonces[t.from]

\* A task the network gave itself promises nothing and hangs below a settled one.
IsSpawned(s, id) ==
    LET parent == SubSeq(id, 1, Len(id) - 1) IN
    /\ Len(id) > 1
    /\ s.tasks[id].reward = 0
    /\ parent \in DOMAIN s.tasks
    /\ s.tasks[parent].completed
    /\ s.tasks[id].depth = s.tasks[parent].depth + 1
    /\ s.tasks[id].depth <= Max({1, MaxDepth})

TasksHaveOrigin(s) ==
    \A id \in DOMAIN s.tasks :
        /\ IF s.tasks[id].autonomous THEN IsSpawned(s, id) ELSE IsAsked(s, id)
        /\ s.tasks[id].completed => s.tasks[id].url \in DOMAIN s.index

LedgerInv ==
    /\ \A s \in Snapshots : StateTypeOK(s) /\ TasksHaveOrigin(s)
    /\ SupplyIsConserved
    /\ EscrowCoversOpenTasks
    /\ MentionsMatchIndex
    /\ FrontierIsBounded
    /\ Keeps(state, draft)
=============================================================================
