---------------------------- MODULE Verification ----------------------------
(***************************************************************************)
(* The check of an imported block's crawl proofs: ValidateBlock            *)
(* (core/block_validation.go) and VerifyMiningResult                       *)
(* (core/consensus/pouw.go), together with the PriorityRegistry that       *)
(* prices tasks and the CrawlLimiter the validators crawl through.         *)
(*                                                                         *)
(* VerifyMiningResult runs one goroutine per sampled validator.  Each      *)
(* reads the registry by itself, while the governance listener may change  *)
(* it, then crawls the page through the limiter that all crawls of the     *)
(* node share, under a context that ends after BlockValidationTimeout.     *)
(*                                                                         *)
(* A bounty is priced when its transaction is submitted; the record keeps  *)
(* that price.  A page is the same as the miner's or not; similarity of    *)
(* SimHashes is what tells them apart.                                     *)
(***************************************************************************)
EXTENDS CrawlLimiter, Sequences, Folds

CONSTANTS
    Validators,      \* v.Validators
    Others,          \* other crawls of the node
    Fooled,          \* validators that may be shown a forged page
    Sectors,         \* sectors with a rule that match the URL, 1, 2, ...
    Multipliers,     \* multipliers governance may give a sector
    BaseBounty,      \* QuoteBounty: base + difficulty * volume
    BaseDifficulty,
    Host,            \* the host of the tasks' URLs
    Modes,           \* validation modes in use
    SampleSize,
    MaxProofs,       \* bound: proofs in a block
    MaxForged,       \* bound: forged proofs in a block
    MaxChanges       \* bound: rule changes

ASSUME ValidatorsAssumption ==
    /\ Crawls = Validators \cup Others /\ Validators \cap Others = {}
    /\ Cardinality(Validators) = 3 /\ Host \in Hosts
    /\ Fooled \subseteq Validators /\ Cardinality(Fooled) <= 1
ASSUME PricesAssumption ==
    /\ Multipliers \subseteq Nat \ {0} /\ {BaseBounty, BaseDifficulty} \subseteq Nat
    /\ Sectors \subseteq Nat

VARIABLES
    rules,     \* PriorityRegistry.rules: sector -> multiplier
    tasks,     \* open records on the chain: the prices they were quoted
    call,      \* ValidateBlock: its place and its locals
    at,        \* each validator's goroutine
    seen,      \* each validator's observation
    changes    \* history: rule changes

nodeVars == <<rules, tasks, changes>>
vars == <<limiterVars, rules, tasks, call, at, seen, changes>>

---------------------------------------------------------------------------
(***************************************************************************)
(* Prices.                                                                 *)
(***************************************************************************)
BasisPoints == 10000

\* Mutant: one validator is enough.
QuorumOfOne == 1

ValidatorQuorum == 2

ScaleCeil(value, bps) == (value * bps + BasisPoints - 1) \div BasisPoints
ApplyBasisPoints(amount, bps) == (amount * bps) \div BasisPoints
ArchitectFee(amount) == (amount * 333) \div 10000

\* ComposeBasisPoints over the rules, in the order of Snapshot.
Composite(registry) ==
    MapThenFoldSet(LAMBDA m, acc : ScaleCeil(acc, m), BasisPoints, LAMBDA s : registry[s],
                   LAMBDA S : CHOOSE s \in S : \A t \in S : s >= t, DOMAIN registry)

\* PriorityRegistry.Apply
Apply(registry) ==
    LET m == Composite(registry)
        bounty == ApplyBasisPoints(BaseBounty, m)
    IN  [multiplier |-> m, bounty |-> bounty,
         fee |-> ArchitectFee(bounty), difficulty |-> ScaleCeil(BaseDifficulty, m)]

\* Mutant: the record's price is believed.
PriceUnchecked(price, adjustment) == TRUE

\* validateImportedProof: the price of the record is today's price.
PriceMatches(price, adjustment) ==
    price.bounty = adjustment.bounty /\ price.fee = adjustment.fee

\* governanceMatches: the importer's adjustment is the validator's own.
governanceMatches(price, adjustment, own) ==
    /\ adjustment.multiplier = own.multiplier
    /\ adjustment.difficulty = own.difficulty
    /\ PriceMatches(price, own)

---------------------------------------------------------------------------
(***************************************************************************)
(* The rest of the node.                                                   *)
(***************************************************************************)
\* The governance listener changes a rule.
UpsertRule(s, m) ==
    /\ changes < MaxChanges
    /\ changes' = changes + 1
    /\ rules' = [t \in DOMAIN rules \cup {s} |-> IF t = s THEN m ELSE rules[t]]
    /\ call' = [call EXCEPT !.inForce = @ \cup {Apply(rules').bounty}]
    /\ UNCHANGED <<limiterVars, tasks, at, seen>>

\* BuildSearchTaskEnvelope: a bounty is accepted at today's price and mined.
\* (Between calls: a call looks only at the tasks of its block.)
Submit ==
    /\ call.pc = "idle"
    /\ Len(tasks) < MaxProofs
    /\ tasks' = Append(tasks, [bounty |-> Apply(rules).bounty, fee |-> Apply(rules).fee])
    /\ UNCHANGED <<limiterVars, rules, call, at, seen, changes>>

\* Some other crawl goes through the limiter.
OtherCrawl(o) ==
    /\ \/ \E h \in Hosts : Request(o, h)
       \/ AcquireGlobal(o)
       \/ AcquireHost(o)
       \/ CancelGlobal(o)
       \/ CancelHost(o)
       \/ Finish(o)
       \/ ReleaseHost(o)
       \/ ReleaseGlobal(o)
    /\ UNCHANGED <<rules, tasks, call, at, seen, changes>>

---------------------------------------------------------------------------
(***************************************************************************)
(* ValidateBlock.                                                          *)
(***************************************************************************)
\* inForce is history: the bounties in force since the call began.
NoCall == [pc |-> "idle", block |-> <<>>, full |-> {}, index |-> 0,
           adjustment |-> Apply(<<>>), expired |-> FALSE, inForce |-> {}, verdict |-> "none"]

\* The sets of proofs a mode may crawl again.
fullValidationIndexes(mode, n) ==
    CASE mode = "strict" -> {1 .. n}
      [] mode = "opportunistic" -> {{}}
      [] mode = "sampled" /\ SampleSize >= n -> {1 .. n}
      [] OTHER -> {S \in SUBSET (1 .. n) : Cardinality(S) = SampleSize}

\* A block with a proof for every open task arrives; some may be forged.
StartImport(honest, full) ==
    /\ call.pc = "idle" /\ tasks # <<>>
    /\ Cardinality(DOMAIN tasks \ honest) <= MaxForged
    /\ call' = [NoCall EXCEPT !.pc = "proof", !.index = 1, !.full = full,
                    !.block = [i \in DOMAIN tasks |->
                                [price |-> tasks[i], honest |-> i \in honest]],
                    !.inForce = {Apply(rules).bounty}]
    /\ UNCHANGED <<limiterVars, nodeVars, at, seen>>

Return(verdict) ==
    call' = [NoCall EXCEPT !.block = call.block, !.full = call.full,
                           !.inForce = call.inForce, !.verdict = verdict]

\* ApplyCrawlProof, and on to the next proof.
NextProof ==
    IF call.index = Len(call.block)
    THEN Return("accepted") /\ tasks' = <<>>
    ELSE UNCHANGED tasks /\ call' = [call EXCEPT !.pc = "proof", !.index = @ + 1]

\* The record is priced anew; then three validators start, or none.
CheckProof ==
    /\ call.pc = "proof"
    /\ LET adjustment == Apply(rules) IN
       \/ /\ ~PriceMatches(call.block[call.index].price, adjustment)
          /\ Return("refused")
          /\ UNCHANGED <<tasks, at, seen>>
       \/ /\ PriceMatches(call.block[call.index].price, adjustment)
          /\ call.index \notin call.full
          /\ NextProof
          /\ UNCHANGED <<at, seen>>
       \/ /\ PriceMatches(call.block[call.index].price, adjustment)
          /\ call.index \in call.full
          /\ call' = [call EXCEPT !.pc = "verify", !.adjustment = adjustment, !.expired = FALSE]
          /\ at' = [v \in Validators |-> "resolve"]
          /\ UNCHANGED <<tasks, seen>>
    /\ UNCHANGED <<limiterVars, rules, changes>>

\* Mutant: the context has no deadline.
ExpireNever ==
    /\ FALSE
    /\ UNCHANGED vars

\* BlockValidationTimeout
Expire ==
    /\ call.pc = "verify" /\ ~call.expired
    /\ call' = [call EXCEPT !.expired = TRUE]
    /\ UNCHANGED <<limiterVars, nodeVars, at, seen>>

AllDone == \A v \in Validators : at[v] = "done"

\* wg.Wait, and the count.
Collect ==
    /\ call.pc = "verify"
    /\ AllDone
    /\ LET matching == {v \in Validators : seen[v] = "match"}
           governed == {v \in Validators : seen[v] # "ungoverned"}
       IN  IF Cardinality(matching) >= ValidatorQuorum /\ Cardinality(governed) >= ValidatorQuorum
           THEN NextProof
           ELSE Return("refused") /\ UNCHANGED tasks
    /\ seen' = [v \in Validators |-> "nothing"]
    /\ UNCHANGED <<limiterVars, rules, changes, at>>

---------------------------------------------------------------------------
(***************************************************************************)
(* The goroutine of a validator.                                           *)
(***************************************************************************)
Done(v, observation) ==
    /\ at' = [at EXCEPT ![v] = "done"]
    /\ seen' = [seen EXCEPT ![v] = observation]
    /\ UNCHANGED <<nodeVars, call>>

\* ResolveGovernance reads the registry once more; then Index, which looks
\* at the context first.
Resolve(v) ==
    /\ at[v] = "resolve"
    /\ LET agrees == governanceMatches(call.block[call.index].price, call.adjustment, Apply(rules))
       IN  \/ ~agrees /\ Done(v, "ungoverned") /\ UNCHANGED limiterVars
           \/ agrees /\ call.expired /\ Done(v, "error") /\ UNCHANGED limiterVars
           \/ /\ agrees /\ ~call.expired
              /\ Request(v, Host)
              /\ at' = [at EXCEPT ![v] = "index"]
              /\ UNCHANGED <<nodeVars, call, seen>>

Acquire(v) ==
    /\ at[v] = "index"
    /\ AcquireGlobal(v) \/ AcquireHost(v)
    /\ UNCHANGED <<nodeVars, call, at, seen>>

\* Acquire gives up when the context ends.
GiveUp(v) ==
    /\ at[v] = "index" /\ call.expired
    /\ CancelGlobal(v) \/ CancelHost(v)
    /\ Done(v, "error")

\* What a crawl may find: the miner's page, another one, or nothing.
Observations(v) ==
    {"mismatch", "error"}
        \cup (IF call.block[call.index].honest \/ v \in Fooled THEN {"match"} ELSE {})

\* The crawl ends; a context that has ended meanwhile makes it an error.
Crawl(v, observation) ==
    /\ at[v] = "index"
    /\ Finish(v)
    /\ observation \in Observations(v)
    /\ seen' = [seen EXCEPT ![v] = IF call.expired THEN "error" ELSE observation]
    /\ UNCHANGED <<nodeVars, call, at>>

\* The deferred release, and the observation.
Release(v) ==
    /\ at[v] = "index"
    /\ \/ ReleaseHost(v) /\ UNCHANGED <<nodeVars, call, at, seen>>
       \/ ReleaseGlobal(v) /\ Done(v, seen[v])

---------------------------------------------------------------------------
Init ==
    /\ LimiterInit
    /\ rules = <<>> /\ tasks = <<>> /\ changes = 0
    /\ call = NoCall
    /\ at = [v \in Validators |-> "done"]
    /\ seen = [v \in Validators |-> "nothing"]

Validator(v) ==
    \/ Resolve(v)
    \/ Acquire(v)
    \/ GiveUp(v)
    \/ \E observation \in {"match", "mismatch", "error"} : Crawl(v, observation)
    \/ Release(v)

\* ValidateBlock and the goroutines it starts.
Goroutines ==
    \/ CheckProof
    \/ Collect
    \/ \E v \in Validators : Validator(v)

Next ==
    \/ \E s \in Sectors, m \in Multipliers : UpsertRule(s, m)
    \/ Submit
    \/ \E o \in Others : OtherCrawl(o)
    \/ \E honest \in SUBSET DOMAIN tasks, mode \in Modes :
        \E full \in fullValidationIndexes(mode, Len(tasks)) : StartImport(honest, full)
    \/ Goroutines
    \/ Expire

\* Some goroutine of the importer goes on (a crawl ends, as its requests have
\* a timeout) and deadlines pass; nobody need submit, govern or crawl
\* otherwise.
Spec ==
    /\ Init /\ [][Next]_vars
    /\ WF_vars(Goroutines) /\ WF_vars(Expire)

---------------------------------------------------------------------------
(***************************************************************************)
(* Properties.                                                             *)
(***************************************************************************)

(***************************************************************************)
(* A page that only one validator in three has seen does not get into the  *)
(* chain through a proof that is crawled again, however the goroutines,    *)
(* the deadline and the limiter interleave.                                *)
(***************************************************************************)
ForgedProofIsRefused ==
    call.verdict = "accepted" => \A i \in call.full : call.block[i].honest

(***************************************************************************)
(* The reward of every proof of an accepted block is a price that was in   *)
(* force at some time during its validation, although the registry may     *)
(* change between any two steps of it.                                     *)
(***************************************************************************)
PriceWasInForce ==
    call.verdict = "accepted" =>
        \A i \in DOMAIN call.block : call.block[i].price.bounty \in call.inForce

(***************************************************************************)
(* Every validation returns: no validator waits for ever for a place that  *)
(* other crawls keep taking.                                               *)
(***************************************************************************)
ValidationEnds == (call.pc # "idle") ~> (call.pc = "idle")

---------------------------------------------------------------------------
(***************************************************************************)
(* The inductive invariant of ValidateBlock.                               *)
(***************************************************************************)
Registries == UNION {[D -> Multipliers] : D \in SUBSET Sectors}
Prices == {[bounty |-> Apply(r).bounty, fee |-> Apply(r).fee] : r \in Registries}
Adjustments == {Apply(r) : r \in Registries}

CallTypeOK ==
    /\ rules \in Registries
    /\ tasks \in Seq(Prices)
    /\ call \in [pc : {"idle", "proof", "verify"},
                 block : Seq([price : Prices, honest : BOOLEAN]), full : SUBSET Nat, index : Nat,
                 adjustment : Adjustments, expired : BOOLEAN,
                 inForce : SUBSET {p.bounty : p \in Prices},
                 verdict : {"none", "refused", "accepted"}]
    /\ at \in [Validators -> {"resolve", "index", "done"}]
    /\ seen \in [Validators -> {"nothing", "ungoverned", "error", "mismatch", "match"}]

\* Proof i has passed: its price, and if it is crawled again its page.
Passed(i) ==
    /\ call.block[i].price.bounty \in call.inForce
    /\ i \in call.full => call.block[i].honest

\* The proofs before the current one have passed; at the end all of them.
PassedInOrder ==
    /\ call.full \subseteq DOMAIN call.block
    /\ call.pc # "idle" =>
        /\ call.index \in DOMAIN call.block
        /\ call.verdict = "none"
        /\ Apply(rules).bounty \in call.inForce
        /\ \A i \in 1 .. call.index - 1 : Passed(i)
    /\ call.pc = "verify" => call.block[call.index].price.bounty \in call.inForce
    /\ call.verdict = "accepted" => \A i \in DOMAIN call.block : Passed(i)

\* The goroutines run only while the call waits for them, and only a fooled
\* validator has seen a forged page.
ObservedByFew ==
    /\ call.pc # "verify" => \A v \in Validators : at[v] = "done" /\ seen[v] = "nothing"
    /\ call.pc = "verify" =>
        call.block[call.index].honest \/ \A v \in Validators \ Fooled : seen[v] # "match"

CallInv ==
    /\ CallTypeOK
    /\ PassedInOrder
    /\ ObservedByFew
=============================================================================
