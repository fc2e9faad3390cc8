----------------------------- MODULE Governance -----------------------------
(***************************************************************************)
(* The governance service of a node (core/node): the store of proposals,   *)
(* its file, and the way of an executed proposal into the PriorityRegistry *)
(* that prices bounties (GovernanceListener in core/consensus/pouw.go).    *)
(*                                                                         *)
(* Every operation of the store runs under g.mu, works on memory, saves    *)
(* the whole state to a file and takes the operation back when saving      *)
(* fails (mutateLocked).  An executed proposal is an event; it travels     *)
(*    broadcastEvent -> live -> relay goroutine -> channel -> listener     *)
(* while the store goes on.  A restart builds everything from the file.    *)
(***************************************************************************)
EXTENDS Integers, Sequences, SequencesExt, FiniteSets

CONSTANTS
    Sectors,            \* sectors proposals may boost
    Multipliers,        \* their multipliers, in basis points
    Stakes,
    StartBlock,         \* config.StartBlock
    CirculatingSupply,
    OperatorVotingPower,
    ProposalBlocks,     \* GovernanceProposalBlocks
    Buffer,             \* the capacity of the two channels
    SyncedBlocks,       \* heights SetCurrentBlock is called with
    MaxProposals,       \* bound: proposals made
    MaxVotes,           \* bound: votes cast on a proposal
    MaxBlock            \* bound: height reached

ASSUME NumbersAssumption ==
    /\ {CirculatingSupply, OperatorVotingPower, ProposalBlocks, Buffer} \subseteq Nat \ {0}
    /\ {StartBlock, MaxProposals, MaxVotes, MaxBlock} \subseteq Nat
    /\ StartBlock <= MaxBlock
    /\ Multipliers \subseteq Nat \ {0} /\ Stakes \subseteq Nat
ASSUME SyncedBlocksAssumption == SyncedBlocks \subseteq StartBlock .. MaxBlock

VARIABLES
    store,      \* GovernanceStore: currentBlock, proposals and events
    saved,      \* the file at StoragePath
    running,    \* the service is up
    pending,    \* what the relay goroutine has still to send
    live,       \* the subscriber's channel that broadcastEvent fills
    out,        \* the channel the listener reads
    rules,      \* PriorityRegistry.rules: sector -> rule
    missed      \* history: proposals whose event found live full

vars == <<store, saved, running, pending, live, out, rules, missed>>
channels == <<pending, live, out, rules>>

---------------------------------------------------------------------------
VoteChoices == {"against", "for", "abstain"}

NewProposal(sector, multiplier, stake, now) ==
    [sector |-> sector, multiplier |-> multiplier, stake |-> stake,
     endBlock |-> now + ProposalBlocks,
     votes |-> [c \in VoteChoices |-> 0],
     executed |-> FALSE, rejected |-> FALSE, architectCut |-> 0, burnAmount |-> 0]

ArchitectFee(amount) == (amount * 333) \div 10000

QuorumVotes == (CirculatingSupply * 1000) \div 10000

Participation(p) == p.votes["for"] + p.votes["against"] + p.votes["abstain"]

Passed(p) ==
    p.votes["for"] > p.votes["against"] /\ Participation(p) >= QuorumVotes

statusOf(p, now) ==
    CASE p.executed -> "executed"
      [] p.rejected -> "rejected"
      [] ~p.executed /\ ~p.rejected /\ now <= p.endBlock -> "active"
      [] OTHER -> "queued"

\* ToPriorityRule: sectors are normalised names and multipliers are never zero
\* here (CreateProposal sees to both), so that only the fields are taken over.
ToPriorityRule(e) == [multiplier |-> e.multiplier, source |-> e.proposal]

\* UpsertRule: one rule per sector, the last one wins.
UpsertRule(registry, e) ==
    [s \in DOMAIN registry \cup {e.sector} |->
        IF s = e.sector THEN ToPriorityRule(e) ELSE registry[s]]

---------------------------------------------------------------------------
(***************************************************************************)
(* mutateLocked: the new state is saved with a rename and acknowledged, or *)
(* saving fails and memory goes back to what it was; a crash in between    *)
(* leaves the old file or the new one.                                     *)
(***************************************************************************)

Empty == [currentBlock |-> StartBlock, proposals |-> <<>>, events |-> <<>>]

\* The process ends and its memory is lost.
Stop ==
    /\ running' = FALSE
    /\ store' = Empty
    /\ pending' = <<>>
    /\ live' = <<>> /\ out' = <<>> /\ rules' = <<>> /\ missed' = {}

\* applySnapshotLocked.
Loaded(snapshot) ==
    [snapshot EXCEPT !.currentBlock = IF @ = 0 THEN StartBlock ELSE @]

Save(new) ==
    /\ store' = new
    /\ saved' = new
    /\ UNCHANGED running

\* Mutant: memory keeps what could not be saved.
SaveFailsKeepingMemory(new) ==
    /\ store' = new
    /\ UNCHANGED <<saved, running>>

SaveFails(new) ==
    /\ store' = Loaded(store)
    /\ UNCHANGED <<saved, running>>

CrashAfterSave(new) ==
    /\ saved' = new
    /\ Stop

\* An operation that broadcasts nothing.
Mutate(new) ==
    /\ running
    /\ \/ (Save(new) \/ SaveFails(new)) /\ UNCHANGED <<channels, missed>>
       \/ CrashAfterSave(new)

---------------------------------------------------------------------------
(***************************************************************************)
(* The operations of the store.                                            *)
(***************************************************************************)
AdvanceBlocks(n) ==
    /\ store.currentBlock + n <= MaxBlock
    /\ Mutate([store EXCEPT !.currentBlock = @ + n])

SetCurrentBlock(block) ==
    Mutate([store EXCEPT !.currentBlock = block])

\* The identifier of a proposal is its place in the sequence.
CreateProposal(sector, multiplier, stake) ==
    /\ Len(store.proposals) < MaxProposals
    /\ OperatorVotingPower >= 1000 \/ stake >= 1000
    /\ Mutate([store EXCEPT !.proposals =
                Append(@, NewProposal(sector, multiplier, stake, store.currentBlock))])

\* Mutant: any proposal takes votes.
CastVoteAnyTime(id, choice) ==
    /\ Participation(store.proposals[id]) < MaxVotes * OperatorVotingPower
    /\ Mutate([store EXCEPT !.proposals[id].votes[choice] = @ + OperatorVotingPower])

CastVote(id, choice) ==
    /\ Participation(store.proposals[id]) < MaxVotes * OperatorVotingPower
    /\ statusOf(store.proposals[id], store.currentBlock) = "active"
    /\ Mutate([store EXCEPT !.proposals[id].votes[choice] = @ + OperatorVotingPower])

EventOf(id) ==
    [proposal |-> id, sector |-> store.proposals[id].sector,
     multiplier |-> store.proposals[id].multiplier, block |-> store.currentBlock]

\* Mutant: the event overtakes the file.
BroadcastFirst(e, new) ==
    /\ Save(new) \/ SaveFails(new)
    /\ live' = IF Len(live) < Buffer THEN Append(live, e) ELSE live
    /\ missed' = IF Len(live) < Buffer THEN missed ELSE missed \cup {e.proposal}
    /\ UNCHANGED <<pending, out, rules>>

\* broadcastEvent does not wait: an event that finds the channel full is
\* gone for this subscriber.
Broadcast(e, new) ==
    \/ /\ Save(new)
       /\ live' = IF Len(live) < Buffer THEN Append(live, e) ELSE live
       /\ missed' = IF Len(live) < Buffer THEN missed ELSE missed \cup {e.proposal}
       /\ UNCHANGED <<pending, out, rules>>
    \/ SaveFails(new) /\ UNCHANGED <<channels, missed>>
    \/ CrashAfterSave(new)

\* Mutant: a finalized proposal may be finalized again.
OpenAlways(p) == TRUE

Open(p) == ~p.executed /\ ~p.rejected

FinalizeProposal(id) ==
    /\ running
    /\ store.currentBlock > store.proposals[id].endBlock
    /\ Open(store.proposals[id])
    /\ \/ /\ Passed(store.proposals[id])
          /\ Broadcast(EventOf(id),
                [store EXCEPT !.proposals[id].executed = TRUE,
                              !.events = Append(@, EventOf(id))])
       \/ /\ ~Passed(store.proposals[id])
          /\ LET stake == store.proposals[id].stake IN
             Mutate([store EXCEPT !.proposals[id].rejected = TRUE,
                                  !.proposals[id].architectCut = ArchitectFee(stake),
                                  !.proposals[id].burnAmount = stake - ArchitectFee(stake)])

---------------------------------------------------------------------------
(***************************************************************************)
(* The way of an event to the registry.                                    *)
(***************************************************************************)
\* The relay goroutine sends history first, then what comes in live.
Relay ==
    /\ running /\ pending = <<>> /\ live # <<>>
    /\ pending' = <<Head(live)>>
    /\ live' = Tail(live)
    /\ UNCHANGED <<store, saved, running, out, rules, missed>>

\* Mutant: the last place of the channel is never used.
SendOffByOne ==
    /\ running /\ pending # <<>> /\ Len(out) + 1 < Buffer
    /\ out' = Append(out, Head(pending))
    /\ pending' = Tail(pending)
    /\ UNCHANGED <<store, saved, running, live, rules, missed>>

Send ==
    /\ running /\ pending # <<>> /\ Len(out) < Buffer
    /\ out' = Append(out, Head(pending))
    /\ pending' = Tail(pending)
    /\ UNCHANGED <<store, saved, running, live, rules, missed>>

\* GovernanceListener.Run
Listen ==
    /\ running /\ out # <<>>
    /\ rules' = UpsertRule(rules, Head(out))
    /\ out' = Tail(out)
    /\ UNCHANGED <<store, saved, running, pending, live, missed>>

Crash ==
    /\ running
    /\ Stop
    /\ UNCHANGED saved

\* The loop of SubscribeGovernanceEvents over g.events.
Historical(events) ==
    LET kept[i \in 0 .. Len(events)] ==
            IF i = 0 THEN <<>>
            ELSE IF events[i].block >= StartBlock THEN Append(kept[i - 1], events[i])
            ELSE kept[i - 1]
    IN  kept[Len(events)]

\* NewService and StartListener: load, then subscribe from StartBlock;
\* history and the subscription are taken under one lock.
Restart ==
    /\ ~running
    /\ running' = TRUE
    /\ store' = Loaded(saved)
    /\ pending' = Historical(saved.events)
    /\ live' = <<>> /\ out' = <<>> /\ rules' = <<>> /\ missed' = {}
    /\ UNCHANGED saved

---------------------------------------------------------------------------
Init ==
    /\ store = Empty /\ saved = Empty
    /\ running = TRUE
    /\ pending = <<>>
    /\ live = <<>> /\ out = <<>> /\ rules = <<>> /\ missed = {}

Next ==
    \/ AdvanceBlocks(1)
    \/ \E block \in SyncedBlocks : SetCurrentBlock(block)
    \/ \E s \in Sectors, m \in Multipliers, stake \in Stakes : CreateProposal(s, m, stake)
    \/ \E id \in DOMAIN store.proposals, choice \in VoteChoices : CastVote(id, choice)
    \/ \E id \in DOMAIN store.proposals : FinalizeProposal(id)
    \/ Relay
    \/ Send
    \/ Listen
    \/ Crash
    \/ Restart

\* The goroutines between the store and the registry keep running; requests,
\* crashes and restarts need not happen.
Spec == Init /\ [][Next]_vars /\ WF_vars(Relay) /\ WF_vars(Send) /\ WF_vars(Listen)

---------------------------------------------------------------------------
(***************************************************************************)
(* Properties.                                                             *)
(***************************************************************************)
Events == [proposal : 1 .. MaxProposals, sector : Sectors, multiplier : Multipliers,
           block : StartBlock .. MaxBlock]

\* The shape of the state; the channels never hold more than they can.
TypeOK ==
    /\ store.currentBlock \in StartBlock .. MaxBlock
    /\ Len(store.proposals) <= MaxProposals
    /\ ToSet(store.events) \cup ToSet(pending) \cup ToSet(live) \cup ToSet(out) \subseteq Events
    /\ Len(live) <= Buffer /\ Len(out) <= Buffer
    /\ DOMAIN rules \subseteq Sectors
    /\ running \in BOOLEAN

(***************************************************************************)
(* What a request was told has happened is on disk and what it was told    *)
(* has failed has not happened: while the service is up, memory and file   *)
(* are the same.                                                           *)
(***************************************************************************)
AcknowledgedIsSaved == running => store = saved

(***************************************************************************)
(* Every executed proposal has one event and every event an executed       *)
(* proposal, through failed saves, retries of the finalization, crashes    *)
(* between save and broadcast, and restarts.                               *)
(***************************************************************************)
OneEventPerExecution ==
    /\ TypeOK
    /\ \A s \in {store, saved} :
        /\ {s.events[i].proposal : i \in DOMAIN s.events}
             = {id \in DOMAIN s.proposals : s.proposals[id].executed}
        /\ IsInjective([i \in DOMAIN s.events |-> s.events[i].proposal])

\* The rule of sector r once the events q, in the order of their indexes,
\* have been put into the registry: none or one.
RuleAfter(registry, q, r) ==
    LET named == {i \in DOMAIN q : q[i].sector = r}
    IN  IF named = {}
        THEN {registry[x] : x \in DOMAIN registry \cap {r}}
        ELSE {ToPriorityRule(q[i]) : i \in {k \in named : \A j \in named : j <= k}}

\* The events of the store that did not find the channel full.
NotMissed ==
    Restrict(store.events,
             {i \in DOMAIN store.events : store.events[i].proposal \notin missed})

(***************************************************************************)
(* The registry and what is on its way to it always add up to the events   *)
(* of the store: each sector is ruled by its last event, no matter how     *)
(* far the relay and the listener have come.  Only events that found the   *)
(* channel full are missing, and a restart brings them back.               *)
(***************************************************************************)
RulesFollowEvents ==
    running =>
        \A r \in Sectors :
            RuleAfter(rules, out \o pending \o live, r) = RuleAfter(<<>>, NotMissed, r)

(***************************************************************************)
(* What is decided stays decided: a finalized proposal keeps its votes and *)
(* its outcome and the events are only appended to, also when the height   *)
(* goes back in a reorganisation, a save fails or the node restarts.       *)
(***************************************************************************)
DecidedIsFinal ==
    [][ /\ \A id \in DOMAIN saved.proposals :
            /\ id \in DOMAIN saved'.proposals
            /\ ~Open(saved.proposals[id]) => saved'.proposals[id] = saved.proposals[id]
        /\ IsPrefix(saved.events, saved'.events) ]_vars

(***************************************************************************)
(* The rules of executed proposals come into force: again and again the    *)
(* registry has caught up with every event it has not lost, unless the     *)
(* service is down.                                                        *)
(***************************************************************************)
RulesCatchUp == []<>(~running \/ (out = <<>> /\ pending = <<>> /\ live = <<>>))

---------------------------------------------------------------------------
(***************************************************************************)
(* The inductive invariant.                                                *)
(***************************************************************************)
Proposals == [sector : Sectors, multiplier : Multipliers, stake : Stakes, endBlock : Nat,
              votes : [VoteChoices -> Nat], executed : BOOLEAN, rejected : BOOLEAN,
              architectCut : Nat, burnAmount : Int]

Snapshots == [currentBlock : StartBlock .. MaxBlock, proposals : Seq(Proposals),
              events : Seq(Events)]

Executed(s) == {id \in DOMAIN s.proposals : s.proposals[id].executed}

SnapshotOK(s) ==
    /\ s \in Snapshots
    /\ Len(s.proposals) <= MaxProposals
    /\ {s.events[i].proposal : i \in DOMAIN s.events} = Executed(s)
    /\ IsInjective([i \in DOMAIN s.events |-> s.events[i].proposal])

ChannelsOK ==
    /\ pending \in Seq(Events) /\ live \in Seq(Events) /\ out \in Seq(Events)
    /\ Len(live) <= Buffer /\ Len(out) <= Buffer
    /\ DOMAIN rules \subseteq Sectors
    /\ running \in BOOLEAN

IInv ==
    /\ SnapshotOK(store) /\ SnapshotOK(saved)
    /\ ChannelsOK
    /\ AcknowledgedIsSaved
    /\ missed \subseteq Executed(store)
    /\ RulesFollowEvents
=============================================================================
