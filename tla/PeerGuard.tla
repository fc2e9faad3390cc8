----------------------------- MODULE PeerGuard -----------------------------
(***************************************************************************)
(* What a node does with its peers: the reputation book                    *)
(* (core/peer_reputation.go) and the loops of core/p2p.go that ask it      *)
(* before they handle a message and tell it how the message fared.         *)
(*                                                                         *)
(* Three goroutines use the book for the same peer at once: consumeBlocks, *)
(* consumeTransactions and the chain sync (handleChainSync and             *)
(* syncFromPeer).  Each call of the book is atomic under b.mu, but the     *)
(* time it uses is read before the lock is taken, so a call may work with  *)
(* a time that has passed (by at most MaxDelay).                           *)
(*                                                                         *)
(* Time is kept relative to the present, which makes the state finite:     *)
(* an instant t is stored as t minus the present time.                     *)
(***************************************************************************)
EXTENDS Integers

CONSTANTS
    Peers,
    Loops,          \* the goroutines
    Penalties,      \* deltas of penalizePeer
    Rewards,        \* deltas of rewardPeer
    BanDuration,    \* DefaultPeerBanDuration, in units of time
    RecoveryWindow, \* DefaultPeerRecoveryWindow
    RecoveryStep,   \* DefaultPeerRecoveryStep
    MaxDelay        \* how long a call may wait for b.mu

DefaultPeerScore == 100
MinPeerScore == 0
MaxPeerScore == 100
BannedPeerScoreThreshold == 20

ASSUME DeltasAssumption == Penalties \subseteq Nat \ {0} /\ Rewards \subseteq Nat \ {0}
ASSUME DurationsAssumption ==
    /\ {BanDuration, RecoveryWindow, RecoveryStep} \subseteq Nat \ {0}
    /\ MaxDelay \in Nat /\ MaxDelay < BanDuration

\* Instants before these are all alike: nobody reads a time before Past,
\* and a score has recovered in full since Forgotten.
Past == -MaxDelay - 1
Forgotten == Past - RecoveryWindow * ((MaxPeerScore \div RecoveryStep) + 1)

Never == Past - 1  \* the zero time.Time, as bannedUntil

VARIABLES
    book,     \* b.entries: peer -> score, bannedUntil and lastUpdated
    loop      \* each goroutine: its place, its peer and the time it has read

vars == <<book, loop>>

\* A peer that is not in the book yet is as good as new.
NewEntry == [score |-> DefaultPeerScore, bannedUntil |-> Never, lastUpdated |-> 0]
Idle == [pc |-> "idle", peer |-> "", now |-> 0]

AtLeast(n, low) == IF n < low THEN low ELSE n
AtMost(n, high) == IF n > high THEN high ELSE n

---------------------------------------------------------------------------
(***************************************************************************)
(* The book.                                                               *)
(***************************************************************************)
isBanned(e, now) == e.bannedUntil # Never /\ now < e.bannedUntil

\* Mutant: a recovered score lifts the ban, served or not.
recoverLiftsBan(e, now) ==
    LET steps == (now - e.lastUpdated) \div RecoveryWindow
        score == AtMost(e.score + steps * RecoveryStep, MaxPeerScore)
    IN  IF steps <= 0 THEN e
        ELSE [score |-> score,
              bannedUntil |-> IF score > BannedPeerScoreThreshold THEN Never ELSE e.bannedUntil,
              lastUpdated |-> now]

\* recoverLocked: whole windows since the last update are rewarded.
recover(e, now) ==
    LET steps == (now - e.lastUpdated) \div RecoveryWindow
        score == AtMost(e.score + steps * RecoveryStep, MaxPeerScore)
    IN  IF steps <= 0 THEN e
        ELSE [score |-> score,
              bannedUntil |-> IF score > BannedPeerScoreThreshold /\ now > e.bannedUntil
                              THEN Never ELSE e.bannedUntil,
              lastUpdated |-> now]

Rewarded(e, delta, now) ==
    [recover(e, now) EXCEPT !.score = AtMost(@ + delta, MaxPeerScore), !.lastUpdated = now]

\* Mutant: the score is compared with the threshold before the penalty.
PenalizedTooLate(e, delta, now) ==
    LET r == recover(e, now) IN
    [score |-> AtLeast(r.score - delta, MinPeerScore),
     bannedUntil |-> IF r.score <= BannedPeerScoreThreshold
                     THEN now + BanDuration ELSE r.bannedUntil,
     lastUpdated |-> now]

Penalized(e, delta, now) ==
    LET r == recover(e, now)
        score == AtLeast(r.score - delta, MinPeerScore)
    IN  [score |-> score,
         bannedUntil |-> IF score <= BannedPeerScoreThreshold
                         THEN now + BanDuration ELSE r.bannedUntil,
         lastUpdated |-> now]

---------------------------------------------------------------------------
(***************************************************************************)
(* The loops.                                                              *)
(***************************************************************************)
\* The next call of the book reads the time anew.
Go(g, pc) == loop' = [loop EXCEPT ![g].pc = pc, ![g].now = 0]
End(g) == loop' = [loop EXCEPT ![g] = Idle]

\* A message of peer p arrives and the loop reads the time.
Receive(g, p) ==
    /\ loop[g] = Idle
    /\ loop' = [loop EXCEPT ![g] = [pc |-> "allowed", peer |-> p, now |-> 0]]
    /\ UNCHANGED book

\* Mutant: a message of a banned peer is held against it.
CheckAllowedPenalizes(g, verdict) ==
    /\ loop[g].pc = "allowed"
    /\ LET p == loop[g].peer
           e == recover(book[p], loop[g].now)
       IN  \/ /\ isBanned(e, loop[g].now)
              /\ book' = [book EXCEPT ![p] = Penalized(@, 4, loop[g].now)] /\ End(g)
           \/ /\ ~isBanned(e, loop[g].now)
              /\ book' = [book EXCEPT ![p] = e] /\ Go(g, verdict)

\* Allowed: a banned peer is disconnected.  An oversized message is
\* penalised at once, other messages are counted first, and the client of
\* a chain sync just goes on.
CheckAllowed(g, verdict) ==
    /\ loop[g].pc = "allowed"
    /\ LET p == loop[g].peer
           e == recover(book[p], loop[g].now)
       IN  /\ book' = [book EXCEPT ![p] = e]
           /\ \/ isBanned(e, loop[g].now) /\ End(g)
              \/ ~isBanned(e, loop[g].now) /\ Go(g, verdict)

\* AllowWithLimit: the message or the request is within the peer's share of
\* the window, or it is one too many.
LimitVerdicts == {"handle", "serve", "penalize"}

\* AdaptiveLimit, which is 0 for a peer that was banned in between, and
\* AllowWithLimit.
CheckLimit(g, verdict) ==
    /\ loop[g].pc = "limit"
    /\ LET p == loop[g].peer
           e == recover(book[p], loop[g].now)
       IN  /\ book' = [book EXCEPT ![p] = e]
           /\ \/ isBanned(e, loop[g].now) /\ End(g)
              \/ ~isBanned(e, loop[g].now) /\ Go(g, verdict)

\* The message is decoded and given to the node; how it fared is reported
\* with a time read then.
Handle(g, verdict) ==
    /\ loop[g].pc = "handle"
    /\ Go(g, verdict)
    /\ UNCHANGED book

\* The rest of handleChainSync.  A request that cannot be decoded or a block
\* that cannot be read is held against the peer, a served request is
\* rewarded, and a peer that asks for what is above the tip, or for a block
\* too large to send, is answered and no more.
ServeSync(g) ==
    /\ loop[g].pc = "serve"
    /\ Go(g, "penalize") \/ Go(g, "reward") \/ End(g)
    /\ UNCHANGED book

\* The loop of syncFromPeer, which asks for batch after batch and reports
\* once, at the end: a failed request, an error answer, a gap in the block
\* numbers or a block that is refused ends it with a penalty.
SyncFrom(g) ==
    /\ loop[g].pc = "sync"
    /\ Go(g, "penalize") \/ Go(g, "reward")
    /\ UNCHANGED book

Penalize(g, delta) ==
    /\ loop[g].pc = "penalize"
    /\ book' = [book EXCEPT ![loop[g].peer] = Penalized(@, delta, loop[g].now)]
    /\ End(g)

Reward(g, delta) ==
    /\ loop[g].pc = "reward"
    /\ book' = [book EXCEPT ![loop[g].peer] = Rewarded(@, delta, loop[g].now)]
    /\ End(g)

\* A message that is neither good nor bad (a transaction the pool refuses).
Ignore(g) ==
    /\ loop[g].pc = "handle"
    /\ End(g)
    /\ UNCHANGED book

\* Time passes.  No call waits for the lock longer than MaxDelay.
Tick ==
    /\ \A g \in Loops : loop[g] # Idle => loop[g].now > -MaxDelay
    /\ loop' = [g \in Loops |-> IF loop[g] = Idle THEN Idle ELSE [loop[g] EXCEPT !.now = @ - 1]]
    /\ book' = [p \in Peers |->
        [score |-> book[p].score,
         bannedUntil |-> IF book[p].bannedUntil = Never THEN Never
                         ELSE AtLeast(book[p].bannedUntil - 1, Past),
         lastUpdated |-> AtLeast(book[p].lastUpdated - 1, Forgotten)]]

---------------------------------------------------------------------------
Init ==
    /\ book = [p \in Peers |-> NewEntry]
    /\ loop = [g \in Loops |-> Idle]

Step(g) ==
    \/ \E verdict \in {"limit", "penalize", "sync"} : CheckAllowed(g, verdict)
    \/ \E verdict \in LimitVerdicts : CheckLimit(g, verdict)
    \/ \E verdict \in {"penalize", "reward"} : Handle(g, verdict)
    \/ \E delta \in Penalties : Penalize(g, delta)
    \/ \E delta \in Rewards : Reward(g, delta)
    \/ Ignore(g)
    \/ ServeSync(g)
    \/ SyncFrom(g)

Next ==
    \/ \E g \in Loops, p \in Peers : Receive(g, p)
    \/ \E g \in Loops : Step(g)
    \/ Tick

\* Clocks advance and a started call ends; peers need not send anything,
\* nor do they ever have to stop.
Spec == Init /\ [][Next]_vars /\ WF_vars(Tick) /\ \A g \in Loops : WF_vars(Step(g))

---------------------------------------------------------------------------
(***************************************************************************)
(* Properties.                                                             *)
(***************************************************************************)

\* The shape of the state: scores stay within their bounds.
TypeOK ==
    /\ book \in [Peers -> [score : MinPeerScore .. MaxPeerScore,
                           bannedUntil : Never .. BanDuration,
                           lastUpdated : Forgotten .. 0]]
    /\ loop \in [Loops -> [pc : {"idle", "allowed", "limit", "handle", "serve", "sync",
                                 "penalize", "reward"},
                           peer : Peers \cup {""}, now : -MaxDelay .. 0]]

(***************************************************************************)
(* No peer sinks to the ban threshold without being banned, whichever      *)
(* loops penalise and reward it in whatever order: a peer with such a      *)
(* score is banned or has served a ban.                                    *)
(***************************************************************************)
LowScoreMeansBan ==
    /\ TypeOK
    /\ \A p \in Peers :
        book[p].score <= BannedPeerScoreThreshold => book[p].bannedUntil # Never

(***************************************************************************)
(* A ban that runs is not lifted early, by recovery, by a reward that was  *)
(* on its way or by another loop's penalty, except that a penalty with a   *)
(* time read before the ban may cut it by as much as it was delayed.       *)
(***************************************************************************)
BanRunsItsCourse ==
    [][ \A p \in Peers :
            (book[p].bannedUntil > 1) =>
                \/ book'[p].bannedUntil >= book[p].bannedUntil - 1
                \/ book'[p].bannedUntil >= BanDuration - MaxDelay ]_vars

(***************************************************************************)
(* Every ban ends although the banned peer goes on sending: what it sends  *)
(* while it is banned is dropped without a penalty, and at most one        *)
(* message per loop was already past the check.                            *)
(***************************************************************************)
PeerIsForgiven == \A p \in Peers : []<>(~isBanned(book[p], 0))

---------------------------------------------------------------------------
\* The inductive invariant: a loop that is busy with a message has its peer.
LoopsHavePeers ==
    \A g \in Loops : IF loop[g].pc = "idle" THEN loop[g] = Idle ELSE loop[g].peer \in Peers

IInv == LowScoreMeansBan /\ LoopsHavePeers
=============================================================================
