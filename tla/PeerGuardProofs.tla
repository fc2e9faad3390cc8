-------------------------- MODULE PeerGuardProofs --------------------------
(***************************************************************************)
(* Reputation and bans for any number of peers and goroutines and any      *)
(* durations: a low score always comes with a ban, and a ban runs its      *)
(* course.                                                                 *)
(***************************************************************************)
EXTENDS PeerGuard, TLAPS

---------------------------------------------------------------------------
(***************************************************************************)
(* The book's arithmetic.                                                  *)
(***************************************************************************)

Entry == [score : MinPeerScore .. MaxPeerScore,
          bannedUntil : Never .. BanDuration,
          lastUpdated : Forgotten .. 0]

\* The times a call may have read.
Times == -MaxDelay .. 0

\* An entry whose low score comes with a ban.
Sound(e) == e \in Entry /\ (e.score <= BannedPeerScoreThreshold => e.bannedUntil # Never)

\* What the time after which nothing matters has to do with the others.
LEMMA TimeBounds ==
    /\ MaxDelay \in Nat /\ BanDuration \in Nat /\ RecoveryWindow \in Nat \ {0}
    /\ RecoveryStep \in Nat \ {0} /\ MaxDelay < BanDuration
    /\ Past \in Int /\ Never \in Int /\ Forgotten \in Int
    /\ Past = -MaxDelay - 1 /\ Never = -MaxDelay - 2
    /\ Forgotten <= Past
<1>1. /\ MaxDelay \in Nat /\ BanDuration \in Nat /\ RecoveryWindow \in Nat \ {0}
      /\ RecoveryStep \in Nat \ {0} /\ MaxDelay < BanDuration
    BY DurationsAssumption
<1>2. Past \in Int /\ Never \in Int /\ Past = -MaxDelay - 1 /\ Never = -MaxDelay - 2
    BY <1>1 DEF Past, Never
<1>3. PICK k \in Nat : k = (MaxPeerScore \div RecoveryStep) + 1
    BY <1>1 DEF MaxPeerScore
<1>4. RecoveryWindow * k \in Nat
    BY <1>1, <1>3
<1> QED
    BY <1>1, <1>2, <1>3, <1>4 DEF Forgotten

\* recoverLocked: the score only rises, within its bounds, and the ban stays
\* unless it was over at the time the call has read.
LEMMA RecoverEffect ==
    ASSUME NEW e \in Entry, NEW now \in Times, NEW r, r = recover(e, now)
    PROVE  /\ r \in Entry
           /\ r.score >= e.score
           /\ \/ r.bannedUntil = e.bannedUntil
              \/ /\ r.bannedUntil = Never /\ now > e.bannedUntil
                 /\ r.score > BannedPeerScoreThreshold
<1>1. /\ e.score \in 0 .. 100 /\ e.bannedUntil \in Never .. BanDuration
      /\ e.lastUpdated \in Forgotten .. 0
    BY DEF Entry, MinPeerScore, MaxPeerScore
<1>2. now \in Int /\ -MaxDelay <= now /\ now <= 0
    BY TimeBounds DEF Times
<1>3. PICK steps \in Int : steps = (now - e.lastUpdated) \div RecoveryWindow
    BY <1>1, <1>2, TimeBounds
<1>4. CASE steps <= 0
    BY <1>1, <1>3, <1>4 DEF recover
<1>5. CASE steps > 0
    <2>0. PICK gain : gain = steps * RecoveryStep
        OBVIOUS
    <2>1. gain \in Nat
        BY <1>5, <2>0, TimeBounds
    <2>2. PICK score : score = AtMost(e.score + gain, MaxPeerScore)
        OBVIOUS
    <2>3. score \in 0 .. 100 /\ score >= e.score
        <3>1. PICK old \in 0 .. 100 : old = e.score
            BY <1>1
        <3>2. score = IF old + gain > 100 THEN 100 ELSE old + gain
            BY <2>2, <3>1 DEF AtMost, MaxPeerScore
        <3> QED
            BY <2>1, <3>1, <3>2
    <2>4. PICK until : until = IF score > BannedPeerScoreThreshold /\ now > e.bannedUntil
                               THEN Never ELSE e.bannedUntil
        OBVIOUS
    <2>5. r = [score |-> score, bannedUntil |-> until, lastUpdated |-> now]
        BY <1>3, <1>5, <2>0, <2>2, <2>4 DEF recover
    <2>6. until \in Never .. BanDuration /\ now \in Forgotten .. 0
        BY <1>1, <1>2, <2>4, TimeBounds
    <2> QED
        BY <2>3, <2>4, <2>5, <2>6 DEF Entry, MinPeerScore, MaxPeerScore
<1> QED
    BY <1>3, <1>4, <1>5

\* So recovery leaves no low score without a ban.
LEMMA RecoverSound ==
    ASSUME NEW e, Sound(e), NEW now \in Times
    PROVE  Sound(recover(e, now))
<1>1. PICK r : r = recover(e, now)
    OBVIOUS
<1>2. /\ r \in Entry /\ r.score >= e.score /\ e \in Entry
      /\ \/ r.bannedUntil = e.bannedUntil
         \/ r.bannedUntil = Never /\ r.score > BannedPeerScoreThreshold
    BY <1>1, RecoverEffect DEF Sound
<1>3. e.score \in Int /\ r.score \in Int
    BY <1>2 DEF Entry, MinPeerScore, MaxPeerScore
<1> QED
    BY <1>1, <1>2, <1>3 DEF Sound, BannedPeerScoreThreshold

\* Reward raises the score and leaves the ban as recovery left it.
LEMMA RewardedEffect ==
    ASSUME NEW e, Sound(e), NEW now \in Times, NEW delta \in Nat
    PROVE  /\ Sound(Rewarded(e, delta, now))
           /\ Rewarded(e, delta, now).bannedUntil = recover(e, now).bannedUntil
<1>1. PICK r : r = recover(e, now)
    OBVIOUS
<1>2. Sound(r)
    BY <1>1, RecoverSound
<1>3. /\ r.score \in 0 .. 100 /\ r.bannedUntil \in Never .. BanDuration
      /\ r = [score |-> r.score, bannedUntil |-> r.bannedUntil, lastUpdated |-> r.lastUpdated]
    BY <1>2 DEF Sound, Entry, MinPeerScore, MaxPeerScore
<1>4. PICK score : score = AtMost(r.score + delta, MaxPeerScore)
    OBVIOUS
<1>5. Rewarded(e, delta, now) =
        [score |-> score, bannedUntil |-> r.bannedUntil, lastUpdated |-> now]
    <2>1. Rewarded(e, delta, now) = [r EXCEPT !.score = score, !.lastUpdated = now]
        BY <1>1, <1>4 DEF Rewarded
    <2> QED
        BY <1>3, <2>1
<1>6. score \in 0 .. 100 /\ score >= r.score /\ now \in Forgotten .. 0
    BY <1>3, <1>4, TimeBounds DEF AtMost, MaxPeerScore, Times
<1> QED
    BY <1>1, <1>2, <1>3, <1>5, <1>6
    DEF Sound, Entry, MinPeerScore, MaxPeerScore, BannedPeerScoreThreshold

\* Penalize bans at the threshold; a ban it sets runs for BanDuration from
\* the time the call has read.
LEMMA PenalizedEffect ==
    ASSUME NEW e, Sound(e), NEW now \in Times, NEW delta \in Nat
    PROVE  /\ Sound(Penalized(e, delta, now))
           /\ Penalized(e, delta, now).bannedUntil
                \in {recover(e, now).bannedUntil, now + BanDuration}
<1>1. PICK r : r = recover(e, now)
    OBVIOUS
<1>2. Sound(r)
    BY <1>1, RecoverSound
<1>3. r.score \in 0 .. 100 /\ r.bannedUntil \in Never .. BanDuration
    BY <1>2 DEF Sound, Entry, MinPeerScore, MaxPeerScore
<1>4. PICK score : score = AtLeast(r.score - delta, MinPeerScore)
    OBVIOUS
<1>5. score \in 0 .. 100
    BY <1>3, <1>4 DEF AtLeast, MinPeerScore
<1>6. PICK until : until = IF score <= BannedPeerScoreThreshold
                           THEN now + BanDuration ELSE r.bannedUntil
    OBVIOUS
<1>7. Penalized(e, delta, now) =
        [score |-> score, bannedUntil |-> until, lastUpdated |-> now]
    BY <1>1, <1>4, <1>6 DEF Penalized
<1>8. /\ until \in Never .. BanDuration /\ now \in Forgotten .. 0
      /\ score <= BannedPeerScoreThreshold => until # Never
    BY <1>3, <1>6, TimeBounds DEF Times
<1> QED
    BY <1>1, <1>5, <1>6, <1>7, <1>8 DEF Sound, Entry, MinPeerScore, MaxPeerScore

---------------------------------------------------------------------------
(***************************************************************************)
(* The loops.                                                              *)
(***************************************************************************)

Places == {"idle", "allowed", "limit", "handle", "serve", "sync", "penalize", "reward"}
LoopState == [pc : Places, peer : Peers \cup {""}, now : Times]

\* A loop at some place with a peer and a time is well formed.
LEMMA LoopStateMade ==
    ASSUME NEW pc \in Places, NEW p \in Peers \cup {""}, NEW t \in Times
    PROVE  [pc |-> pc, peer |-> p, now |-> t] \in LoopState
<1>1. PICK P : P = Peers \cup {""} /\ p \in P
    OBVIOUS
<1> QED
    BY <1>1 DEF LoopState

\* A loop may be idle, may have read the time just now, may be at any place.
LEMMA LoopValues ==
    /\ 0 \in Times /\ "idle" \in Places /\ "allowed" \in Places
    /\ {"limit", "handle", "serve", "sync", "penalize", "reward"} \subseteq Places
    /\ Idle \in LoopState /\ Idle.pc = "idle"
<1>1. 0 \in Times
    BY TimeBounds DEF Times
<1>2. /\ "idle" \in Places /\ "allowed" \in Places
      /\ {"limit", "handle", "serve", "sync", "penalize", "reward"} \subseteq Places
    BY DEF Places
<1>3. [pc |-> "idle", peer |-> "", now |-> 0] \in LoopState
    BY <1>1, <1>2, LoopStateMade
<1> QED
    BY <1>1, <1>2, <1>3 DEF Idle

\* IInv says that every entry is sound.
LEMMA IInvMeans ==
    IInv <=> /\ book \in [Peers -> Entry] /\ \A p \in Peers : Sound(book[p])
             /\ loop \in [Loops -> LoopState] /\ LoopsHavePeers
BY DEF IInv, LowScoreMeansBan, TypeOK, Entry, Sound, LoopState, Times, Places

\* A busy loop goes on to a place of its own, or becomes idle.
LEMMA LoopMoves ==
    ASSUME loop \in [Loops -> LoopState], LoopsHavePeers,
           NEW g \in Loops, loop[g].pc # "idle",
           \/ \E pc \in {"limit", "handle", "serve", "sync", "penalize", "reward"} : Go(g, pc)
           \/ End(g)
    PROVE  (loop \in [Loops -> LoopState] /\ LoopsHavePeers)'
<1>1. 0 \in Times
    BY LoopValues
<1>2. loop[g].peer \in Peers
    BY DEF LoopsHavePeers
<1>3. CASE End(g)
    BY <1>3, LoopValues DEF End, LoopsHavePeers
<1>4. ASSUME NEW pc \in {"limit", "handle", "serve", "sync", "penalize", "reward"}, Go(g, pc)
      PROVE  (loop \in [Loops -> LoopState] /\ LoopsHavePeers)'
    <2>1. loop[g] = [pc |-> loop[g].pc, peer |-> loop[g].peer, now |-> loop[g].now]
        BY DEF LoopState
    <2>2. /\ loop' \in [Loops -> LoopState \cup {loop'[g]}]
          /\ \A o \in Loops \ {g} : loop'[o] = loop[o]
          /\ loop'[g] = [loop[g] EXCEPT !.pc = pc, !.now = 0]
        BY <1>4 DEF Go
    <2>3. loop'[g] = [pc |-> pc, peer |-> loop[g].peer, now |-> 0]
        BY <2>1, <2>2
    <2>4. pc \in Places /\ loop[g].peer \in Peers \cup {""}
        BY <1>2, LoopValues
    <2>5. loop'[g] \in LoopState
        BY <1>1, <2>3, <2>4, LoopStateMade
    <2>6. loop'[g].pc # "idle" /\ loop'[g].peer \in Peers
        BY <1>2, <2>3
    <2> QED
        BY <2>2, <2>5, <2>6 DEF LoopsHavePeers
<1> QED
    BY <1>3, <1>4

\* What one call of the book does: it replaces the entry of its peer with a
\* sound one, whose ban is the old one, a ban that was over, or a new ban.
BookCall ==
    \E p \in Peers, e \in Entry, now \in Times :
        /\ book' = [book EXCEPT ![p] = e] /\ Sound(e)
        /\ \/ e.bannedUntil = book[p].bannedUntil
           \/ now > book[p].bannedUntil
           \/ e.bannedUntil = now + BanDuration

LEMMA BookCalls ==
    ASSUME IInv, NEW g \in Loops,
           \/ \E verdict \in {"limit", "penalize", "sync"} : CheckAllowed(g, verdict)
           \/ \E verdict \in LimitVerdicts : CheckLimit(g, verdict)
           \/ \E delta \in Penalties : Penalize(g, delta)
           \/ \E delta \in Rewards : Reward(g, delta)
    PROVE  /\ BookCall
           /\ loop[g].pc # "idle"
           /\ \/ \E pc \in {"limit", "handle", "serve", "sync", "penalize", "reward"} : Go(g, pc)
              \/ End(g)
<1>1. loop[g].pc # "idle"
      /\ \/ \E pc \in {"limit", "handle", "serve", "sync", "penalize", "reward"} : Go(g, pc)
         \/ End(g)
    BY DEF CheckAllowed, CheckLimit, Penalize, Reward, LimitVerdicts
<1>2. /\ loop[g].peer \in Peers /\ loop[g].now \in Times
      /\ book \in [Peers -> Entry] /\ Sound(book[loop[g].peer])
    BY <1>1, IInvMeans DEF LoopsHavePeers, LoopState
<1>3. PICK p \in Peers, now \in Times : p = loop[g].peer /\ now = loop[g].now
    BY <1>2
<1>4. PICK old : old = book[p] /\ Sound(old) /\ old \in Entry
    BY <1>2, <1>3 DEF Sound
<1>5. PICK r : r = recover(old, now)
    OBVIOUS
<1>6. /\ Sound(r) /\ r \in Entry
      /\ r.bannedUntil = old.bannedUntil \/ now > old.bannedUntil
    BY <1>4, <1>5, RecoverSound, RecoverEffect
<1>7. CASE \/ \E verdict \in {"limit", "penalize", "sync"} : CheckAllowed(g, verdict)
           \/ \E verdict \in LimitVerdicts : CheckLimit(g, verdict)
    <2>1. book' = [book EXCEPT ![p] = r]
        BY <1>3, <1>4, <1>5, <1>7 DEF CheckAllowed, CheckLimit
    <2> QED
        BY <1>1, <1>4, <1>6, <2>1 DEF BookCall
<1>8. ASSUME NEW delta \in Penalties, Penalize(g, delta)
      PROVE  BookCall
    <2>1. PICK e : e = Penalized(old, delta, now)
        OBVIOUS
    <2>2. Sound(e) /\ e.bannedUntil \in {r.bannedUntil, now + BanDuration}
        BY <1>4, <1>5, <2>1, PenalizedEffect, DeltasAssumption
    <2>3. book' = [book EXCEPT ![p] = e]
        BY <1>2, <1>3, <1>4, <1>8, <2>1 DEF Penalize
    <2> QED
        BY <1>4, <1>6, <2>2, <2>3 DEF BookCall, Sound
<1>9. ASSUME NEW delta \in Rewards, Reward(g, delta)
      PROVE  BookCall
    <2>1. PICK e : e = Rewarded(old, delta, now)
        OBVIOUS
    <2>2. Sound(e) /\ e.bannedUntil = r.bannedUntil
        BY <1>4, <1>5, <2>1, RewardedEffect, DeltasAssumption
    <2>3. book' = [book EXCEPT ![p] = e]
        BY <1>2, <1>3, <1>4, <1>9, <2>1 DEF Reward
    <2> QED
        BY <1>4, <1>6, <2>2, <2>3 DEF BookCall, Sound
<1> QED
    BY <1>1, <1>7, <1>8, <1>9

\* What the passing of a unit of time does to the book.
LEMMA TickEffect ==
    ASSUME IInv, Tick
    PROVE  /\ IInv'
           /\ \A p \in Peers : book[p].bannedUntil > 1 =>
                book'[p].bannedUntil >= book[p].bannedUntil - 1
<1>1. /\ book \in [Peers -> Entry] /\ \A p \in Peers : Sound(book[p])
      /\ loop \in [Loops -> LoopState] /\ LoopsHavePeers
    BY IInvMeans
<1>2. ASSUME NEW p \in Peers
      PROVE  /\ Sound(book'[p]) /\ book'[p] \in Entry
             /\ book[p].bannedUntil > 1 => book'[p].bannedUntil >= book[p].bannedUntil - 1
    <2>1. PICK e : e = book[p] /\ Sound(e) /\ e \in Entry
        BY <1>1
    <2>2. /\ e.score \in 0 .. 100 /\ e.bannedUntil \in Never .. BanDuration
          /\ e.lastUpdated \in Forgotten .. 0
        BY <2>1 DEF Entry, MinPeerScore, MaxPeerScore
    <2>3. PICK until, last :
            /\ until = IF e.bannedUntil = Never THEN Never ELSE AtLeast(e.bannedUntil - 1, Past)
            /\ last = AtLeast(e.lastUpdated - 1, Forgotten)
        OBVIOUS
    <2>4. book'[p] = [score |-> e.score, bannedUntil |-> until, lastUpdated |-> last]
        BY <2>1, <2>3 DEF Tick
    <2>5. /\ until \in Never .. BanDuration /\ last \in Forgotten .. 0
          /\ e.bannedUntil # Never => until # Never
          /\ e.bannedUntil > 1 => until >= e.bannedUntil - 1
        BY <2>2, <2>3, TimeBounds DEF AtLeast
    <2> QED
        BY <2>1, <2>2, <2>4, <2>5 DEF Sound, Entry, MinPeerScore, MaxPeerScore
<1>3. book' \in [Peers -> Entry]
    BY <1>2 DEF Tick
<1>4. ASSUME NEW g \in Loops
      PROVE  /\ loop'[g] \in LoopState
             /\ IF loop'[g].pc = "idle" THEN loop'[g] = Idle ELSE loop'[g].peer \in Peers
    <2>1. CASE loop[g] = Idle
        BY <1>1, <2>1 DEF Tick, LoopsHavePeers, Idle
    <2>2. CASE loop[g] # Idle
        <3>1. loop[g].pc # "idle" /\ loop[g].peer \in Peers /\ loop[g] \in LoopState
            BY <1>1, <2>2 DEF LoopsHavePeers
        <3>2. loop[g] = [pc |-> loop[g].pc, peer |-> loop[g].peer, now |-> loop[g].now]
              /\ loop[g].now \in Times
            BY <3>1 DEF LoopState
        <3>3. loop[g].now - 1 \in Times
            BY <2>2, <3>2, TimeBounds DEF Tick, Times
        <3>4. loop'[g] = [pc |-> loop[g].pc, peer |-> loop[g].peer, now |-> loop[g].now - 1]
            BY <2>2, <3>2 DEF Tick
        <3>5. loop[g].pc \in Places
            BY <3>1 DEF LoopState
        <3>6. loop'[g] \in LoopState
            BY <3>1, <3>3, <3>4, <3>5, LoopStateMade
        <3> QED
            BY <3>1, <3>4, <3>6
    <2> QED
        BY <2>1, <2>2
<1>5. loop' \in [Loops -> LoopState] /\ LoopsHavePeers'
    BY <1>4 DEF Tick, LoopsHavePeers
<1>6. (/\ book \in [Peers -> Entry] /\ \A p \in Peers : Sound(book[p])
       /\ loop \in [Loops -> LoopState] /\ LoopsHavePeers)'
    BY <1>2, <1>3, <1>5
<1>7. IInv'
    BY <1>6, IInvMeans, PTL
<1> QED
    BY <1>2, <1>7

---------------------------------------------------------------------------
\* A step is a tick of the clock, a call of the book, or leaves the book
\* alone; in each case the loops stay well formed.
LEMMA StepEffect ==
    ASSUME IInv, [Next]_vars
    PROVE  /\ IInv'
           /\ \/ Tick
              \/ BookCall
              \/ UNCHANGED book
<1>1. /\ book \in [Peers -> Entry] /\ \A p \in Peers : Sound(book[p])
      /\ loop \in [Loops -> LoopState] /\ LoopsHavePeers
    BY IInvMeans
<1>2. CASE Tick
    BY <1>2, TickEffect
<1>3. ASSUME UNCHANGED book, (loop \in [Loops -> LoopState] /\ LoopsHavePeers)'
      PROVE  IInv'
    <2>1. (/\ book \in [Peers -> Entry] /\ \A p \in Peers : Sound(book[p])
           /\ loop \in [Loops -> LoopState] /\ LoopsHavePeers)'
        BY <1>1, <1>3
    <2> QED
        BY <2>1, IInvMeans, PTL
<1>4. ASSUME NEW g \in Loops, NEW p \in Peers, Receive(g, p)
      PROVE  IInv' /\ UNCHANGED book
    <2>1. [pc |-> "allowed", peer |-> p, now |-> 0] \in LoopState
        BY LoopValues, LoopStateMade
    <2>2. (loop \in [Loops -> LoopState] /\ LoopsHavePeers)'
        BY <1>1, <1>4, <2>1 DEF Receive, LoopsHavePeers
    <2> QED
        BY <1>3, <1>4, <2>2 DEF Receive
<1>5. ASSUME NEW g \in Loops, Step(g)
      PROVE  IInv' /\ (BookCall \/ UNCHANGED book)
    <2>1. CASE \/ \E verdict \in {"limit", "penalize", "sync"} : CheckAllowed(g, verdict)
               \/ \E verdict \in LimitVerdicts : CheckLimit(g, verdict)
               \/ \E delta \in Penalties : Penalize(g, delta)
               \/ \E delta \in Rewards : Reward(g, delta)
        <3>1. BookCall /\ (loop \in [Loops -> LoopState] /\ LoopsHavePeers)'
            BY <1>1, <2>1, BookCalls, LoopMoves
        <3>2. (/\ book \in [Peers -> Entry] /\ \A p \in Peers : Sound(book[p])
               /\ loop \in [Loops -> LoopState] /\ LoopsHavePeers)'
            BY <1>1, <3>1 DEF BookCall
        <3> QED
            BY <3>1, <3>2, IInvMeans, PTL
    <2>2. CASE \/ \E verdict \in {"penalize", "reward"} : Handle(g, verdict)
               \/ Ignore(g) \/ ServeSync(g) \/ SyncFrom(g)
        <3>1. UNCHANGED book /\ loop[g].pc # "idle"
            BY <2>2 DEF Handle, Ignore, ServeSync, SyncFrom
        <3>2. \/ \E pc \in {"limit", "handle", "serve", "sync", "penalize", "reward"} : Go(g, pc)
              \/ End(g)
            BY <2>2 DEF Handle, Ignore, ServeSync, SyncFrom
        <3> QED
            BY <1>1, <1>3, <3>1, <3>2, LoopMoves
    <2> QED
        BY <1>5, <2>1, <2>2 DEF Step
<1>6. CASE UNCHANGED vars
    BY <1>1, <1>3, <1>6 DEF vars, LoopsHavePeers
<1> QED
    BY <1>2, <1>4, <1>5, <1>6 DEF Next

(***************************************************************************)
(* The invariant of the reputation book, for any number of peers and       *)
(* loops: every score is within its bounds, a score at the threshold or    *)
(* below comes with a ban, and a busy loop has its peer.                   *)
(***************************************************************************)
THEOREM BookInvariant == Spec => []IInv
<1>1. Init => IInv
    <2> SUFFICES ASSUME Init PROVE IInv
        OBVIOUS
    <2>1. Sound(NewEntry) /\ NewEntry \in Entry
        BY TimeBounds
        DEF NewEntry, Entry, Sound, DefaultPeerScore, MinPeerScore, MaxPeerScore,
            BannedPeerScoreThreshold
    <2>2. Idle \in LoopState /\ Idle.pc = "idle"
        BY LoopValues
    <2> QED
        BY <2>1, <2>2, IInvMeans DEF Init, LoopsHavePeers
<1>2. IInv /\ [Next]_vars => IInv'
    BY StepEffect
<1> QED
    BY <1>1, <1>2, PTL DEF Spec

\* No peer sinks to the ban threshold without a ban, whichever loops penalise
\* and reward it, in whatever order and with whatever delays.
COROLLARY LowScoreIsBanned == Spec => []LowScoreMeansBan
<1>1. IInv => LowScoreMeansBan
    BY DEF IInv
<1> QED
    BY <1>1, BookInvariant, PTL

(***************************************************************************)
(* A ban is not cut short, by recovery, a reward or another loop's         *)
(* penalty, by more than the delay of a call that had read the time        *)
(* before.                                                                 *)
(***************************************************************************)
THEOREM BansRunTheirCourse == Spec => BanRunsItsCourse
<1> DEFINE A == \A p \in Peers :
                    (book[p].bannedUntil > 1) =>
                        \/ book'[p].bannedUntil >= book[p].bannedUntil - 1
                        \/ book'[p].bannedUntil >= BanDuration - MaxDelay
<1>1. IInv /\ [Next]_vars => A
    <2> SUFFICES ASSUME IInv, [Next]_vars PROVE A
        OBVIOUS
    <2>1. \A p \in Peers : book[p].bannedUntil \in Int
        BY IInvMeans, TimeBounds DEF Entry
    <2>2. CASE Tick
        BY <2>2, TickEffect
    <2>3. CASE UNCHANGED book
        BY <2>1, <2>3
    <2>4. CASE BookCall
        <3>1. PICK p \in Peers, e \in Entry, now \in Times :
                /\ book' = [book EXCEPT ![p] = e] /\ Sound(e)
                /\ \/ e.bannedUntil = book[p].bannedUntil
                   \/ now > book[p].bannedUntil
                   \/ e.bannedUntil = now + BanDuration
            BY <2>4 DEF BookCall
        <3>2. \A o \in Peers : book'[o] = IF o = p THEN e ELSE book[o]
            BY <3>1, IInvMeans
        <3>3. now \in Int /\ -MaxDelay <= now /\ now <= 0
            BY TimeBounds DEF Times
        <3>4. book[p].bannedUntil > 1 =>
                \/ e.bannedUntil >= book[p].bannedUntil - 1
                \/ e.bannedUntil >= BanDuration - MaxDelay
            BY <2>1, <3>1, <3>3, TimeBounds
        <3> QED
            BY <2>1, <3>2, <3>4
    <2> QED
        BY <2>2, <2>3, <2>4, StepEffect
<1> QED
    BY <1>1, BookInvariant, PTL DEF Spec, BanRunsItsCourse
=============================================================================
