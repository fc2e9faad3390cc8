------------------------- MODULE VerificationProofs -------------------------
(***************************************************************************)
(* The crawl limiter (core/consensus/pouw.go) for any number of crawls,    *)
(* hosts and any two limits, and ValidateBlock as one of its users.        *)
(*                                                                         *)
(* The inductive invariant LimiterInv counts the goroutines that hold a    *)
(* place of each channel.  The limits alone are not inductive: a release   *)
(* makes room for one more crawl only because what it receives from the    *)
(* channel is a place that a goroutine gives up.                           *)
(*                                                                         *)
(* CallInv is the inductive invariant of ValidateBlock: the proofs passed  *)
(* so far were checked in their order, each with the registry as it was    *)
(* at one moment of the call, and no page was carried by validators that   *)
(* are fewer than a quorum.                                                *)
(***************************************************************************)
EXTENDS Verification, FiniteSetTheorems, TLAPS

LimiterInv ==
    /\ LimiterTypeOK
    /\ SlotsMatchHolders
    /\ CrawlsWithinLimits

\* The goroutines at a place are finitely many, as all goroutines are.
LEMMA HoldersAreFinite ==
    /\ IsFiniteSet(GlobalHolders)
    /\ \A h : IsFiniteSet(HostHolders(h))
<1>1. GlobalHolders \subseteq Crawls
  BY DEF GlobalHolders
<1>2. \A h : HostHolders(h) \subseteq Crawls
  BY DEF HostHolders
<1> QED  BY <1>1, <1>2, FS_Subset, CrawlsAssumption

\* A goroutine that takes a place adds one to the holders.
LEMMA OneMore ==
    ASSUME NEW S, IsFiniteSet(S), NEW c, c \notin S, NEW n \in Nat, Cardinality(S) = n
    PROVE  Cardinality(S \cup {c}) = n + 1
BY FS_AddElement

\* A goroutine that gives its place back takes one from the holders.
LEMMA OneLess ==
    ASSUME NEW S, IsFiniteSet(S), NEW c, c \in S, NEW n \in Nat, Cardinality(S) = n
    PROVE  Cardinality(S \ {c}) = n - 1
BY FS_RemoveElement

\* The limiter starts empty.
LEMMA LimiterInitially == LimiterInit => LimiterInv
<1> SUFFICES ASSUME LimiterInit PROVE LimiterInv
  OBVIOUS
<1>1. LimiterTypeOK
  BY DEF LimiterInit, LimiterTypeOK, Idle, Places
<1>2. GlobalHolders = {} /\ \A h \in Hosts : HostHolders(h) = {}
  BY DEF LimiterInit, Idle, GlobalHolders, HostHolders, HoldsGlobal, HoldsHost
<1>3. Cardinality({}) = 0
  BY FS_EmptySet
<1>4. SlotsMatchHolders
  BY <1>2, <1>3 DEF LimiterInit, SlotsMatchHolders
<1>5. CrawlsWithinLimits
  BY <1>2, <1>3, LimitsAssumption DEF CrawlsWithinLimits
<1> QED  BY <1>1, <1>4, <1>5 DEF LimiterInv

(***************************************************************************)
(* One goroutine moves.                                                    *)
(***************************************************************************)
Moves(c, pc, h) == crawl' = [crawl EXCEPT ![c] = [pc |-> pc, host |-> h]]

\* A goroutine that moves stays at a known place, on a host unless idle.
LEMMA MoveKeepsType ==
    ASSUME LimiterTypeOK, NEW c \in Crawls, NEW pc \in Places, NEW h \in Hosts \cup {""},
           pc # "idle" => h \in Hosts, Moves(c, pc, h)
    PROVE  /\ crawl' \in [Crawls -> [pc : Places, host : Hosts \cup {""}]]
           /\ \A d \in Crawls : crawl'[d].pc # "idle" => crawl'[d].host \in Hosts
BY DEF LimiterTypeOK, Moves

\* What the move does to the holders of global places.
LEMMA MoveAndGlobalHolders ==
    ASSUME LimiterTypeOK, NEW c \in Crawls, NEW pc \in Places, NEW h, Moves(c, pc, h)
    PROVE  GlobalHolders' = IF HoldsGlobal(pc) THEN GlobalHolders \cup {c} ELSE GlobalHolders \ {c}
<1>1. \A d \in Crawls : crawl'[d].pc = IF d = c THEN pc ELSE crawl[d].pc
  BY DEF LimiterTypeOK, Moves
<1> QED  BY <1>1 DEF GlobalHolders, HoldsGlobal

\* What the move does to the holders of places of host k.
LEMMA MoveAndHostHolders ==
    ASSUME LimiterTypeOK, NEW c \in Crawls, NEW pc \in Places, NEW h, Moves(c, pc, h), NEW k
    PROVE  HostHolders(k)' = IF HoldsHost(pc) /\ h = k THEN HostHolders(k) \cup {c}
                                                       ELSE HostHolders(k) \ {c}
<1>1. \A d \in Crawls : /\ crawl'[d].pc = IF d = c THEN pc ELSE crawl[d].pc
                        /\ crawl'[d].host = IF d = c THEN h ELSE crawl[d].host
  BY DEF LimiterTypeOK, Moves
<1> QED  BY <1>1 DEF HostHolders, HoldsHost

\* A goroutine that leaves gives up what it held, and nobody else does.
LEMMA LeaveAndHostHolders ==
    ASSUME LimiterTypeOK, NEW c \in Crawls, Moves(c, "idle", ""), NEW k
    PROVE  HostHolders(k)' = HostHolders(k) \ {c}
<1>1. "idle" \in Places /\ ~HoldsHost("idle")
  BY DEF Places, HoldsHost
<1> QED  BY <1>1, MoveAndHostHolders, Zenon

(***************************************************************************)
(* The two channels, each with the goroutines that hold its places.        *)
(***************************************************************************)
GlobalOK ==
    /\ globalSlots \in Nat
    /\ GlobalLimit > 0 => /\ globalSlots = Cardinality(GlobalHolders)
                          /\ globalSlots <= GlobalLimit

HostsOK ==
    /\ hostSlots \in [Hosts -> Nat]
    /\ PerHostLimit > 0 => \A h \in Hosts : /\ hostSlots[h] = Cardinality(HostHolders(h))
                                            /\ hostSlots[h] <= PerHostLimit

CrawlsOK ==
    /\ crawl \in [Crawls -> [pc : Places, host : Hosts \cup {""}]]
    /\ \A c \in Crawls : crawl[c].pc # "idle" => crawl[c].host \in Hosts

\* LimiterInv, channel by channel.
LEMMA LimiterInvByParts == LimiterInv <=> GlobalOK /\ HostsOK /\ CrawlsOK
BY DEF LimiterInv, LimiterTypeOK, SlotsMatchHolders, CrawlsWithinLimits, GlobalOK, HostsOK, CrawlsOK

\* SendGlobal by a goroutine that holds no global place.
LEMMA SendGlobalKeeps ==
    ASSUME GlobalOK, NEW c \in Crawls, c \notin GlobalHolders, SendGlobal,
           GlobalHolders' = GlobalHolders \cup {c}
    PROVE  GlobalOK'
<1>1. CASE GlobalLimit = 0
  BY <1>1 DEF SendGlobal, GlobalOK
<1>2. CASE GlobalLimit # 0
  <2>1. globalSlots = Cardinality(GlobalHolders) /\ globalSlots \in Nat
    BY <1>2, LimitsAssumption DEF GlobalOK
  <2>2. Cardinality(GlobalHolders') = globalSlots + 1
    BY <2>1, OneMore, HoldersAreFinite
  <2> QED  BY <1>2, <2>1, <2>2, LimitsAssumption DEF SendGlobal, GlobalOK
<1> QED  BY <1>1, <1>2

\* ReceiveGlobal by a goroutine that holds a global place.
LEMMA ReceiveGlobalKeeps ==
    ASSUME GlobalOK, NEW c \in GlobalHolders, ReceiveGlobal,
           GlobalHolders' = GlobalHolders \ {c}
    PROVE  GlobalOK'
<1>1. CASE GlobalLimit = 0
  BY <1>1 DEF ReceiveGlobal, GlobalOK
<1>2. CASE GlobalLimit # 0
  <2>1. globalSlots = Cardinality(GlobalHolders) /\ globalSlots \in Nat
    BY <1>2, LimitsAssumption DEF GlobalOK
  <2>2. Cardinality(GlobalHolders') = globalSlots - 1
    BY <2>1, OneLess, HoldersAreFinite
  <2> QED  BY <1>2, <2>1, <2>2, LimitsAssumption DEF ReceiveGlobal, GlobalOK
<1> QED  BY <1>1, <1>2

\* SendHost by a goroutine that holds no place of any host.
LEMMA SendHostKeeps ==
    ASSUME HostsOK, NEW c \in Crawls, NEW h \in Hosts, c \notin HostHolders(h), SendHost(h),
           \A k \in Hosts : HostHolders(k)' = IF k = h THEN HostHolders(k) \cup {c}
                                                       ELSE HostHolders(k)
    PROVE  HostsOK'
<1>1. CASE PerHostLimit = 0
  BY <1>1 DEF SendHost, HostsOK
<1>2. CASE PerHostLimit # 0
  <2>1. \A k \in Hosts : hostSlots[k] = Cardinality(HostHolders(k)) /\ hostSlots[k] \in Nat
    BY <1>2, LimitsAssumption DEF HostsOK
  <2>2. Cardinality(HostHolders(h)') = hostSlots[h] + 1
    BY <2>1, OneMore, HoldersAreFinite
  <2>3. \A k \in Hosts : hostSlots'[k] = IF k = h THEN hostSlots[k] + 1 ELSE hostSlots[k]
    BY <1>2 DEF SendHost, HostsOK
  <2>4. hostSlots' \in [Hosts -> Nat]
    BY <1>2, <2>1 DEF SendHost, HostsOK
  <2>5. hostSlots[h] < PerHostLimit
    BY <1>2 DEF SendHost
  <2>6. ASSUME NEW k \in Hosts
        PROVE  hostSlots'[k] = Cardinality(HostHolders(k)') /\ hostSlots'[k] <= PerHostLimit
    BY <1>2, <2>1, <2>2, <2>3, <2>5, LimitsAssumption DEF HostsOK
  <2> QED  BY <2>4, <2>6 DEF HostsOK
<1> QED  BY <1>1, <1>2

\* ReceiveHost by a goroutine that holds a place of that host.
LEMMA ReceiveHostKeeps ==
    ASSUME HostsOK, NEW h \in Hosts, NEW c \in HostHolders(h), ReceiveHost(h),
           \A k \in Hosts : HostHolders(k)' = IF k = h THEN HostHolders(k) \ {c}
                                                       ELSE HostHolders(k)
    PROVE  HostsOK'
<1>1. CASE PerHostLimit = 0
  BY <1>1 DEF ReceiveHost, HostsOK
<1>2. CASE PerHostLimit # 0
  <2>1. \A k \in Hosts : hostSlots[k] = Cardinality(HostHolders(k)) /\ hostSlots[k] \in Nat
    BY <1>2, LimitsAssumption DEF HostsOK
  <2>2. Cardinality(HostHolders(h)') = hostSlots[h] - 1
    BY <2>1, OneLess, HoldersAreFinite
  <2>3. \A k \in Hosts : hostSlots'[k] = IF k = h THEN hostSlots[k] - 1 ELSE hostSlots[k]
    BY <1>2 DEF ReceiveHost, HostsOK
  <2>4. hostSlots[h] > 0
    BY <1>2 DEF ReceiveHost
  <2>5. hostSlots' \in [Hosts -> Nat]
    BY <1>2, <2>1, <2>4 DEF ReceiveHost, HostsOK
  <2>6. ASSUME NEW k \in Hosts
        PROVE  hostSlots'[k] = Cardinality(HostHolders(k)') /\ hostSlots'[k] <= PerHostLimit
    BY <1>2, <2>1, <2>2, <2>3, <2>4, LimitsAssumption DEF HostsOK
  <2> QED  BY <2>5, <2>6 DEF HostsOK
<1> QED  BY <1>1, <1>2

\* Channels and holders that a step leaves alone.
LEMMA GlobalUntouched ==
    ASSUME GlobalOK, globalSlots' = globalSlots, GlobalHolders' = GlobalHolders
    PROVE  GlobalOK'
BY DEF GlobalOK

LEMMA HostsUntouched ==
    ASSUME HostsOK, hostSlots' = hostSlots,
           \A k \in Hosts : HostHolders(k)' = HostHolders(k)
    PROVE  HostsOK'
BY DEF HostsOK

(***************************************************************************)
(* Every step of Acquire, of its cancellation and of release keeps the     *)
(* invariant.                                                              *)
(***************************************************************************)
LEMMA LimiterStep == LimiterInv /\ [LimiterNext]_limiterVars => LimiterInv'
<1> SUFFICES ASSUME GlobalOK, HostsOK, CrawlsOK, LimiterTypeOK, [LimiterNext]_limiterVars
             PROVE  GlobalOK' /\ HostsOK' /\ CrawlsOK'
  <2>1. GlobalOK' /\ HostsOK' /\ CrawlsOK' => LimiterInv'
    BY DEF LimiterInv, LimiterTypeOK, SlotsMatchHolders, CrawlsWithinLimits, GlobalOK, HostsOK, CrawlsOK
  <2> QED  BY <2>1, LimiterInvByParts DEF LimiterInv
<1>1. CASE UNCHANGED limiterVars
  BY <1>1 DEF limiterVars, GlobalOK, HostsOK, CrawlsOK, GlobalHolders, HostHolders
<1>2. ASSUME NEW c \in Crawls, NEW h \in Hosts, Request(c, h)
      PROVE  GlobalOK' /\ HostsOK' /\ CrawlsOK'
  <2>1. Moves(c, "global", h) /\ crawl[c].pc = "idle" /\ UNCHANGED <<globalSlots, hostSlots>>
    BY <1>2 DEF Request, Moves
  <2>2. CrawlsOK'
    BY <2>1, MoveKeepsType DEF CrawlsOK, Places
  <2>3. GlobalHolders' = GlobalHolders
    BY <2>1, MoveAndGlobalHolders DEF GlobalHolders, HoldsGlobal, Places
  <2>4. \A k \in Hosts : HostHolders(k)' = HostHolders(k)
    BY <2>1, MoveAndHostHolders DEF HostHolders, HoldsHost, Places
  <2> QED  BY <2>1, <2>2, <2>3, <2>4, GlobalUntouched, HostsUntouched
<1>3. ASSUME NEW c \in Crawls, AcquireGlobal(c)
      PROVE  GlobalOK' /\ HostsOK' /\ CrawlsOK'
  <2>1. /\ Moves(c, "host", crawl[c].host) /\ crawl[c].pc = "global"
        /\ SendGlobal /\ UNCHANGED hostSlots
    BY <1>3 DEF AcquireGlobal, At, Moves
  <2>2. CrawlsOK'
    BY <2>1, MoveKeepsType DEF CrawlsOK, Places
  <2>3. GlobalHolders' = GlobalHolders \cup {c} /\ c \notin GlobalHolders
    BY <2>1, MoveAndGlobalHolders DEF GlobalHolders, HoldsGlobal, Places
  <2>4. \A k \in Hosts : HostHolders(k)' = HostHolders(k)
    BY <2>1, MoveAndHostHolders DEF HostHolders, HoldsHost, Places
  <2> QED  BY <2>1, <2>2, <2>3, <2>4, SendGlobalKeeps, HostsUntouched
<1>4. ASSUME NEW c \in Crawls, AcquireHost(c)
      PROVE  GlobalOK' /\ HostsOK' /\ CrawlsOK'
  <2> DEFINE h == crawl[c].host
  <2>1. /\ Moves(c, "crawl", h) /\ crawl[c].pc = "host"
        /\ SendHost(h) /\ UNCHANGED globalSlots
    BY <1>4 DEF AcquireHost, At, Moves
  <2>2. h \in Hosts
    BY <2>1 DEF CrawlsOK
  <2>3. CrawlsOK'
    BY <2>1, <2>2, MoveKeepsType DEF CrawlsOK, Places
  <2>4. GlobalHolders' = GlobalHolders
    BY <2>1, MoveAndGlobalHolders DEF GlobalHolders, HoldsGlobal, Places
  <2>5. c \notin HostHolders(h)
    BY <2>1 DEF HostHolders, HoldsHost
  <2>6. \A k \in Hosts : HostHolders(k)' = IF k = h THEN HostHolders(k) \cup {c}
                                                     ELSE HostHolders(k)
    BY <2>1, MoveAndHostHolders DEF HostHolders, HoldsHost, Places
  <2> HIDE DEF h
  <2> QED  BY <2>1, <2>2, <2>3, <2>4, <2>5, <2>6, GlobalUntouched, SendHostKeeps
<1>5. ASSUME NEW c \in Crawls, CancelGlobal(c)
      PROVE  GlobalOK' /\ HostsOK' /\ CrawlsOK'
  <2>1. Moves(c, "idle", "") /\ crawl[c].pc = "global" /\ UNCHANGED <<globalSlots, hostSlots>>
    BY <1>5 DEF CancelGlobal, Leave, Idle, Moves
  <2>2. CrawlsOK'
    BY <2>1, MoveKeepsType DEF CrawlsOK, Places
  <2>3. GlobalHolders' = GlobalHolders
    BY <2>1, MoveAndGlobalHolders DEF GlobalHolders, HoldsGlobal, Places
  <2>4. \A k \in Hosts : HostHolders(k)' = HostHolders(k)
    <3>1. \A k \in Hosts : c \notin HostHolders(k)
      BY <2>1 DEF HostHolders, HoldsHost
    <3>2. \A k \in Hosts : HostHolders(k)' = HostHolders(k) \ {c}
      BY <2>1, LeaveAndHostHolders, Zenon
    <3> QED  BY <3>1, <3>2
  <2> QED  BY <2>1, <2>2, <2>3, <2>4, GlobalUntouched, HostsUntouched
<1>6. ASSUME NEW c \in Crawls, CancelHost(c)
      PROVE  GlobalOK' /\ HostsOK' /\ CrawlsOK'
  <2>1. /\ Moves(c, "idle", "") /\ crawl[c].pc = "host"
        /\ ReceiveGlobal /\ UNCHANGED hostSlots
    BY <1>6 DEF CancelHost, Leave, Idle, Moves
  <2>2. CrawlsOK'
    BY <2>1, MoveKeepsType DEF CrawlsOK, Places
  <2>3. GlobalHolders' = GlobalHolders \ {c} /\ c \in GlobalHolders
    BY <2>1, MoveAndGlobalHolders DEF GlobalHolders, HoldsGlobal, Places
  <2>4. \A k \in Hosts : HostHolders(k)' = HostHolders(k)
    <3>1. \A k \in Hosts : c \notin HostHolders(k)
      BY <2>1 DEF HostHolders, HoldsHost
    <3>2. \A k \in Hosts : HostHolders(k)' = HostHolders(k) \ {c}
      BY <2>1, LeaveAndHostHolders, Zenon
    <3> QED  BY <3>1, <3>2
  <2> QED  BY <2>1, <2>2, <2>3, <2>4, ReceiveGlobalKeeps, HostsUntouched
<1>7. ASSUME NEW c \in Crawls, Finish(c)
      PROVE  GlobalOK' /\ HostsOK' /\ CrawlsOK'
  <2>1. /\ Moves(c, "releaseHost", crawl[c].host) /\ crawl[c].pc = "crawl"
        /\ UNCHANGED <<globalSlots, hostSlots>>
    BY <1>7 DEF Finish, At, Moves
  <2>2. CrawlsOK'
    BY <2>1, MoveKeepsType DEF CrawlsOK, Places
  <2>3. GlobalHolders' = GlobalHolders
    BY <2>1, MoveAndGlobalHolders DEF GlobalHolders, HoldsGlobal, Places
  <2>4. \A k \in Hosts : HostHolders(k)' = HostHolders(k)
    BY <2>1, MoveAndHostHolders DEF HostHolders, HoldsHost, Places
  <2> QED  BY <2>1, <2>2, <2>3, <2>4, GlobalUntouched, HostsUntouched
<1>8. ASSUME NEW c \in Crawls, ReleaseHost(c)
      PROVE  GlobalOK' /\ HostsOK' /\ CrawlsOK'
  <2> DEFINE h == crawl[c].host
  <2>1. /\ Moves(c, "releaseGlobal", h) /\ crawl[c].pc = "releaseHost"
        /\ ReceiveHost(h) /\ UNCHANGED globalSlots
    BY <1>8 DEF ReleaseHost, At, Moves
  <2>2. h \in Hosts
    BY <2>1 DEF CrawlsOK
  <2>3. CrawlsOK'
    BY <2>1, <2>2, MoveKeepsType DEF CrawlsOK, Places
  <2>4. GlobalHolders' = GlobalHolders
    BY <2>1, MoveAndGlobalHolders DEF GlobalHolders, HoldsGlobal, Places
  <2>5. c \in HostHolders(h)
    BY <2>1 DEF HostHolders, HoldsHost
  <2>6. \A k \in Hosts : HostHolders(k)' = IF k = h THEN HostHolders(k) \ {c}
                                                     ELSE HostHolders(k)
    BY <2>1, MoveAndHostHolders DEF HostHolders, HoldsHost, Places
  <2> HIDE DEF h
  <2> QED  BY <2>1, <2>2, <2>3, <2>4, <2>5, <2>6, GlobalUntouched, ReceiveHostKeeps
<1>9. ASSUME NEW c \in Crawls, ReleaseGlobal(c)
      PROVE  GlobalOK' /\ HostsOK' /\ CrawlsOK'
  <2>1. /\ Moves(c, "idle", "") /\ crawl[c].pc = "releaseGlobal"
        /\ ReceiveGlobal /\ UNCHANGED hostSlots
    BY <1>9 DEF ReleaseGlobal, Leave, Idle, Moves
  <2>2. CrawlsOK'
    BY <2>1, MoveKeepsType DEF CrawlsOK, Places
  <2>3. GlobalHolders' = GlobalHolders \ {c} /\ c \in GlobalHolders
    BY <2>1, MoveAndGlobalHolders DEF GlobalHolders, HoldsGlobal, Places
  <2>4. \A k \in Hosts : HostHolders(k)' = HostHolders(k)
    <3>1. \A k \in Hosts : c \notin HostHolders(k)
      BY <2>1 DEF HostHolders, HoldsHost
    <3>2. \A k \in Hosts : HostHolders(k)' = HostHolders(k) \ {c}
      BY <2>1, LeaveAndHostHolders, Zenon
    <3> QED  BY <3>1, <3>2
  <2> QED  BY <2>1, <2>2, <2>3, <2>4, ReceiveGlobalKeeps, HostsUntouched
<1> QED
  BY <1>1, <1>2, <1>3, <1>4, <1>5, <1>6, <1>7, <1>8, <1>9 DEF LimiterNext

(***************************************************************************)
(* The crawl limiter, whoever uses it and whatever its limits: the         *)
(* channels hold exactly the places of the goroutines that took them, and  *)
(* never more crawls run than the limits allow.                            *)
(***************************************************************************)
THEOREM LimiterInvariant == LimiterSpec => [](SlotsMatchHolders /\ CrawlsWithinLimits)
<1>1. LimiterInv => SlotsMatchHolders /\ CrawlsWithinLimits
  BY DEF LimiterInv
<1> QED  BY LimiterInitially, LimiterStep, <1>1, PTL DEF LimiterSpec

(***************************************************************************)
(* Release never blocks (pouw.go receives from both channels without a     *)
(* select): the goroutine's own place is still there to be received.       *)
(***************************************************************************)
THEOREM LimiterReleaseNeverWaits == LimiterSpec => []ReleaseNeverWaits
<1>1. LimiterInv => ReleaseNeverWaits
  <2> SUFFICES ASSUME LimiterInv, NEW c \in Crawls
               PROVE  /\ (GlobalLimit > 0 /\ HoldsGlobal(crawl[c].pc)) => globalSlots > 0
                      /\ (PerHostLimit > 0 /\ HoldsHost(crawl[c].pc))
                           => hostSlots[crawl[c].host] > 0
    BY DEF ReleaseNeverWaits
  <2>1. GlobalOK /\ HostsOK /\ CrawlsOK
    BY LimiterInvByParts
  <2>2. ASSUME GlobalLimit > 0, HoldsGlobal(crawl[c].pc) PROVE globalSlots > 0
    <3>1. c \in GlobalHolders
      BY <2>2 DEF GlobalHolders
    <3>2. Cardinality(GlobalHolders) # 0
      BY <3>1, HoldersAreFinite, FS_EmptySet
    <3> QED  BY <2>1, <2>2, <3>2 DEF GlobalOK
  <2>3. ASSUME PerHostLimit > 0, HoldsHost(crawl[c].pc) PROVE hostSlots[crawl[c].host] > 0
    <3> DEFINE h == crawl[c].host
    <3>1. h \in Hosts
      BY <2>1, <2>3 DEF CrawlsOK, HoldsHost
    <3>2. c \in HostHolders(h)
      BY <2>3 DEF HostHolders
    <3>3. Cardinality(HostHolders(h)) # 0
      BY <3>2, HoldersAreFinite, FS_EmptySet
    <3> HIDE DEF h
    <3>4. hostSlots[h] = Cardinality(HostHolders(h)) /\ hostSlots[h] \in Nat
      BY <2>1, <2>3, <3>1 DEF HostsOK
    <3>5. hostSlots[h] > 0
      BY <3>3, <3>4
    <3> QED  BY <3>5 DEF h
  <2> QED  BY <2>2, <2>3
<1> QED  BY LimiterInitially, LimiterStep, <1>1, PTL DEF LimiterSpec

(***************************************************************************)
(* Every step of ValidateBlock, of its goroutines and of the rest of the   *)
(* node is a step of the limiter or leaves it alone.                       *)
(***************************************************************************)
LEMMA VerificationStep == [Next]_vars => [LimiterNext]_limiterVars
<1> SUFFICES ASSUME [Next]_vars PROVE [LimiterNext]_limiterVars
  OBVIOUS
<1> USE DEF LimiterNext
<1>1. Validators \subseteq Crawls /\ Others \subseteq Crawls /\ Host \in Hosts
  BY ValidatorsAssumption
<1>2. CASE UNCHANGED vars
  BY <1>2 DEF vars
<1>3. ASSUME NEW s \in Sectors, NEW m \in Multipliers, UpsertRule(s, m)
      PROVE  UNCHANGED limiterVars
  BY <1>3 DEF UpsertRule
<1>4. CASE Submit
  BY <1>4 DEF Submit
<1>5. ASSUME NEW o \in Others, OtherCrawl(o) PROVE LimiterNext
  BY <1>1, <1>5 DEF OtherCrawl
<1>6. ASSUME NEW honest, NEW full, StartImport(honest, full) PROVE UNCHANGED limiterVars
  BY <1>6 DEF StartImport
<1>7. CASE CheckProof
  BY <1>7 DEF CheckProof
<1>8. CASE Collect
  BY <1>8 DEF Collect
<1>9. ASSUME NEW v \in Validators, Validator(v) PROVE LimiterNext \/ UNCHANGED limiterVars
  <2>1. v \in Crawls
    BY <1>1
  <2>2. CASE Resolve(v)
    BY <1>1, <2>1, <2>2 DEF Resolve
  <2>3. CASE Acquire(v)
    BY <2>1, <2>3 DEF Acquire
  <2>4. CASE GiveUp(v)
    BY <2>1, <2>4 DEF GiveUp
  <2>5. ASSUME NEW observation, Crawl(v, observation) PROVE LimiterNext
    BY <2>1, <2>5 DEF Crawl
  <2>6. CASE Release(v)
    BY <2>1, <2>6 DEF Release
  <2> QED  BY <1>9, <2>2, <2>3, <2>4, <2>5, <2>6 DEF Validator
<1>10. CASE Expire
  BY <1>10 DEF Expire
<1> HIDE DEF LimiterNext
<1> QED
  BY <1>2, <1>3, <1>4, <1>5, <1>6, <1>7, <1>8, <1>9, <1>10 DEF Next, Goroutines

(***************************************************************************)
(* ValidateBlock uses the limiter as it is meant to be used, so that no    *)
(* deadline, change of rule or other crawl makes it leak a place.          *)
(***************************************************************************)
THEOREM VerificationKeepsSlots == Spec => []SlotsMatchHolders
<1>1. Init => LimiterInv
  BY LimiterInitially DEF Init
<1>2. LimiterInv /\ [Next]_vars => LimiterInv'
  BY LimiterStep, VerificationStep
<1>3. LimiterInv => SlotsMatchHolders
  BY DEF LimiterInv
<1> QED  BY <1>1, <1>2, <1>3, PTL DEF Spec

(***************************************************************************)
(* Never more crawls at once than the limits allow while blocks are        *)
(* validated.                                                              *)
(***************************************************************************)
THEOREM VerificationWithinLimits == Spec => []CrawlsWithinLimits
<1>1. Init => LimiterInv
  BY LimiterInitially DEF Init
<1>2. LimiterInv /\ [Next]_vars => LimiterInv'
  BY LimiterStep, VerificationStep
<1>3. LimiterInv => CrawlsWithinLimits
  BY DEF LimiterInv
<1> QED  BY <1>1, <1>2, <1>3, PTL DEF Spec

---------------------------------------------------------------------------
(***************************************************************************)
(* ValidateBlock: the proofs of a block pass one after the other, and only *)
(* a fooled validator ever reports a forged page as matching.              *)
(***************************************************************************)
BlockProofs == [price : Prices, honest : BOOLEAN]

Calls ==
    [pc : {"idle", "proof", "verify"}, block : Seq(BlockProofs), full : SUBSET Nat, index : Nat,
     adjustment : Adjustments, expired : BOOLEAN, inForce : SUBSET {p.bounty : p \in Prices},
     verdict : {"none", "refused", "accepted"}]

\* The parts of the invariant, by what the steps change.
LEMMA CallFacts ==
    ASSUME CallInv
    PROVE  /\ CallTypeOK /\ PassedInOrder /\ ObservedByFew
           /\ rules \in Registries /\ tasks \in Seq(Prices) /\ call \in Calls
           /\ call.pc \in {"idle", "proof", "verify"} /\ call.block \in Seq(BlockProofs)
           /\ call.index \in Nat /\ call.full \in SUBSET Nat
           /\ call.inForce \in SUBSET {p.bounty : p \in Prices}
           /\ at \in [Validators -> {"resolve", "index", "done"}]
           /\ seen \in [Validators -> {"nothing", "ungoverned", "error", "mismatch", "match"}]
<1>1. CallTypeOK /\ PassedInOrder /\ ObservedByFew
    BY DEF CallInv
<1>2. call \in Calls
    BY <1>1 DEF CallTypeOK, Calls, BlockProofs
<1>3. /\ call.pc \in {"idle", "proof", "verify"} /\ call.block \in Seq(BlockProofs)
      /\ call.index \in Nat /\ call.full \in SUBSET Nat
      /\ call.inForce \in SUBSET {p.bounty : p \in Prices}
    BY <1>2 DEF Calls
<1> QED
    BY <1>1, <1>2, <1>3 DEF CallTypeOK

\* Any registry prices tasks.
LEMMA PriceOf ==
    ASSUME NEW r \in Registries
    PROVE  /\ Apply(r) \in Adjustments
           /\ [bounty |-> Apply(r).bounty, fee |-> Apply(r).fee] \in Prices
           /\ Apply(r).bounty \in {p.bounty : p \in Prices}
<1>1. Apply(r) \in Adjustments /\ [bounty |-> Apply(r).bounty, fee |-> Apply(r).fee] \in Prices
    BY DEF Adjustments, Prices
<1>2. PICK p : p = [bounty |-> Apply(r).bounty, fee |-> Apply(r).fee]
    OBVIOUS
<1>3. p \in Prices /\ p.bounty = Apply(r).bounty
    BY <1>1, <1>2
<1> QED
    BY <1>1, <1>3

\* A node starts without rules.
LEMMA NoRules == <<>> \in Registries
<1>1. <<>> \in [{} -> Multipliers]
    OBVIOUS
<1> QED
    BY <1>1 DEF Registries

LEMMA CallMade ==
    ASSUME NEW p \in {"idle", "proof", "verify"}, NEW b \in Seq(BlockProofs), NEW f \in SUBSET Nat,
           NEW i \in Nat, NEW a \in Adjustments, NEW e \in BOOLEAN,
           NEW h \in SUBSET {q.bounty : q \in Prices}, NEW v \in {"none", "refused", "accepted"}
    PROVE  [pc |-> p, block |-> b, full |-> f, index |-> i, adjustment |-> a, expired |-> e,
            inForce |-> h, verdict |-> v] \in Calls
    BY DEF Calls

\* The updates of a call that runs.
LEMMA CallUpdated ==
    ASSUME NEW c \in Calls, NEW i \in Nat, NEW a \in Adjustments,
           NEW h \in SUBSET {q.bounty : q \in Prices}
    PROVE  /\ [c EXCEPT !.inForce = h] \in Calls
           /\ [c EXCEPT !.pc = "proof", !.index = i] \in Calls
           /\ [c EXCEPT !.pc = "verify", !.adjustment = a, !.expired = FALSE] \in Calls
           /\ [c EXCEPT !.expired = TRUE] \in Calls
    BY DEF Calls

\* No call runs at first.
LEMMA IdleCall == NoCall \in Calls /\ NoCall.pc = "idle" /\ NoCall.verdict = "none"
                  /\ NoCall.full = {} /\ NoCall.block = <<>>
<1>1. PICK a \in Adjustments : a = Apply(<<>>)
    BY NoRules, PriceOf
<1>2. NoCall = [pc |-> "idle", block |-> <<>>, full |-> {}, index |-> 0, adjustment |-> a,
                expired |-> FALSE, inForce |-> {}, verdict |-> "none"]
    BY <1>1 DEF NoCall
<1>3. <<>> \in Seq(BlockProofs) /\ {} \in SUBSET Nat /\ 0 \in Nat /\ FALSE \in BOOLEAN
      /\ {} \in SUBSET {q.bounty : q \in Prices}
    OBVIOUS
<1> QED
    BY <1>2, <1>3, CallMade

\* The call returns: refused, or with every proof passed.
LEMMA ReturnPreserves ==
    ASSUME CallInv, NEW v \in {"refused", "accepted"}, Return(v), rules' = rules,
           v = "accepted" => \A i \in DOMAIN call.block : Passed(i),
           tasks' \in Seq(Prices), at' \in [Validators -> {"resolve", "index", "done"}],
           \A w \in Validators : at'[w] = "done",
           seen' = [w \in Validators |-> "nothing"]
    PROVE  CallInv'
<1>1. /\ call \in Calls /\ call.block \in Seq(BlockProofs) /\ call.full \in SUBSET Nat
      /\ call.inForce \in SUBSET {p.bounty : p \in Prices} /\ PassedInOrder /\ rules \in Registries
    BY CallFacts
<1>2. call' = [NoCall EXCEPT !.block = call.block, !.full = call.full,
                             !.inForce = call.inForce, !.verdict = v]
    BY DEF Return
<1>3. /\ call' \in Calls /\ call'.block = call.block /\ call'.full = call.full
      /\ call'.inForce = call.inForce
    <2>1. v \in {"none", "refused", "accepted"} /\ NoCall \in Calls
        BY IdleCall
    <2> QED
        BY <1>1, <1>2, <2>1 DEF Calls
<1>4. call'.pc = "idle" /\ call'.verdict = v
    BY <1>2, IdleCall DEF Calls
<1>5. CallTypeOK'
    BY <1>1, <1>3 DEF CallTypeOK, Calls, BlockProofs
<1>6. PassedInOrder'
    BY <1>1, <1>3, <1>4 DEF PassedInOrder, Passed
<1>7. ObservedByFew'
    BY <1>4 DEF ObservedByFew
<1> QED
    BY <1>5, <1>6, <1>7 DEF CallInv

\* A proof has passed: on to the next one, or the block is accepted.
LEMMA NextProofPreserves ==
    ASSUME CallInv, NextProof, call.pc # "idle", Passed(call.index), rules' = rules,
           at' \in [Validators -> {"resolve", "index", "done"}],
           \A w \in Validators : at'[w] = "done",
           seen' = [w \in Validators |-> "nothing"]
    PROVE  CallInv'
<1>1. /\ call \in Calls /\ call.block \in Seq(BlockProofs) /\ call.index \in Nat
      /\ PassedInOrder /\ rules \in Registries /\ tasks \in Seq(Prices)
      /\ call.index \in DOMAIN call.block /\ call.verdict = "none"
      /\ Apply(rules).bounty \in call.inForce
      /\ \A i \in 1 .. call.index - 1 : Passed(i)
    BY CallFacts DEF PassedInOrder
<1>2. PICK n \in Nat : n = Len(call.block) /\ DOMAIN call.block = 1 .. n
    BY <1>1
<1>3. PICK k \in 1 .. n : k = call.index
    BY <1>1, <1>2
<1>4. \A i \in 1 .. k : Passed(i)
    <2>1. \A i \in 1 .. k : i \in 1 .. k - 1 \/ i = k
        BY <1>3
    <2> QED
        BY <1>1, <1>3, <2>1
<1>5. CASE k = n
    <2>1. Return("accepted") /\ tasks' = <<>> /\ tasks' \in Seq(Prices)
        BY <1>2, <1>3, <1>5 DEF NextProof
    <2>2. \A i \in DOMAIN call.block : Passed(i)
        BY <1>2, <1>4, <1>5
    <2> QED
        BY <2>1, <2>2, ReturnPreserves
<1>6. CASE k # n
    <2>1. tasks' = tasks /\ call' = [call EXCEPT !.pc = "proof", !.index = k + 1]
        BY <1>2, <1>3, <1>6 DEF NextProof
    <2>2. k + 1 \in Nat /\ k + 1 \in 1 .. n /\ (k + 1) - 1 = k
        BY <1>3, <1>6
    <2>3. PICK m \in Nat : m = k + 1
        BY <2>2
    <2>4. call' \in Calls
        <3>1. call.inForce \in SUBSET {p.bounty : p \in Prices} /\ \E a : a \in Adjustments
            BY CallFacts, NoRules, PriceOf
        <3> QED
            BY <1>1, <2>1, <2>3, <3>1, CallUpdated
    <2>5. /\ call'.pc = "proof" /\ call'.index = m /\ call'.block = call.block
          /\ call'.full = call.full /\ call'.inForce = call.inForce
          /\ call'.verdict = call.verdict
        BY <1>1, <2>1, <2>3 DEF Calls
    <2>6. CallTypeOK'
        BY <1>1, <2>1, <2>4 DEF CallTypeOK, Calls, BlockProofs
    <2>7. \A i \in 1 .. m - 1 : Passed(i)'
        BY <1>4, <2>2, <2>3, <2>5 DEF Passed
    <2>8. PassedInOrder'
        BY <1>1, <1>2, <2>2, <2>3, <2>5, <2>7 DEF PassedInOrder
    <2>9. ObservedByFew'
        BY <2>5 DEF ObservedByFew
    <2> QED
        BY <2>6, <2>8, <2>9 DEF CallInv
<1> QED
    BY <1>5, <1>6

\* The price of a proof is compared with the registry of this moment.
LEMMA CheckProofPreserves ==
    ASSUME CallInv, CheckProof
    PROVE  CallInv'
<1>1. /\ call \in Calls /\ PassedInOrder /\ ObservedByFew /\ rules \in Registries
      /\ tasks \in Seq(Prices) /\ call.pc = "proof" /\ rules' = rules
      /\ call.index \in DOMAIN call.block /\ Apply(rules).bounty \in call.inForce
      /\ at \in [Validators -> {"resolve", "index", "done"}]
      /\ seen \in [Validators -> {"nothing", "ungoverned", "error", "mismatch", "match"}]
      /\ \A v \in Validators : at[v] = "done" /\ seen[v] = "nothing"
    BY CallFacts DEF CheckProof, PassedInOrder, ObservedByFew
<1>2. seen = [v \in Validators |-> "nothing"]
    BY <1>1
<1>3. CASE ~PriceMatches(call.block[call.index].price, Apply(rules))
    <2>1. Return("refused") /\ UNCHANGED <<tasks, at, seen>>
        BY <1>3 DEF CheckProof
    <2> QED
        BY <1>1, <1>2, <2>1, ReturnPreserves
<1>4. CASE PriceMatches(call.block[call.index].price, Apply(rules))
    <2>1. call.block[call.index].price.bounty \in call.inForce
        BY <1>1, <1>4 DEF PriceMatches
    <2>2. CASE call.index \notin call.full
        <3>1. NextProof /\ UNCHANGED <<at, seen>>
            BY <1>4, <2>2 DEF CheckProof
        <3>2. Passed(call.index)
            BY <2>1, <2>2 DEF Passed
        <3> QED
            BY <1>1, <1>2, <3>1, <3>2, NextProofPreserves
    <2>3. CASE call.index \in call.full
        <3>1. PICK a \in Adjustments : a = Apply(rules)
            BY <1>1, PriceOf
        <3>2. /\ call' = [call EXCEPT !.pc = "verify", !.adjustment = a, !.expired = FALSE]
              /\ at' = [v \in Validators |-> "resolve"] /\ UNCHANGED <<tasks, seen>>
            BY <1>4, <2>3, <3>1 DEF CheckProof
        <3>3. call' \in Calls
            <4>1. call.inForce \in SUBSET {p.bounty : p \in Prices} /\ call.index \in Nat
                BY CallFacts
            <4> QED
                BY <1>1, <3>2, <4>1, CallUpdated
        <3>4. /\ call'.pc = "verify" /\ call'.index = call.index /\ call'.block = call.block
              /\ call'.full = call.full /\ call'.inForce = call.inForce
              /\ call'.verdict = call.verdict
            BY <1>1, <3>2 DEF Calls
        <3>5. CallTypeOK'
            BY <1>1, <3>2, <3>3 DEF CallTypeOK, Calls, BlockProofs
        <3>6. PassedInOrder'
            BY <1>1, <2>1, <3>4 DEF PassedInOrder, Passed
        <3>7. ObservedByFew'
            BY <1>1, <3>2, <3>4 DEF ObservedByFew
        <3> QED
            BY <3>5, <3>6, <3>7 DEF CallInv
    <2> QED
        BY <2>2, <2>3
<1> QED
    BY <1>3, <1>4

\* Two matching observations include one of a validator that is not fooled.
LEMMA CollectPreserves ==
    ASSUME CallInv, Collect
    PROVE  CallInv'
<1>1. /\ PassedInOrder /\ ObservedByFew /\ rules' = rules /\ call.pc = "verify"
      /\ tasks \in Seq(Prices) /\ at' = at
      /\ at \in [Validators -> {"resolve", "index", "done"}]
      /\ seen' = [v \in Validators |-> "nothing"] /\ \A v \in Validators : at[v] = "done"
    BY CallFacts DEF Collect, AllDone
<1>2. PICK M : M = {v \in Validators : seen[v] = "match"}
    OBVIOUS
<1>3. CASE Return("refused") /\ UNCHANGED tasks
    BY <1>1, <1>3, ReturnPreserves
<1>4. CASE Cardinality(M) >= ValidatorQuorum /\ NextProof
    <2>1. call.block[call.index].honest
        <3>1. SUFFICES ASSUME ~call.block[call.index].honest PROVE FALSE
            OBVIOUS
        <3>2. M \subseteq Fooled
            BY <1>1, <1>2, <3>1 DEF ObservedByFew
        <3>3. IsFiniteSet(Fooled) /\ Fooled \subseteq Crawls
            BY ValidatorsAssumption, CrawlsAssumption, FS_Subset
        <3>4. Cardinality(M) <= Cardinality(Fooled) /\ Cardinality(M) \in Nat
              /\ Cardinality(Fooled) \in Nat
            BY <3>2, <3>3, FS_Subset, FS_CardinalityType
        <3> QED
            BY <1>4, <3>4, ValidatorsAssumption DEF ValidatorQuorum
    <2>2. Passed(call.index)
        BY <1>1, <2>1 DEF PassedInOrder, Passed
    <2> QED
        BY <1>1, <1>4, <2>2, NextProofPreserves
<1> QED
    BY <1>2, <1>3, <1>4 DEF Collect

\* The goroutines change what was observed and nothing of the call.
LEMMA ValidatorPreserves ==
    ASSUME CallInv, NEW v \in Validators, Validator(v)
    PROVE  CallInv'
<1>1. /\ CallTypeOK /\ PassedInOrder /\ ObservedByFew
      /\ at \in [Validators -> {"resolve", "index", "done"}]
      /\ seen \in [Validators -> {"nothing", "ungoverned", "error", "mismatch", "match"}]
    BY CallFacts
<1>2. UNCHANGED <<rules, tasks, call>>
    BY DEF Validator, Resolve, Acquire, GiveUp, Crawl, Release, Done, nodeVars
<1>3. at[v] # "done"
    BY DEF Validator, Resolve, Acquire, GiveUp, Crawl, Release
<1>4. call.pc = "verify"
    BY <1>1, <1>3 DEF ObservedByFew
<1>5. /\ at' \in [Validators -> {"resolve", "index", "done"}]
      /\ seen' \in [Validators -> {"nothing", "ungoverned", "error", "mismatch", "match"}]
      /\ \A w \in Validators : seen'[w] = "match" =>
            seen[w] = "match" \/ call.block[call.index].honest \/ w \in Fooled
    <2>1. ASSUME NEW o \in {"nothing", "ungoverned", "error", "mismatch", "match"}, Done(v, o),
                 o = "match" => seen[v] = "match"
          PROVE  /\ at' \in [Validators -> {"resolve", "index", "done"}]
                 /\ seen' \in [Validators -> {"nothing", "ungoverned", "error", "mismatch", "match"}]
                 /\ \A w \in Validators : seen'[w] = "match" => seen[w] = "match"
        <3>1. at' = [at EXCEPT ![v] = "done"] /\ seen' = [seen EXCEPT ![v] = o]
            BY <2>1 DEF Done
        <3> QED
            BY <1>1, <2>1, <3>1
    <2>2. CASE Resolve(v)
        <3>1. CASE Done(v, "ungoverned") \/ Done(v, "error")
            BY <2>1, <3>1
        <3>2. CASE at' = [at EXCEPT ![v] = "index"] /\ seen' = seen
            BY <1>1, <3>2
        <3> QED
            BY <2>2, <3>1, <3>2 DEF Resolve
    <2>3. CASE Acquire(v)
        BY <1>1, <2>3 DEF Acquire
    <2>4. CASE GiveUp(v)
        <3>1. Done(v, "error")
            BY <2>4 DEF GiveUp
        <3> QED
            BY <2>1, <3>1
    <2>5. ASSUME NEW o \in {"match", "mismatch", "error"}, Crawl(v, o)
          PROVE  /\ at' = at
                 /\ seen' \in [Validators -> {"nothing", "ungoverned", "error", "mismatch", "match"}]
                 /\ \A w \in Validators : seen'[w] = "match" =>
                        seen[w] = "match" \/ call.block[call.index].honest \/ w \in Fooled
        <3>1. at' = at /\ o \in Observations(v)
              /\ seen' = [seen EXCEPT ![v] = IF call.expired THEN "error" ELSE o]
            BY <2>5 DEF Crawl
        <3>2. PICK x \in {"match", "mismatch", "error"} :
                    x = IF call.expired THEN "error" ELSE o
            OBVIOUS
        <3>3. x = "match" => call.block[call.index].honest \/ v \in Fooled
            BY <3>1, <3>2 DEF Observations
        <3>4. seen' = [seen EXCEPT ![v] = x]
            BY <3>1, <3>2
        <3> QED
            BY <1>1, <3>1, <3>3, <3>4
    <2>6. CASE Release(v)
        <3>1. CASE UNCHANGED <<at, seen>>
            BY <1>1, <3>1
        <3>2. CASE Done(v, seen[v])
            <4>1. seen[v] \in {"nothing", "ungoverned", "error", "mismatch", "match"}
                BY <1>1
            <4> QED
                BY <2>1, <3>2, <4>1
        <3> QED
            BY <2>6, <3>1, <3>2 DEF Release
    <2> QED
        BY <1>1, <2>2, <2>3, <2>4, <2>5, <2>6 DEF Validator
<1>6. CallTypeOK'
    BY <1>1, <1>2, <1>5 DEF CallTypeOK
<1>7. PassedInOrder'
    BY <1>1, <1>2 DEF PassedInOrder, Passed
<1>8. ObservedByFew'
    BY <1>1, <1>2, <1>4, <1>5 DEF ObservedByFew
<1> QED
    BY <1>6, <1>7, <1>8 DEF CallInv

\* A rule changes: one more price has been in force during the call.
LEMMA UpsertPreserves ==
    ASSUME CallInv, NEW s \in Sectors, NEW m \in Multipliers, UpsertRule(s, m)
    PROVE  CallInv'
<1>1. /\ CallTypeOK /\ PassedInOrder /\ ObservedByFew /\ call \in Calls /\ rules \in Registries
      /\ call.inForce \in SUBSET {p.bounty : p \in Prices} /\ call.index \in Nat
    BY CallFacts
<1>2. rules' \in Registries
    <2>1. PICK D \in SUBSET Sectors : rules \in [D -> Multipliers]
        BY <1>1 DEF Registries
    <2>2. rules' \in [D \cup {s} -> Multipliers]
        BY <2>1 DEF UpsertRule
    <2>3. D \cup {s} \in SUBSET Sectors
        OBVIOUS
    <2> QED
        BY <2>2, <2>3 DEF Registries
<1>3. PICK b : b = Apply(rules').bounty
    OBVIOUS
<1>4. b \in {p.bounty : p \in Prices}
    BY <1>2, <1>3, PriceOf
<1>5. call' = [call EXCEPT !.inForce = call.inForce \cup {b}]
    BY <1>3 DEF UpsertRule
<1>6. UNCHANGED <<tasks, at, seen>>
    BY DEF UpsertRule
<1>7. PICK h \in SUBSET {p.bounty : p \in Prices} : h = call.inForce \cup {b}
    BY <1>1, <1>4
<1>8. call' \in Calls
    <2>1. \E a : a \in Adjustments
        BY NoRules, PriceOf
    <2> QED
        BY <1>1, <1>5, <1>7, <2>1, CallUpdated
<1>9. /\ call'.pc = call.pc /\ call'.index = call.index /\ call'.block = call.block
      /\ call'.full = call.full /\ call'.inForce = h /\ call'.verdict = call.verdict
    BY <1>1, <1>5, <1>7 DEF Calls
<1>10. CallTypeOK'
    BY <1>1, <1>2, <1>6, <1>8 DEF CallTypeOK, Calls, BlockProofs
<1>11. \A i : Passed(i) => Passed(i)'
    BY <1>7, <1>9 DEF Passed
<1>12. PassedInOrder'
    <2>1. Apply(rules').bounty \in h
        BY <1>3, <1>7
    <2> QED
        BY <1>1, <1>7, <1>9, <1>11, <2>1 DEF PassedInOrder
<1>13. ObservedByFew'
    BY <1>1, <1>6, <1>9 DEF ObservedByFew
<1> QED
    BY <1>10, <1>12, <1>13 DEF CallInv

\* A block arrives.
LEMMA StartImportPreserves ==
    ASSUME CallInv, NEW honest \in SUBSET DOMAIN tasks, NEW mode,
           NEW full \in fullValidationIndexes(mode, Len(tasks)), StartImport(honest, full)
    PROVE  CallInv'
<1>1. /\ CallTypeOK /\ ObservedByFew /\ rules \in Registries /\ tasks \in Seq(Prices)
    BY CallFacts
<1>2. PICK n \in Nat : n = Len(tasks) /\ DOMAIN tasks = 1 .. n
    BY <1>1
<1>3. n >= 1 /\ call.pc = "idle" /\ UNCHANGED <<rules, tasks, at, seen>>
    BY <1>1, <1>2 DEF StartImport, nodeVars
<1>4. full \in SUBSET (1 .. n)
    BY <1>2 DEF fullValidationIndexes
<1>5. PICK b : b = [i \in DOMAIN tasks |-> [price |-> tasks[i], honest |-> i \in honest]]
    OBVIOUS
<1>6. b \in Seq(BlockProofs) /\ DOMAIN b = 1 .. n
    <2>1. \A i \in 1 .. n : [price |-> tasks[i], honest |-> i \in honest] \in BlockProofs
        BY <1>1, <1>2 DEF BlockProofs
    <2>2. b \in [1 .. n -> BlockProofs]
        BY <1>2, <1>5, <2>1
    <2> QED
        BY <2>2
<1>7. PICK h \in SUBSET {p.bounty : p \in Prices} : h = {Apply(rules).bounty}
    BY <1>1, PriceOf
<1>8. call' = [NoCall EXCEPT !.pc = "proof", !.index = 1, !.full = full, !.block = b, !.inForce = h]
    BY <1>5, <1>7 DEF StartImport
<1>9. call' \in Calls /\ call'.block = b /\ call'.full = full /\ call'.inForce = h
    <2>1. full \in SUBSET Nat /\ NoCall \in Calls
        BY <1>2, <1>4, IdleCall
    <2> QED
        BY <1>6, <1>8, <2>1 DEF Calls
<1>10. call'.pc = "proof" /\ call'.index = 1 /\ call'.verdict = "none"
    BY <1>8, IdleCall DEF Calls
<1>11. CallTypeOK'
    BY <1>1, <1>3, <1>9 DEF CallTypeOK, Calls, BlockProofs
<1>12. PassedInOrder'
    BY <1>2, <1>3, <1>4, <1>6, <1>7, <1>9, <1>10 DEF PassedInOrder
<1>13. ObservedByFew'
    BY <1>1, <1>3, <1>10 DEF ObservedByFew
<1> QED
    BY <1>11, <1>12, <1>13 DEF CallInv

\* The deadline passes.
LEMMA ExpirePreserves ==
    ASSUME CallInv, Expire
    PROVE  CallInv'
<1>1. /\ CallTypeOK /\ PassedInOrder /\ ObservedByFew /\ call \in Calls /\ call.index \in Nat
      /\ call.inForce \in SUBSET {p.bounty : p \in Prices}
    BY CallFacts
<1>2. call' = [call EXCEPT !.expired = TRUE] /\ UNCHANGED <<rules, tasks, at, seen>>
    BY DEF Expire, nodeVars
<1>3. /\ call' \in Calls /\ call'.pc = call.pc /\ call'.index = call.index
      /\ call'.block = call.block /\ call'.full = call.full /\ call'.inForce = call.inForce
      /\ call'.verdict = call.verdict
    BY <1>1, <1>2 DEF Calls
<1>4. CallTypeOK'
    BY <1>1, <1>2, <1>3 DEF CallTypeOK, Calls, BlockProofs
<1>5. PassedInOrder'
    BY <1>1, <1>2, <1>3 DEF PassedInOrder, Passed
<1>6. ObservedByFew'
    BY <1>1, <1>2, <1>3 DEF ObservedByFew
<1> QED
    BY <1>4, <1>5, <1>6 DEF CallInv

\* Another crawl, a submission or nothing at all leaves the call alone.
LEMMA OthersPreserve ==
    ASSUME CallInv, UNCHANGED <<rules, call, at, seen>>, tasks' \in Seq(Prices)
    PROVE  CallInv'
<1>1. /\ CallTypeOK /\ PassedInOrder /\ ObservedByFew
    BY CallFacts
<1> QED
    BY <1>1 DEF CallInv, CallTypeOK, PassedInOrder, Passed, ObservedByFew

LEMMA CallInvInit == Init => CallInv
<1>1. SUFFICES ASSUME Init PROVE CallInv
    OBVIOUS
<1>2. /\ rules = <<>> /\ tasks = <<>> /\ call = NoCall
      /\ at = [v \in Validators |-> "done"] /\ seen = [v \in Validators |-> "nothing"]
    BY <1>1 DEF Init
<1>3. CallTypeOK
    BY <1>2, IdleCall, NoRules DEF CallTypeOK, Calls, BlockProofs
<1> QED
    BY <1>2, <1>3, IdleCall DEF CallInv, PassedInOrder, ObservedByFew

LEMMA CallInvNext == CallInv /\ [Next]_vars => CallInv'
<1>1. SUFFICES ASSUME CallInv, [Next]_vars PROVE CallInv'
    OBVIOUS
<1>2. tasks \in Seq(Prices) /\ rules \in Registries
    BY <1>1, CallFacts
<1>3. ASSUME NEW s \in Sectors, NEW m \in Multipliers, UpsertRule(s, m) PROVE CallInv'
    BY <1>1, <1>3, UpsertPreserves
<1>4. CASE Submit
    <2>1. PICK p \in Prices : p = [bounty |-> Apply(rules).bounty, fee |-> Apply(rules).fee]
        BY <1>2, PriceOf
    <2>2. tasks' = Append(tasks, p) /\ UNCHANGED <<rules, call, at, seen>>
        BY <1>4, <2>1 DEF Submit
    <2>3. tasks' \in Seq(Prices)
        BY <1>2, <2>2
    <2> QED
        BY <1>1, <2>2, <2>3, OthersPreserve
<1>5. ASSUME NEW o \in Others, OtherCrawl(o) PROVE CallInv'
    <2>1. UNCHANGED <<rules, tasks, call, at, seen>>
        BY <1>5 DEF OtherCrawl
    <2> QED
        BY <1>1, <1>2, <2>1, OthersPreserve
<1>6. ASSUME NEW honest \in SUBSET DOMAIN tasks, NEW mode \in Modes,
             NEW full \in fullValidationIndexes(mode, Len(tasks)), StartImport(honest, full)
      PROVE  CallInv'
    BY <1>1, <1>6, StartImportPreserves
<1>7. CASE Goroutines
    BY <1>1, <1>7, CheckProofPreserves, CollectPreserves, ValidatorPreserves DEF Goroutines
<1>8. CASE Expire
    BY <1>1, <1>8, ExpirePreserves
<1>9. CASE UNCHANGED vars
    BY <1>1, <1>2, <1>9, OthersPreserve DEF vars
<1> QED
    BY <1>1, <1>3, <1>4, <1>5, <1>6, <1>7, <1>8, <1>9 DEF Next

(***************************************************************************)
(* The state of ValidateBlock and of its validators, for any rules and     *)
(* prices, any number of proofs and any interleaving of the goroutines     *)
(* with the governance listener, the deadline and other crawls.            *)
(***************************************************************************)
THEOREM CallInvariant == Spec => []CallInv
    BY CallInvInit, CallInvNext, PTL DEF Spec

(***************************************************************************)
(* A block with a forged proof that is crawled again is never accepted     *)
(* while at most one of the three validators can be fooled.                *)
(***************************************************************************)
COROLLARY ForgedProofsAreRefused == Spec => []ForgedProofIsRefused
<1>1. CallInv => ForgedProofIsRefused
    BY DEF CallInv, PassedInOrder, Passed, ForgedProofIsRefused
<1> QED
    BY <1>1, CallInvariant, PTL

(***************************************************************************)
(* Every proof of an accepted block is paid a price that was in force at   *)
(* some moment of its validation.                                          *)
(***************************************************************************)
COROLLARY PricesWereInForce == Spec => []PriceWasInForce
<1>1. CallInv => PriceWasInForce
    BY DEF CallInv, PassedInOrder, Passed, PriceWasInForce
<1> QED
    BY <1>1, CallInvariant, PTL
=============================================================================
