---------------------------- MODULE CrawlLimiter ----------------------------
(***************************************************************************)
(* CrawlLimiter of core/consensus/pouw.go: at most GlobalLimit crawls at a *)
(* time and PerHostLimit on one host, with two buffered channels as        *)
(* semaphores.                                                             *)
(*                                                                         *)
(* Acquire takes a place in the global channel, then one in the channel of *)
(* the host; it gives the first one back when its context ends while it    *)
(* waits for the second.  Release empties them in reverse order.  Every    *)
(* channel operation is a step of its own.                                 *)
(***************************************************************************)
EXTENDS Integers, FiniteSets

CONSTANTS
    Crawls,         \* the goroutines that call Index
    Hosts,
    GlobalLimit,    \* 0: no global limit
    PerHostLimit    \* 0: no limit per host

ASSUME CrawlsAssumption == IsFiniteSet(Crawls)
ASSUME LimitsAssumption == GlobalLimit \in Nat /\ PerHostLimit \in Nat

VARIABLES
    globalSlots,    \* len(l.globalSlots)
    hostSlots,      \* host -> len of its channel
    crawl           \* goroutine -> its place in Acquire and release, its host

limiterVars == <<globalSlots, hostSlots, crawl>>

\* The places of the two channels a goroutine has taken.
HoldsGlobal(pc) == pc \in {"host", "crawl", "releaseHost", "releaseGlobal"}
HoldsHost(pc) == pc \in {"crawl", "releaseHost"}

Idle == [pc |-> "idle", host |-> ""]

At(c, pc) == crawl' = [crawl EXCEPT ![c] = [pc |-> pc, host |-> crawl[c].host]]
Leave(c) == crawl' = [crawl EXCEPT ![c] = Idle]

\* A limit of 0 is no channel at all.
SendGlobal ==
    IF GlobalLimit = 0 THEN UNCHANGED globalSlots
    ELSE globalSlots < GlobalLimit /\ globalSlots' = globalSlots + 1

ReceiveGlobal ==
    IF GlobalLimit = 0 THEN UNCHANGED globalSlots
    ELSE globalSlots > 0 /\ globalSlots' = globalSlots - 1

SendHost(h) ==
    IF PerHostLimit = 0 THEN UNCHANGED hostSlots
    ELSE hostSlots[h] < PerHostLimit /\ hostSlots' = [hostSlots EXCEPT ![h] = @ + 1]

ReceiveHost(h) ==
    IF PerHostLimit = 0 THEN UNCHANGED hostSlots
    ELSE hostSlots[h] > 0 /\ hostSlots' = [hostSlots EXCEPT ![h] = @ - 1]

---------------------------------------------------------------------------
\* Acquire is called for a URL on host h.
Request(c, h) ==
    /\ crawl[c].pc = "idle"
    /\ crawl' = [crawl EXCEPT ![c] = [pc |-> "global", host |-> h]]
    /\ UNCHANGED <<globalSlots, hostSlots>>

AcquireGlobal(c) ==
    /\ crawl[c].pc = "global"
    /\ SendGlobal
    /\ At(c, "host")
    /\ UNCHANGED hostSlots

AcquireHost(c) ==
    /\ crawl[c].pc = "host"
    /\ SendHost(crawl[c].host)
    /\ At(c, "crawl")
    /\ UNCHANGED globalSlots

\* The context ends first.
CancelGlobal(c) ==
    /\ crawl[c].pc = "global"
    /\ Leave(c)
    /\ UNCHANGED <<globalSlots, hostSlots>>

\* Mutant: the global place is kept when the wait for the host is given up.
CancelHostKeepsGlobal(c) ==
    /\ crawl[c].pc = "host"
    /\ Leave(c)
    /\ UNCHANGED <<globalSlots, hostSlots>>

CancelHost(c) ==
    /\ crawl[c].pc = "host"
    /\ ReceiveGlobal
    /\ Leave(c)
    /\ UNCHANGED hostSlots

\* The crawl is over, with or without a page; release runs once.
Finish(c) ==
    /\ crawl[c].pc = "crawl"
    /\ At(c, "releaseHost")
    /\ UNCHANGED <<globalSlots, hostSlots>>

ReleaseHost(c) ==
    /\ crawl[c].pc = "releaseHost"
    /\ ReceiveHost(crawl[c].host)
    /\ At(c, "releaseGlobal")
    /\ UNCHANGED globalSlots

ReleaseGlobal(c) ==
    /\ crawl[c].pc = "releaseGlobal"
    /\ ReceiveGlobal
    /\ Leave(c)
    /\ UNCHANGED hostSlots

---------------------------------------------------------------------------
LimiterInit ==
    /\ globalSlots = 0
    /\ hostSlots = [h \in Hosts |-> 0]
    /\ crawl = [c \in Crawls |-> Idle]

LimiterNext ==
    \E c \in Crawls :
        \/ \E h \in Hosts : Request(c, h)
        \/ AcquireGlobal(c)
        \/ AcquireHost(c)
        \/ CancelGlobal(c)
        \/ CancelHost(c)
        \/ Finish(c)
        \/ ReleaseHost(c)
        \/ ReleaseGlobal(c)

LimiterSpec == LimiterInit /\ [][LimiterNext]_limiterVars

---------------------------------------------------------------------------
(***************************************************************************)
(* Properties.                                                             *)
(***************************************************************************)
Places == {"idle", "global", "host", "crawl", "releaseHost", "releaseGlobal"}

\* The shape of the limiter.
LimiterTypeOK ==
    /\ globalSlots \in Nat
    /\ hostSlots \in [Hosts -> Nat]
    /\ crawl \in [Crawls -> [pc : Places, host : Hosts \cup {""}]]
    /\ \A c \in Crawls : crawl[c].pc # "idle" => crawl[c].host \in Hosts

\* The goroutines that hold a place, in all and on host h.
GlobalHolders == {c \in Crawls : HoldsGlobal(crawl[c].pc)}
HostHolders(h) == {c \in Crawls : HoldsHost(crawl[c].pc) /\ crawl[c].host = h}

(***************************************************************************)
(* The channels hold exactly the places of the goroutines that took them:  *)
(* no path of Acquire, its cancellation or release leaks a place or gives  *)
(* one back twice.                                                         *)
(***************************************************************************)
SlotsMatchHolders ==
    /\ GlobalLimit > 0 => globalSlots = Cardinality(GlobalHolders)
    /\ PerHostLimit > 0 => \A h \in Hosts : hostSlots[h] = Cardinality(HostHolders(h))

(***************************************************************************)
(* Never more crawls at once than the limits allow, in all and per host.   *)
(***************************************************************************)
CrawlsWithinLimits ==
    /\ GlobalLimit > 0 => Cardinality(GlobalHolders) <= GlobalLimit
    /\ PerHostLimit > 0 => \A h \in Hosts : Cardinality(HostHolders(h)) <= PerHostLimit

(***************************************************************************)
(* A release never waits: the receive from a channel finds the goroutine's *)
(* own place in it.                                                        *)
(***************************************************************************)
ReleaseNeverWaits ==
    \A c \in Crawls :
        /\ (GlobalLimit > 0 /\ HoldsGlobal(crawl[c].pc)) => globalSlots > 0
        /\ (PerHostLimit > 0 /\ HoldsHost(crawl[c].pc)) => hostSlots[crawl[c].host] > 0
=============================================================================
