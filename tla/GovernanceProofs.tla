-------------------------- MODULE GovernanceProofs --------------------------
(***************************************************************************)
(* The governance service for any numbers of proposals, votes, sectors and *)
(* blocks and any capacity of its channels.                                *)
(***************************************************************************)
EXTENDS Governance, WellFoundedInduction, TLAPS

---------------------------------------------------------------------------
(***************************************************************************)
(* Induction over numbers, in the form of a least element.                 *)
(***************************************************************************)

\* Every nonempty set of naturals has a least element.
LEMMA LeastNatural ==
    ASSUME NEW T, T \subseteq Nat, T # {}
    PROVE  \E x \in T : \A y \in T : x <= y
<1>1. PICK R : R = OpToRel(<, Nat)
    OBVIOUS
<1>2. IsWellFoundedOn(R, Nat)
    BY <1>1, NatLessThanWellFounded
<1>3. PICK x \in T : \A y \in T : ~(<<y, x>> \in R)
    BY <1>2, WFMin
<1>4. ASSUME NEW y \in T PROVE x <= y
    <2>1. y \in Nat /\ x \in Nat
        OBVIOUS
    <2>2. <<y, x>> \notin R
        BY <1>3
    <2>3. y < x => <<y, x>> \in R
        BY <2>1, <1>1 DEF OpToRel
    <2> QED
        BY <2>1, <2>2, <2>3
<1> QED
    BY <1>4

\* A set that holds 0 and with each number below n the next one holds 0 .. n.
LEMMA UpTo ==
    ASSUME NEW n \in Nat, NEW T, 0 \in T, \A k \in 0 .. n - 1 : k \in T => k + 1 \in T
    PROVE  0 .. n \subseteq T
<1> SUFFICES ASSUME (0 .. n) \ T # {} PROVE FALSE
    OBVIOUS
<1>1. PICK x \in (0 .. n) \ T : \A y \in (0 .. n) \ T : x <= y
    <2>1. PICK U : U = (0 .. n) \ T
        OBVIOUS
    <2>2. U \subseteq Nat /\ U # {}
        BY <2>1
    <2> QED
        BY <2>1, <2>2, LeastNatural
<1>2. x # 0 /\ x - 1 \in 0 .. n - 1 /\ x - 1 \in 0 .. n
    BY <1>1
<1>3. x - 1 \in T
    BY <1>1, <1>2
<1> QED
    BY <1>1, <1>2, <1>3

---------------------------------------------------------------------------
(***************************************************************************)
(* What a new subscriber is sent first.                                    *)
(***************************************************************************)

\* No event is older than StartBlock, so a restart sends all of them again,
\* in their order.
LEMMA HistoryIsComplete ==
    ASSUME NEW q \in Seq(Events)
    PROVE  Historical(q) = q
<1> DEFINE n == Len(q)
           K(g, i) == IF i = 0 THEN <<>>
                      ELSE IF q[i].block >= StartBlock THEN Append(g[i - 1], q[i])
                      ELSE g[i - 1]
           prefix == [i \in 0 .. n |-> SubSeq(q, 1, i)]
<1>1. n \in Nat /\ \A i \in 1 .. n : q[i] \in Events /\ q[i].block >= StartBlock
    <2>1. n \in Nat /\ \A i \in 1 .. n : q[i] \in Events
        OBVIOUS
    <2>2. \A e \in Events : e.block >= StartBlock
        BY NumbersAssumption DEF Events
    <2> QED
        BY <2>1, <2>2
<1>2. prefix = [i \in 0 .. n |-> K(prefix, i)]
    <2>1. ASSUME NEW i \in 0 .. n PROVE SubSeq(q, 1, i) = K(prefix, i)
        <3>1. CASE i = 0
            BY <3>1
        <3>2. CASE i # 0
            <4>1. i \in 1 .. n /\ i - 1 \in 0 .. n
                BY <1>1, <3>2
            <4>2. prefix[i - 1] = SubSeq(q, 1, i - 1)
                BY <4>1
            <4>3. Append(SubSeq(q, 1, i - 1), q[i]) = SubSeq(q, 1, i)
                BY <4>1
            <4> QED
                BY <1>1, <3>2, <4>1, <4>2, <4>3
        <3> QED
            BY <3>1, <3>2
    <2> QED
        BY <2>1
<1>3. ASSUME NEW g, g = [i \in 0 .. n |-> K(g, i)]
      PROVE  g[n] = q
    <2> DEFINE T == {i \in 0 .. n : g[i] = SubSeq(q, 1, i)}
    <2>1. 0 \in T
        BY <1>1, <1>3
    <2>2. ASSUME NEW k \in 0 .. n - 1, k \in T PROVE k + 1 \in T
        <3>1. k + 1 \in 1 .. n /\ k + 1 \in 0 .. n /\ k + 1 # 0 /\ (k + 1) - 1 = k
            BY <1>1
        <3>2. g[k + 1] = Append(g[k], q[k + 1])
            BY <1>1, <1>3, <3>1
        <3>3. Append(SubSeq(q, 1, k), q[k + 1]) = SubSeq(q, 1, k + 1)
            BY <3>1
        <3> QED
            BY <2>2, <3>1, <3>2, <3>3
    <2> HIDE DEF T
    <2>3. 0 .. n \subseteq T
        BY <1>1, <2>1, <2>2, UpTo
    <2>4. g[n] = SubSeq(q, 1, n)
        BY <1>1, <2>3 DEF T
    <2> QED
        BY <2>4
<1> DEFINE f == CHOOSE g : g = [i \in 0 .. n |-> K(g, i)]
<1>4. f = [i \in 0 .. n |-> K(f, i)]
    <2>1. \E g : g = [i \in 0 .. n |-> K(g, i)]
        BY <1>2
    <2> HIDE DEF K, prefix
    <2> QED
        BY <2>1
<1>5. f[n] = q
    <2> HIDE DEF f, K
    <2> QED
        BY <1>3, <1>4
<1>6. Historical(q) = f[n]
    BY DEF Historical
<1> QED
    BY <1>5, <1>6

---------------------------------------------------------------------------
(***************************************************************************)
(* The rule of a sector after some events.                                 *)
(***************************************************************************)

\* q with the event e at n.
Extended(q, n, e) == [i \in DOMAIN q \cup {n} |-> IF i = n THEN e ELSE q[i]]

\* One more event, later than the others, rules its sector and no other.
LEMMA RuleAfterLater ==
    ASSUME NEW registry, NEW q, NEW e, NEW n \in Int, NEW r,
           DOMAIN q \subseteq Int, \A i \in DOMAIN q : i < n
    PROVE  /\ e.sector = r => RuleAfter(registry, Extended(q, n, e), r) = {ToPriorityRule(e)}
           /\ e.sector # r => RuleAfter(registry, Extended(q, n, e), r)
                                = RuleAfter(registry, q, r)
<1> SUFFICES ASSUME NEW q2, q2 = Extended(q, n, e)
             PROVE  /\ e.sector = r => RuleAfter(registry, q2, r) = {ToPriorityRule(e)}
                    /\ e.sector # r => RuleAfter(registry, q2, r) = RuleAfter(registry, q, r)
    OBVIOUS
<1>0. DOMAIN q2 = DOMAIN q \cup {n} /\ q2[n] = e /\ \A i \in DOMAIN q : q2[i] = q[i]
    BY DEF Extended
<1> DEFINE N == {i \in DOMAIN q : q[i].sector = r}
           N2 == {i \in DOMAIN q2 : q2[i].sector = r}
<1>1. CASE e.sector = r
    <2>1. N2 = N \cup {n} /\ N2 # {}
        BY <1>0, <1>1
    <2>2. {k \in N2 : \A j \in N2 : j <= k} = {n}
        BY <2>1
    <2> QED
        BY <1>0, <1>1, <2>1, <2>2 DEF RuleAfter
<1>2. CASE e.sector # r
    <2>1. N2 = N
        BY <1>0, <1>2
    <2>2. \A i \in N : q2[i] = q[i]
        BY <1>0
    <2>3. CASE N = {}
        BY <1>2, <2>1, <2>3 DEF RuleAfter
    <2>4. CASE N # {}
        <3> DEFINE L == {k \in N : \A j \in N : j <= k}
        <3>1. {ToPriorityRule(q2[i]) : i \in L} = {ToPriorityRule(q[i]) : i \in L}
            BY <2>2
        <3>2. RuleAfter(registry, q, r) = {ToPriorityRule(q[i]) : i \in L}
            BY <2>4 DEF RuleAfter
        <3>3. RuleAfter(registry, q2, r) = {ToPriorityRule(q2[i]) : i \in L}
            BY <2>1, <2>4 DEF RuleAfter
        <3> QED
            BY <1>2, <3>1, <3>2, <3>3
    <2> QED
        BY <2>3, <2>4
<1> QED
    BY <1>1, <1>2

\* The listener may put the first event into the registry before the rest.
LEMMA RuleAfterFirst ==
    ASSUME NEW registry, NEW q \in Seq(Events), q # <<>>, NEW r
    PROVE  RuleAfter(UpsertRule(registry, Head(q)), Tail(q), r) = RuleAfter(registry, q, r)
<1> SUFFICES ASSUME NEW t, t = Tail(q), NEW g, g = UpsertRule(registry, Head(q))
             PROVE  RuleAfter(g, t, r) = RuleAfter(registry, q, r)
    OBVIOUS
<1> DEFINE N == {i \in DOMAIN q : q[i].sector = r}
           M == {i \in DOMAIN t : t[i].sector = r}
           L == {k \in N : \A j \in N : j <= k}
           S == {k \in M : \A j \in M : j <= k}
<1>1. /\ Len(q) \in Nat \ {0} /\ DOMAIN q = 1 .. Len(q) /\ DOMAIN t = 1 .. Len(q) - 1
      /\ Head(q) = q[1] /\ \A i \in 1 .. Len(q) - 1 : t[i] = q[i + 1]
    OBVIOUS
<1>2. /\ \A i \in 1 .. Len(q) - 1 : i \in M <=> i + 1 \in N
      /\ M \subseteq 1 .. Len(q) - 1 /\ N \subseteq 1 .. Len(q)
      /\ 1 \in N <=> q[1].sector = r
    BY <1>1
<1>3. CASE M = {}
    <2>1. \A i \in N : i = 1
        <3>1. ASSUME NEW i \in N, i # 1 PROVE FALSE
            <4>1. i - 1 \in 1 .. Len(q) - 1 /\ (i - 1) + 1 = i
                BY <1>1, <1>2, <3>1
            <4> QED
                BY <1>2, <1>3, <4>1
        <3> QED
            BY <3>1
    <2>2. RuleAfter(g, t, r) = {g[x] : x \in DOMAIN g \cap {r}}
        BY <1>3 DEF RuleAfter
    <2>3. DOMAIN g = DOMAIN registry \cup {q[1].sector}
          /\ \A x \in DOMAIN g : g[x] = IF x = q[1].sector THEN ToPriorityRule(q[1])
                                        ELSE registry[x]
        BY <1>1 DEF UpsertRule
    <2>4. CASE q[1].sector = r
        <3>1. N = {1} /\ L = {1}
            BY <1>1, <1>2, <2>1, <2>4
        <3>2. RuleAfter(registry, q, r) = {ToPriorityRule(q[1])}
            BY <3>1 DEF RuleAfter
        <3>3. {g[x] : x \in DOMAIN g \cap {r}} = {ToPriorityRule(q[1])}
            BY <2>3, <2>4
        <3> QED
            BY <2>2, <3>2, <3>3
    <2>5. CASE q[1].sector # r
        <3>1. N = {}
            BY <1>2, <2>1, <2>5
        <3>2. RuleAfter(registry, q, r) = {registry[x] : x \in DOMAIN registry \cap {r}}
            BY <3>1 DEF RuleAfter
        <3>3. {g[x] : x \in DOMAIN g \cap {r}} = {registry[x] : x \in DOMAIN registry \cap {r}}
            BY <2>3, <2>5
        <3> QED
            BY <2>2, <3>2, <3>3
    <2> QED
        BY <2>4, <2>5
<1>4. CASE M # {}
    <2>1. N # {}
        BY <1>2, <1>4
    <2>2. ASSUME NEW k \in 1 .. Len(q) - 1 PROVE k \in S <=> k + 1 \in L
        <3>1. ASSUME k \in S PROVE k + 1 \in L
            <4>1. ASSUME NEW j \in N PROVE j <= k + 1
                <5>1. CASE j = 1
                    BY <5>1
                <5>2. CASE j # 1
                    <6>1. j - 1 \in 1 .. Len(q) - 1 /\ (j - 1) + 1 = j
                        BY <1>1, <1>2, <5>2
                    <6>2. j - 1 \in M
                        BY <1>2, <6>1
                    <6> QED
                        BY <3>1, <6>1, <6>2
                <5> QED
                    BY <5>1, <5>2
            <4>2. k + 1 \in N
                BY <1>2, <3>1
            <4> QED
                BY <4>1, <4>2
        <3>2. ASSUME k + 1 \in L PROVE k \in S
            <4>1. ASSUME NEW j \in M PROVE j <= k
                <5>1. j + 1 \in N /\ j \in 1 .. Len(q) - 1
                    BY <1>2
                <5> QED
                    BY <3>2, <5>1
            <4>2. k \in M
                BY <1>2, <3>2
            <4> QED
                BY <4>1, <4>2
        <3> QED
            BY <3>1, <3>2
    <2>3. 1 \notin L
        <3>1. PICK i \in M : TRUE
            BY <1>4
        <3>2. i + 1 \in N /\ i \in 1 .. Len(q) - 1
            BY <1>2
        <3> QED
            BY <3>2
    <2>4. {ToPriorityRule(q[i]) : i \in L} = {ToPriorityRule(t[i]) : i \in S}
        <3>1. L \subseteq 1 .. Len(q) /\ S \subseteq 1 .. Len(q) - 1
            BY <1>2
        <3> HIDE DEF L, S
        <3>2. ASSUME NEW i \in L PROVE \E k \in S : ToPriorityRule(q[i]) = ToPriorityRule(t[k])
            <4>1. i - 1 \in 1 .. Len(q) - 1 /\ (i - 1) + 1 = i
                BY <1>1, <2>3, <3>1
            <4> QED
                BY <1>1, <2>2, <4>1
        <3>3. ASSUME NEW k \in S PROVE \E i \in L : ToPriorityRule(q[i]) = ToPriorityRule(t[k])
            BY <1>1, <2>2, <3>1
        <3>4. {ToPriorityRule(q[i]) : i \in L} \subseteq {ToPriorityRule(t[i]) : i \in S}
            BY <3>2
        <3>5. {ToPriorityRule(t[i]) : i \in S} \subseteq {ToPriorityRule(q[i]) : i \in L}
            BY <3>3
        <3> QED
            BY <3>4, <3>5
    <2>5. RuleAfter(registry, q, r) = {ToPriorityRule(q[i]) : i \in L}
        BY <2>1 DEF RuleAfter
    <2>6. RuleAfter(g, t, r) = {ToPriorityRule(t[i]) : i \in S}
        BY <1>4 DEF RuleAfter
    <2> QED
        BY <2>4, <2>5, <2>6
<1> QED
    BY <1>3, <1>4

---------------------------------------------------------------------------
(***************************************************************************)
(* Snapshots.                                                              *)
(***************************************************************************)

\* A snapshot is the record of its three fields.
LEMMA SnapshotFields ==
    ASSUME NEW s, SnapshotOK(s)
    PROVE  /\ s = [currentBlock |-> s.currentBlock, proposals |-> s.proposals,
                   events |-> s.events]
           /\ s.currentBlock \in StartBlock .. MaxBlock
           /\ s.proposals \in Seq(Proposals) /\ s.events \in Seq(Events)
    BY DEF SnapshotOK, Snapshots

\* Loading a snapshot gives it back: a height is 0 only when StartBlock is.
LEMMA LoadedIsSaved ==
    ASSUME NEW s, SnapshotOK(s)
    PROVE  Loaded(s) = s
<1>1. PICK b, ps, es : s = [currentBlock |-> b, proposals |-> ps, events |-> es]
    BY SnapshotFields
<1>2. b \in StartBlock .. MaxBlock
    BY <1>1, SnapshotFields
<1>3. (IF b = 0 THEN StartBlock ELSE b) = b
    BY <1>2, NumbersAssumption
<1>4. Loaded(s) = [currentBlock |-> (IF b = 0 THEN StartBlock ELSE b), proposals |-> ps,
                   events |-> es]
    BY <1>1 DEF Loaded
<1> QED
    BY <1>1, <1>3, <1>4

\* A service that has no file starts from nothing.
LEMMA EmptyIsOK ==
    SnapshotOK(Empty)
<1>1. Empty \in Snapshots
    BY NumbersAssumption DEF Empty, Snapshots
<1> QED
    BY <1>1, NumbersAssumption DEF Empty, SnapshotOK, Executed, IsInjective

\* A change of height or of proposals that executes none.
LEMMA SnapshotChanged ==
    ASSUME NEW s, SnapshotOK(s), NEW b \in StartBlock .. MaxBlock,
           NEW ps \in Seq(Proposals), Len(ps) <= MaxProposals,
           {id \in DOMAIN ps : ps[id].executed} = Executed(s)
    PROVE  SnapshotOK([currentBlock |-> b, proposals |-> ps, events |-> s.events])
<1>1. PICK new : new = [currentBlock |-> b, proposals |-> ps, events |-> s.events]
    OBVIOUS
<1>2. new.currentBlock = b /\ new.proposals = ps /\ new.events = s.events
    BY <1>1
<1>3. new \in Snapshots
    BY <1>1, SnapshotFields DEF Snapshots
<1>4. Executed(new) = Executed(s)
    BY <1>2 DEF Executed
<1>5. SnapshotOK(new)
    BY <1>2, <1>3, <1>4 DEF SnapshotOK
<1> QED
    BY <1>1, <1>5

---------------------------------------------------------------------------
(***************************************************************************)
(* The steps of the process and of its operations.                         *)
(***************************************************************************)

\* A service that is down has lost its memory and no rule is in force.
LEMMA StopPreserves ==
    ASSUME Stop, SnapshotOK(saved')
    PROVE  IInv'
<1>1. SnapshotOK(store')
    BY EmptyIsOK DEF Stop
<1>2. ChannelsOK'
    <2>1. Buffer \in Nat
        BY NumbersAssumption
    <2>2. <<>> \in Seq(Events) /\ Len(<<>>) = 0 /\ DOMAIN <<>> = {}
        OBVIOUS
    <2>3. running' \in BOOLEAN
        BY DEF Stop
    <2>4. pending' = <<>> /\ live' = <<>> /\ out' = <<>> /\ rules' = <<>>
        BY DEF Stop
    <2>5. Len(live') <= Buffer /\ Len(out') <= Buffer /\ DOMAIN rules' \subseteq Sectors
        BY <2>1, <2>2, <2>4
    <2> QED
        BY <2>2, <2>3, <2>4, <2>5 DEF ChannelsOK
<1>3. AcknowledgedIsSaved' /\ RulesFollowEvents'
    BY DEF Stop, AcknowledgedIsSaved, RulesFollowEvents
<1>4. missed' \subseteq Executed(store')
    BY DEF Stop
<1> QED
    BY <1>1, <1>2, <1>3, <1>4 DEF IInv

\* Nothing happens to a service whose state stays as it is.
LEMMA SamePreserves ==
    ASSUME IInv, UNCHANGED vars
    PROVE  IInv'
<1>1. SnapshotOK(store') /\ SnapshotOK(saved') /\ missed' \subseteq Executed(store')
    BY DEF IInv, vars
<1>2. ChannelsOK' /\ AcknowledgedIsSaved'
    BY DEF IInv, vars, ChannelsOK, AcknowledgedIsSaved
<1>3. NotMissed' = NotMissed
    BY DEF NotMissed, vars
<1>4. RulesFollowEvents'
    BY <1>3 DEF IInv, vars, RulesFollowEvents
<1> QED
    BY <1>1, <1>2, <1>4 DEF IInv

\* A save that fails gives memory back what the file holds.
LEMMA SaveFailsPreserves ==
    ASSUME IInv, NEW new, SaveFails(new), UNCHANGED <<channels, missed>>
    PROVE  IInv'
<1>1. store' = store
    BY LoadedIsSaved DEF IInv, SaveFails
<1>2. UNCHANGED vars
    BY <1>1 DEF SaveFails, channels, vars
<1> QED
    BY <1>2, SamePreserves

\* An operation that appends no event.
LEMMA MutatePreserves ==
    ASSUME IInv, NEW new, SnapshotOK(new), new.events = store.events, Mutate(new)
    PROVE  IInv'
<1>1. CASE Save(new) /\ UNCHANGED <<channels, missed>>
    <2>1. store' = new /\ saved' = new /\ running' = running
          /\ pending' = pending /\ live' = live /\ out' = out /\ rules' = rules
          /\ missed' = missed
        BY <1>1 DEF Save, channels
    <2>2. Executed(new) = Executed(store)
        BY DEF IInv, SnapshotOK
    <2>3. missed' \subseteq Executed(store')
        BY <2>1, <2>2 DEF IInv
    <2>4. ChannelsOK' /\ AcknowledgedIsSaved'
        BY <2>1 DEF IInv, ChannelsOK, AcknowledgedIsSaved
    <2>5. NotMissed' = NotMissed
        BY <2>1 DEF NotMissed
    <2>6. RulesFollowEvents'
        BY <2>1, <2>5 DEF IInv, RulesFollowEvents
    <2> QED
        BY <2>1, <2>3, <2>4, <2>6 DEF IInv
<1>2. CASE SaveFails(new) /\ UNCHANGED <<channels, missed>>
    BY <1>2, SaveFailsPreserves
<1>3. CASE CrashAfterSave(new)
    BY <1>3, StopPreserves DEF CrashAfterSave
<1> QED
    BY <1>1, <1>2, <1>3 DEF Mutate

---------------------------------------------------------------------------
(***************************************************************************)
(* What the operations do to the proposals.                                *)
(***************************************************************************)

\* new has every proposal of old, the decided ones as they are, and the
\* events of old first.
KeepsDecided(old, new) ==
    /\ \A id \in DOMAIN old.proposals :
        /\ id \in DOMAIN new.proposals
        /\ ~Open(old.proposals[id]) => new.proposals[id] = old.proposals[id]
    /\ IsPrefix(old.events, new.events)

\* A sequence begins with itself and with what it was before an Append.
LEMMA AppendExtends ==
    ASSUME NEW q \in Seq(Events), NEW e \in Events
    PROVE  IsPrefix(q, q) /\ IsPrefix(q, Append(q, e))
<1>1. Len(q) \in Nat /\ Len(Append(q, e)) = Len(q) + 1
    OBVIOUS
<1>2. SubSeq(q, 1, Len(q)) = q /\ SubSeq(Append(q, e), 1, Len(q)) = q
    <2>1. SubSeq(q, 1, Len(q)) = q
        OBVIOUS
    <2>2. Len(SubSeq(Append(q, e), 1, Len(q))) = Len(q)
        BY <1>1
    <2>3. \A i \in 1 .. Len(q) : SubSeq(Append(q, e), 1, Len(q))[i] = q[i]
        BY <1>1
    <2>4. SubSeq(Append(q, e), 1, Len(q)) \in Seq(Events)
        BY <1>1
    <2> QED
        BY <2>1, <2>2, <2>3, <2>4
<1>3. Len(q) <= Len(q) /\ Len(q) <= Len(Append(q, e))
    BY <1>1
<1>4. PICK a : a = Append(q, e)
    OBVIOUS
<1>5. IsPrefix(q, q) /\ IsPrefix(q, a)
    BY <1>2, <1>3, <1>4 DEF IsPrefix
<1> QED
    BY <1>4, <1>5

\* An open proposal changes and is not executed by it.
LEMMA OpenProposalChanged ==
    ASSUME NEW s, SnapshotOK(s), NEW id \in DOMAIN s.proposals, NEW p \in Proposals,
           p.executed = s.proposals[id].executed, Open(s.proposals[id]), NEW new,
           new = [currentBlock |-> s.currentBlock,
                  proposals |-> [s.proposals EXCEPT ![id] = p],
                  events |-> s.events]
    PROVE  SnapshotOK(new) /\ new.events = s.events /\ KeepsDecided(s, new)
<1>1. PICK ps : ps = s.proposals
    OBVIOUS
<1>2. ps \in Seq(Proposals) /\ Len(ps) <= MaxProposals /\ id \in 1 .. Len(ps)
    BY <1>1, SnapshotFields DEF SnapshotOK
<1>3. PICK qs : qs = [ps EXCEPT ![id] = p]
    OBVIOUS
<1>4. /\ qs \in Seq(Proposals) /\ Len(qs) = Len(ps) /\ DOMAIN qs = DOMAIN ps
      /\ qs[id] = p /\ \A i \in DOMAIN ps : i # id => qs[i] = ps[i]
    BY <1>2, <1>3
<1>5. {i \in DOMAIN qs : qs[i].executed} = Executed(s)
    BY <1>1, <1>4 DEF Executed
<1>6. new = [currentBlock |-> s.currentBlock, proposals |-> qs, events |-> s.events]
    BY <1>1, <1>3
<1>7. SnapshotOK(new)
    <2>1. s.currentBlock \in StartBlock .. MaxBlock /\ Len(qs) <= MaxProposals
        BY <1>2, <1>4, SnapshotFields
    <2>2. SnapshotOK([currentBlock |-> s.currentBlock, proposals |-> qs, events |-> s.events])
        BY <1>4, <1>5, <2>1, SnapshotChanged
    <2> QED
        BY <1>6, <2>2
<1>8. new.events = s.events /\ new.proposals = qs
    BY <1>6
<1>9. IsPrefix(s.events, new.events)
    <2>1. s.events \in Seq(Events)
        BY SnapshotFields
    <2> QED
        BY <1>8, <2>1 DEF IsPrefix
<1>10. KeepsDecided(s, new)
    BY <1>1, <1>4, <1>8, <1>9 DEF KeepsDecided
<1> QED
    BY <1>7, <1>8, <1>10

\* Every operation that broadcasts nothing is a save of a sound state.
LEMMA OperationIsSound ==
    ASSUME IInv,
           \/ AdvanceBlocks(1)
           \/ \E block \in SyncedBlocks : SetCurrentBlock(block)
           \/ \E s \in Sectors, m \in Multipliers, stake \in Stakes :
                CreateProposal(s, m, stake)
           \/ \E id \in DOMAIN store.proposals, choice \in VoteChoices : CastVote(id, choice)
    PROVE  \E new : /\ SnapshotOK(new) /\ new.events = store.events
                    /\ KeepsDecided(store, new) /\ Mutate(new)
<1>1. /\ SnapshotOK(store)
      /\ store = [currentBlock |-> store.currentBlock, proposals |-> store.proposals,
                  events |-> store.events]
      /\ store.currentBlock \in StartBlock .. MaxBlock
      /\ store.proposals \in Seq(Proposals) /\ store.events \in Seq(Events)
      /\ Len(store.proposals) <= MaxProposals
    BY SnapshotFields DEF IInv, SnapshotOK
<1>2. PICK b, ps, es : b = store.currentBlock /\ ps = store.proposals /\ es = store.events
    OBVIOUS
<1>3. IsPrefix(es, es)
    BY <1>1, <1>2 DEF IsPrefix
<1>9. ASSUME NEW qs
      PROVE  [store EXCEPT !.proposals = qs]
               = [currentBlock |-> b, proposals |-> qs, events |-> es]
    <2>1. store = [currentBlock |-> b, proposals |-> ps, events |-> es]
        BY <1>1, <1>2
    <2> QED
        BY <2>1
<1>4. ASSUME NEW c \in StartBlock .. MaxBlock, NEW new, new = [store EXCEPT !.currentBlock = c]
      PROVE  SnapshotOK(new) /\ new.events = store.events /\ KeepsDecided(store, new)
    <2>1. new = [currentBlock |-> c, proposals |-> ps, events |-> es]
        BY <1>1, <1>2, <1>4
    <2>2. SnapshotOK(new)
        BY <1>1, <1>2, <2>1, SnapshotChanged DEF Executed
    <2>3. new.proposals = store.proposals /\ new.events = store.events
        BY <1>2, <2>1
    <2> QED
        BY <1>2, <1>3, <2>2, <2>3 DEF KeepsDecided
<1>5. CASE AdvanceBlocks(1)
    <2>1. store.currentBlock + 1 \in StartBlock .. MaxBlock
        BY <1>1, <1>5, NumbersAssumption DEF AdvanceBlocks
    <2>2. PICK new : new = [store EXCEPT !.currentBlock = store.currentBlock + 1]
        OBVIOUS
    <2>3. Mutate(new)
        BY <1>5, <2>2 DEF AdvanceBlocks
    <2> QED
        BY <1>4, <2>1, <2>2, <2>3
<1>6. CASE \E block \in SyncedBlocks : SetCurrentBlock(block)
    <2>1. PICK block \in SyncedBlocks : SetCurrentBlock(block)
        BY <1>6
    <2>2. block \in StartBlock .. MaxBlock
        BY SyncedBlocksAssumption
    <2>3. PICK new : new = [store EXCEPT !.currentBlock = block]
        OBVIOUS
    <2>4. Mutate(new)
        BY <2>1, <2>3 DEF SetCurrentBlock
    <2> QED
        BY <1>4, <2>2, <2>3, <2>4
<1>7. CASE \E s \in Sectors, m \in Multipliers, stake \in Stakes : CreateProposal(s, m, stake)
    <2>1. PICK s \in Sectors, m \in Multipliers, stake \in Stakes : CreateProposal(s, m, stake)
        BY <1>7
    <2>2. PICK p : p = NewProposal(s, m, stake, b)
        OBVIOUS
    <2>3. p \in Proposals /\ ~p.executed
        <3>1. b + ProposalBlocks \in Nat
            BY <1>1, <1>2, NumbersAssumption
        <3>2. [c \in VoteChoices |-> 0] \in [VoteChoices -> Nat]
            OBVIOUS
        <3> QED
            BY <2>2, <3>1, <3>2 DEF NewProposal, Proposals
    <2>4. PICK qs : qs = Append(ps, p)
        OBVIOUS
    <2>5. PICK new : new = [currentBlock |-> b, proposals |-> qs, events |-> es]
        OBVIOUS
    <2>6. Mutate(new)
        <3>1. Mutate([store EXCEPT !.proposals =
                        Append(@, NewProposal(s, m, stake, store.currentBlock))])
            BY <2>1 DEF CreateProposal
        <3>2. [store EXCEPT !.proposals =
                        Append(@, NewProposal(s, m, stake, store.currentBlock))] = new
            BY <1>2, <1>9, <2>2, <2>4, <2>5
        <3> QED
            BY <3>1, <3>2
    <2>7. /\ qs \in Seq(Proposals) /\ Len(qs) <= MaxProposals
          /\ DOMAIN ps = 1 .. Len(ps) /\ DOMAIN qs = 1 .. Len(ps) + 1
          /\ qs[Len(ps) + 1] = p /\ \A i \in DOMAIN ps : qs[i] = ps[i]
        <3>1. Len(store.proposals) < MaxProposals /\ MaxProposals \in Nat
            BY <2>1, NumbersAssumption DEF CreateProposal
        <3> QED
            BY <1>1, <1>2, <2>3, <2>4, <3>1
    <2>8. {id \in DOMAIN qs : qs[id].executed} = Executed(store)
        <3>1. Len(ps) \in Nat
            BY <1>1, <1>2
        <3>2. DOMAIN qs = DOMAIN ps \cup {Len(ps) + 1}
            BY <2>7, <3>1
        <3> QED
            BY <1>2, <2>3, <2>7, <3>2 DEF Executed
    <2>9. SnapshotOK(new)
        BY <1>1, <1>2, <2>5, <2>7, <2>8, SnapshotChanged
    <2>10. new.events = es /\ new.proposals = qs
        BY <2>5
    <2>11. DOMAIN ps \subseteq DOMAIN qs
        <3>1. Len(ps) \in Nat
            BY <1>1, <1>2
        <3> QED
            BY <2>7, <3>1
    <2>12. KeepsDecided(store, new)
        BY <1>2, <1>3, <2>7, <2>10, <2>11 DEF KeepsDecided
    <2> QED
        BY <1>2, <2>6, <2>9, <2>10, <2>12
<1>8. CASE \E id \in DOMAIN store.proposals, choice \in VoteChoices : CastVote(id, choice)
    <2>1. PICK id \in DOMAIN store.proposals, choice \in VoteChoices : CastVote(id, choice)
        BY <1>8
    <2>2. PICK p \in Proposals : p = store.proposals[id]
        BY <1>1
    <2>3. PICK v \in [VoteChoices -> Nat] : v = p.votes
        BY <2>2 DEF Proposals
    <2>4. PICK w : w = [v EXCEPT ![choice] = @ + OperatorVotingPower]
        OBVIOUS
    <2>5. w \in [VoteChoices -> Nat]
        <3>1. v[choice] + OperatorVotingPower \in Nat
            BY <2>3, NumbersAssumption
        <3> QED
            BY <2>4, <3>1
    <2>6. PICK q : q = [p EXCEPT !.votes = w]
        OBVIOUS
    <2>7. q \in Proposals /\ q.executed = p.executed
        BY <2>2, <2>5, <2>6 DEF Proposals
    <2>8. PICK new : new = [currentBlock |-> b, proposals |-> [ps EXCEPT ![id] = q],
                            events |-> es]
        OBVIOUS
    <2>9. Mutate(new)
        <3>1. Mutate([store EXCEPT !.proposals[id].votes[choice] = @ + OperatorVotingPower])
            BY <2>1 DEF CastVote
        <3>2. [store EXCEPT !.proposals[id].votes[choice] = @ + OperatorVotingPower]
                = [store EXCEPT !.proposals = [ps EXCEPT ![id] = q]]
            BY <1>2, <2>2, <2>3, <2>4, <2>6
        <3>3. [store EXCEPT !.proposals = [ps EXCEPT ![id] = q]] = new
            BY <1>9, <2>8
        <3> QED
            BY <3>1, <3>2, <3>3
    <2>10. Open(store.proposals[id])
        <3>1. statusOf(store.proposals[id], store.currentBlock) = "active"
            BY <2>1 DEF CastVote
        <3> QED
            BY <3>1 DEF statusOf, Open
    <2> QED
        BY <1>1, <1>2, <2>2, <2>7, <2>8, <2>9, <2>10, OpenProposalChanged
<1> QED
    BY <1>5, <1>6, <1>7, <1>8

---------------------------------------------------------------------------
(***************************************************************************)
(* The way of an event, as one queue.                                      *)
(***************************************************************************)

\* An event that moves on from one channel to the next keeps its place.
LEMMA QueueMoves ==
    ASSUME NEW a \in Seq(Events), NEW b \in Seq(Events), NEW c \in Seq(Events),
           NEW e \in Events
    PROVE  /\ a \o b \o c \in Seq(Events)
           /\ c # <<>> => a \o <<Head(c)>> \o Tail(c) = a \o <<>> \o c
           /\ b # <<>> => Append(a, Head(b)) \o Tail(b) \o c = a \o b \o c
           /\ a # <<>> => /\ a \o b \o c # <<>> /\ Head(a \o b \o c) = Head(a)
                          /\ Tail(a) \o b \o c = Tail(a \o b \o c)
           /\ a \o b \o Append(c, e) = Append(a \o b \o c, e)
<1>1. a \o b \o c \in Seq(Events)
    OBVIOUS
<1>2. ASSUME c # <<>> PROVE a \o <<Head(c)>> \o Tail(c) = a \o <<>> \o c
    <2>1. <<Head(c)>> \o Tail(c) = c
        BY <1>2
    <2>2. Head(c) \in Events /\ Tail(c) \in Seq(Events)
        BY <1>2
    <2>3. a \o <<Head(c)>> \o Tail(c) = a \o (<<Head(c)>> \o Tail(c))
        BY <2>2
    <2>4. a \o <<>> = a
        OBVIOUS
    <2> QED
        BY <2>1, <2>3, <2>4
<1>3. ASSUME b # <<>> PROVE Append(a, Head(b)) \o Tail(b) \o c = a \o b \o c
    <2>1. Append(a, Head(b)) \o Tail(b) = a \o b
        <3>0. Head(b) \in Events /\ Tail(b) \in Seq(Events)
            BY <1>3
        <3>1. PICK h \in Events, t \in Seq(Events) : h = Head(b) /\ t = Tail(b)
            BY <3>0, Zenon
        <3>2. b = <<h>> \o t
            BY <1>3, <3>1
        <3>3. Append(a, h) = a \o <<h>>
            OBVIOUS
        <3>4. (a \o <<h>>) \o t = a \o (<<h>> \o t)
            OBVIOUS
        <3> QED
            BY <3>1, <3>2, <3>3, <3>4
    <2> QED
        BY <2>1
<1>4. ASSUME a # <<>>
      PROVE  /\ a \o b \o c # <<>> /\ Head(a \o b \o c) = Head(a)
             /\ Tail(a) \o b \o c = Tail(a \o b \o c)
    <2>1. PICK d : d = b \o c
        OBVIOUS
    <2>2. d \in Seq(Events) /\ a \o b \o c = a \o d /\ Tail(a) \o b \o c = Tail(a) \o d
        BY <1>4, <2>1
    <2>3. a \o d # <<>> /\ Head(a \o d) = Head(a) /\ Tail(a) \o d = Tail(a \o d)
        <3>0. Head(a) \in Events /\ Tail(a) \in Seq(Events)
            BY <1>4
        <3>1. PICK h \in Events, t \in Seq(Events) : h = Head(a) /\ t = Tail(a)
            BY <3>0, Zenon
        <3>2. a = <<h>> \o t
            BY <1>4, <3>1
        <3>3. PICK z : z = t \o d
            OBVIOUS
        <3>6. z \in Seq(Events)
            BY <2>2, <3>3
        <3>4. (<<h>> \o t) \o d = <<h>> \o z
            BY <2>2, <3>3, SMTT(40)
        <3>5. <<h>> \o z # <<>> /\ Head(<<h>> \o z) = h /\ Tail(<<h>> \o z) = z
            BY <3>6
        <3> QED
            BY <3>1, <3>2, <3>3, <3>4, <3>5
    <2> QED
        BY <2>2, <2>3
<1>5. a \o b \o Append(c, e) = Append(a \o b \o c, e)
    OBVIOUS
<1> QED
    BY <1>1, <1>2, <1>3, <1>4, <1>5

LEMMA QueueSends ==
    ASSUME NEW a \in Seq(Events), NEW b \in Seq(Events), NEW c \in Seq(Events), b # <<>>
    PROVE  Append(a, Head(b)) \o Tail(b) \o c = a \o b \o c
<1>1. Head(b) \in Events
    OBVIOUS
<1> QED
    BY <1>1, QueueMoves, Zenon

LEMMA QueueLosesHead ==
    ASSUME NEW a \in Seq(Events), NEW b \in Seq(Events), NEW c \in Seq(Events), a # <<>>
    PROVE  /\ a \o b \o c # <<>> /\ Head(a \o b \o c) = Head(a)
           /\ Tail(a) \o b \o c = Tail(a \o b \o c)
<1>1. Head(a) \in Events
    OBVIOUS
<1> QED
    BY <1>1, QueueMoves, SMTT(40)

\* A step that leaves the store, the file and the lost events alone and
\* changes none of the rules to come.
LEMMA ChannelStepPreserves ==
    ASSUME IInv, UNCHANGED <<store, saved, running, missed>>, ChannelsOK',
           \A r \in Sectors : RuleAfter(rules', out' \o pending' \o live', r)
                                = RuleAfter(rules, out \o pending \o live, r)
    PROVE  IInv'
<1>1. NotMissed' = NotMissed
    BY DEF NotMissed
<1>2. SnapshotOK(store') /\ SnapshotOK(saved') /\ missed' \subseteq Executed(store')
      /\ AcknowledgedIsSaved'
    BY DEF IInv, AcknowledgedIsSaved
<1>3. RulesFollowEvents'
    BY <1>1 DEF IInv, RulesFollowEvents
<1> QED
    BY <1>2, <1>3 DEF IInv

\* The relay goroutine and the listener.
LEMMA DeliveryPreserves ==
    ASSUME IInv, Relay \/ Send \/ Listen
    PROVE  IInv'
<1>1. /\ pending \in Seq(Events) /\ live \in Seq(Events) /\ out \in Seq(Events)
      /\ Len(live) <= Buffer /\ Len(out) <= Buffer /\ Buffer \in Nat
      /\ DOMAIN rules \subseteq Sectors /\ running \in BOOLEAN
    BY NumbersAssumption DEF IInv, ChannelsOK
<1>2. CASE Relay
    <2>1. /\ live # <<>> /\ pending = <<>> /\ pending' = <<Head(live)>> /\ live' = Tail(live)
          /\ out' = out /\ rules' = rules /\ running' = running
          /\ UNCHANGED <<store, saved, running, missed>>
        BY <1>2 DEF Relay
    <2>2. Head(live) \in Events /\ Tail(live) \in Seq(Events) /\ Len(Tail(live)) <= Buffer
        BY <1>1, <2>1
    <2>3. ChannelsOK'
        BY <1>1, <2>1, <2>2 DEF ChannelsOK
    <2>4. out' \o pending' \o live' = out \o pending \o live
        BY <1>1, <2>1, <2>2, QueueMoves
    <2> QED
        BY <2>1, <2>3, <2>4, ChannelStepPreserves
<1>3. CASE Send
    <2>1. /\ pending # <<>> /\ Len(out) < Buffer
          /\ out' = Append(out, Head(pending)) /\ pending' = Tail(pending)
          /\ live' = live /\ rules' = rules /\ running' = running
          /\ UNCHANGED <<store, saved, running, missed>>
        BY <1>3 DEF Send
    <2>2. /\ Head(pending) \in Events /\ Tail(pending) \in Seq(Events)
          /\ Append(out, Head(pending)) \in Seq(Events)
          /\ Len(Append(out, Head(pending))) <= Buffer
        BY <1>1, <2>1
    <2>3. ChannelsOK'
        BY <1>1, <2>1, <2>2 DEF ChannelsOK
    <2>4. out' \o pending' \o live' = out \o pending \o live
        <3>1. /\ out \in Seq(Events) /\ pending \in Seq(Events) /\ live \in Seq(Events)
              /\ pending # <<>>
            BY <1>1, <2>1
        <3>2. Append(out, Head(pending)) \o Tail(pending) \o live = out \o pending \o live
            BY <3>1, QueueSends, Zenon
        <3> QED
            BY <2>1, <3>2
    <2> QED
        BY <2>1, <2>3, <2>4, ChannelStepPreserves
<1>4. CASE Listen
    <2>1. /\ out # <<>> /\ rules' = UpsertRule(rules, Head(out)) /\ out' = Tail(out)
          /\ pending' = pending /\ live' = live /\ running' = running
          /\ UNCHANGED <<store, saved, running, missed>>
        BY <1>4 DEF Listen
    <2>2. Head(out) \in Events /\ Tail(out) \in Seq(Events) /\ Len(Tail(out)) <= Buffer
        BY <1>1, <2>1
    <2>3. DOMAIN rules' \subseteq Sectors
        <3>1. Head(out).sector \in Sectors
            BY <2>2 DEF Events
        <3>2. DOMAIN rules' = DOMAIN rules \cup {Head(out).sector}
            BY <2>1 DEF UpsertRule
        <3> QED
            BY <1>1, <3>1, <3>2
    <2>4. ChannelsOK'
        BY <1>1, <2>1, <2>2, <2>3 DEF ChannelsOK
    <2>5. PICK q : q = out \o pending \o live
        OBVIOUS
    <2>6. /\ q \in Seq(Events) /\ q # <<>> /\ Head(q) = Head(out)
          /\ Tail(out) \o pending \o live = Tail(q)
        <3>1. out \o pending \o live \in Seq(Events)
            BY <1>1
        <3>2. out \in Seq(Events) /\ pending \in Seq(Events) /\ live \in Seq(Events)
              /\ out # <<>>
            BY <1>1, <2>1
        <3>3. out \o pending \o live # <<>>
            BY <3>2, QueueLosesHead, Zenon
        <3>4. Head(out \o pending \o live) = Head(out)
            BY <3>2, QueueLosesHead, Zenon
        <3>5. Tail(out) \o pending \o live = Tail(out \o pending \o live)
            BY <3>2, QueueLosesHead, Zenon
        <3> QED
            BY <2>5, <3>1, <3>3, <3>4, <3>5, Zenon
    <2>7. \A r \in Sectors : RuleAfter(rules', out' \o pending' \o live', r)
                               = RuleAfter(rules, out \o pending \o live, r)
        BY <2>1, <2>5, <2>6, RuleAfterFirst
    <2> QED
        BY <2>1, <2>4, <2>7, ChannelStepPreserves
<1> QED
    BY <1>2, <1>3, <1>4

---------------------------------------------------------------------------
(***************************************************************************)
(* Finalization.                                                           *)
(***************************************************************************)

\* The state with the proposal executed and its event.
ExecutedStore(id) ==
    [currentBlock |-> store.currentBlock,
     proposals |-> [store.proposals EXCEPT
                      ![id] = [store.proposals[id] EXCEPT !.executed = TRUE]],
     events |-> Append(store.events, EventOf(id))]

\* Executing an open proposal gives it the one event it has.
LEMMA ExecutionIsSound ==
    ASSUME IInv, NEW id \in DOMAIN store.proposals, Open(store.proposals[id])
    PROVE  /\ SnapshotOK(ExecutedStore(id)) /\ KeepsDecided(store, ExecutedStore(id))
           /\ EventOf(id) \in Events /\ id \notin Executed(store)
<1>1. /\ SnapshotOK(store)
      /\ store.currentBlock \in StartBlock .. MaxBlock
      /\ store.proposals \in Seq(Proposals) /\ store.events \in Seq(Events)
      /\ Len(store.proposals) <= MaxProposals
    BY SnapshotFields DEF IInv, SnapshotOK
<1>2. PICK b, ps, es : b = store.currentBlock /\ ps = store.proposals /\ es = store.events
    OBVIOUS
<1>3. PICK p \in Proposals : p = ps[id]
    BY <1>1, <1>2
<1>4. id \notin Executed(store)
    BY DEF Executed, Open
<1>5. PICK e : e = EventOf(id)
    OBVIOUS
<1>6. e \in Events /\ e.proposal = id
    <2>1. id \in 1 .. MaxProposals
        BY <1>1, NumbersAssumption
    <2>2. p.sector \in Sectors /\ p.multiplier \in Multipliers
        BY <1>3 DEF Proposals
    <2>3. e = [proposal |-> id, sector |-> p.sector, multiplier |-> p.multiplier, block |-> b]
        BY <1>2, <1>3, <1>5 DEF EventOf
    <2> QED
        BY <1>1, <1>2, <2>1, <2>2, <2>3 DEF Events
<1>7. PICK q : q = [p EXCEPT !.executed = TRUE]
    OBVIOUS
<1>8. q \in Proposals /\ q.executed = TRUE
    BY <1>3, <1>7 DEF Proposals
<1>9. PICK qs, fs : qs = [ps EXCEPT ![id] = q] /\ fs = Append(es, e)
    OBVIOUS
<1>10. /\ qs \in Seq(Proposals) /\ Len(qs) = Len(ps) /\ DOMAIN qs = DOMAIN ps
       /\ qs[id] = q /\ \A i \in DOMAIN ps : i # id => qs[i] = ps[i]
    BY <1>1, <1>2, <1>8, <1>9
<1>11. /\ fs \in Seq(Events) /\ DOMAIN fs = DOMAIN es \cup {Len(es) + 1}
       /\ Len(es) + 1 \notin DOMAIN es
       /\ fs[Len(es) + 1] = e /\ \A i \in DOMAIN es : fs[i] = es[i]
    <2>1. Len(es) \in Nat /\ DOMAIN es = 1 .. Len(es) /\ DOMAIN fs = 1 .. Len(es) + 1
        BY <1>1, <1>2, <1>6, <1>9
    <2>2. 1 .. Len(es) + 1 = 1 .. Len(es) \cup {Len(es) + 1} /\ Len(es) + 1 \notin 1 .. Len(es)
        BY <2>1
    <2>3. fs \in Seq(Events) /\ fs[Len(es) + 1] = e /\ \A i \in 1 .. Len(es) : fs[i] = es[i]
        BY <1>1, <1>2, <1>6, <1>9
    <2> QED
        BY <2>1, <2>2, <2>3
<1>12. PICK new : new = [currentBlock |-> b, proposals |-> qs, events |-> fs]
    OBVIOUS
<1>13. new = ExecutedStore(id)
    BY <1>2, <1>3, <1>5, <1>7, <1>9, <1>12 DEF ExecutedStore
<1>14. new \in Snapshots /\ new.proposals = qs /\ new.events = fs
    BY <1>1, <1>2, <1>10, <1>11, <1>12 DEF Snapshots
<1>15. Executed(new) = Executed(store) \cup {id}
    BY <1>2, <1>8, <1>10, <1>14 DEF Executed
<1>16. {fs[i].proposal : i \in DOMAIN fs} = {es[i].proposal : i \in DOMAIN es} \cup {id}
    BY <1>6, <1>11
<1>17. {es[i].proposal : i \in DOMAIN es} = Executed(store)
    BY <1>1, <1>2 DEF SnapshotOK
<1>18. IsInjective([i \in DOMAIN fs |-> fs[i].proposal])
    <2>1. \A i, j \in DOMAIN es : es[i].proposal = es[j].proposal => i = j
        BY <1>1, <1>2 DEF SnapshotOK, IsInjective
    <2>2. \A i \in DOMAIN es : es[i].proposal # id
        BY <1>4, <1>17
    <2>3. \A i, j \in DOMAIN fs : fs[i].proposal = fs[j].proposal => i = j
        BY <1>6, <1>11, <2>1, <2>2
    <2> QED
        BY <2>3 DEF IsInjective
<1>19. SnapshotOK(new)
    <2>1. Len(new.proposals) <= MaxProposals
        BY <1>1, <1>2, <1>10, <1>14
    <2> QED
        BY <1>14, <1>15, <1>16, <1>17, <1>18, <2>1 DEF SnapshotOK
<1>20. IsPrefix(es, fs)
    BY <1>1, <1>2, <1>6, <1>9, AppendExtends
<1>21. KeepsDecided(store, new)
    BY <1>2, <1>10, <1>14, <1>20 DEF KeepsDecided
<1> QED
    BY <1>4, <1>5, <1>6, <1>13, <1>19, <1>21

\* The code's update of the two fields is that state.
LEMMA ExecutionUpdate ==
    ASSUME IInv, NEW id \in DOMAIN store.proposals
    PROVE  [store EXCEPT !.proposals[id].executed = TRUE,
                         !.events = Append(@, EventOf(id))] = ExecutedStore(id)
<1>1. PICK b, ps, es : store = [currentBlock |-> b, proposals |-> ps, events |-> es]
    BY SnapshotFields DEF IInv
<1>2. PICK e, q : e = EventOf(id) /\ q = [ps[id] EXCEPT !.executed = TRUE]
    OBVIOUS
<1>3. store.currentBlock = b /\ store.proposals = ps /\ store.events = es
    BY <1>1
<1>4. PICK qs, fs : qs = [ps EXCEPT ![id] = q] /\ fs = Append(es, e)
    OBVIOUS
<1>5. [store EXCEPT !.proposals[id].executed = TRUE, !.events = Append(@, e)]
        = [store EXCEPT !.proposals = qs, !.events = fs]
    BY <1>2, <1>3, <1>4
<1>6. [store EXCEPT !.proposals = qs, !.events = fs]
        = [currentBlock |-> b, proposals |-> qs, events |-> fs]
    <2>1. PICK m : m = [store EXCEPT !.proposals = qs]
        OBVIOUS
    <2>2. m = [currentBlock |-> b, proposals |-> qs, events |-> es]
        BY <1>1, <2>1
    <2>3. [m EXCEPT !.events = fs] = [currentBlock |-> b, proposals |-> qs, events |-> fs]
        BY <2>2
    <2> QED
        BY <2>1, <2>3
<1> QED
    BY <1>2, <1>3, <1>4, <1>5, <1>6 DEF ExecutedStore

\* The event of an execution, saved and broadcast, or lost for the
\* subscriber whose channel is full.
LEMMA BroadcastPreserves ==
    ASSUME IInv, NEW id \in DOMAIN store.proposals, Open(store.proposals[id]),
           Broadcast(EventOf(id), ExecutedStore(id))
    PROVE  IInv'
<1>1. PICK e, new : e = EventOf(id) /\ new = ExecutedStore(id)
    OBVIOUS
<1>2. /\ SnapshotOK(new) /\ e \in Events /\ id \notin Executed(store) /\ e.proposal = id
      /\ new.events = Append(store.events, e)
    BY <1>1, ExecutionIsSound DEF EventOf, ExecutedStore
<1>3. PICK es : es = store.events
    OBVIOUS
<1>4. es \in Seq(Events) /\ SnapshotOK(store)
    BY <1>3, SnapshotFields DEF IInv
<1>5. /\ pending \in Seq(Events) /\ live \in Seq(Events) /\ out \in Seq(Events)
      /\ Len(live) <= Buffer /\ Len(out) <= Buffer /\ Buffer \in Nat
      /\ DOMAIN rules \subseteq Sectors /\ running \in BOOLEAN /\ missed \subseteq Executed(store)
    BY NumbersAssumption DEF IInv, ChannelsOK
<1>6. CASE SaveFails(new) /\ UNCHANGED <<channels, missed>>
    BY <1>6, SaveFailsPreserves
<1>7. CASE CrashAfterSave(new)
    BY <1>2, <1>7, StopPreserves DEF CrashAfterSave
<1>8. CASE /\ Save(new)
           /\ live' = IF Len(live) < Buffer THEN Append(live, e) ELSE live
           /\ missed' = IF Len(live) < Buffer THEN missed ELSE missed \cup {e.proposal}
           /\ UNCHANGED <<pending, out, rules>>
    <2>1. store' = new /\ saved' = new /\ running' = running
          /\ pending' = pending /\ out' = out /\ rules' = rules
        BY <1>8 DEF Save
    <2>2. PICK fs : fs = Append(es, e)
        OBVIOUS
    <2>3. store'.events = fs
        BY <1>2, <1>3, <2>1, <2>2
    <2>4. /\ DOMAIN es \subseteq Int /\ \A i \in DOMAIN es : i < Len(es) + 1
          /\ Len(es) + 1 \in Int /\ DOMAIN fs = DOMAIN es \cup {Len(es) + 1}
          /\ fs[Len(es) + 1] = e /\ \A i \in DOMAIN es : fs[i] = es[i]
        <3>1. Len(es) \in Nat /\ DOMAIN es = 1 .. Len(es) /\ DOMAIN fs = 1 .. Len(es) + 1
            BY <1>2, <1>4, <2>2
        <3>2. 1 .. Len(es) + 1 = 1 .. Len(es) \cup {Len(es) + 1}
            BY <3>1
        <3>3. fs[Len(es) + 1] = e /\ \A i \in 1 .. Len(es) : fs[i] = es[i]
            BY <1>2, <1>4, <2>2
        <3>4. Len(es) + 1 \in Int /\ \A i \in 1 .. Len(es) : i < Len(es) + 1 /\ i \in Int
            BY <3>1
        <3> QED
            BY <3>1, <3>2, <3>3, <3>4
    <2>5. Executed(new) = Executed(store) \cup {id}
        <3>1. {fs[i].proposal : i \in DOMAIN fs} = {es[i].proposal : i \in DOMAIN es} \cup {id}
            BY <1>2, <2>4
        <3>2. {fs[i].proposal : i \in DOMAIN fs} = Executed(new)
            BY <1>2, <1>3, <2>2 DEF SnapshotOK
        <3>3. {es[i].proposal : i \in DOMAIN es} = Executed(store)
            BY <1>3, <1>4 DEF SnapshotOK
        <3> QED
            BY <3>1, <3>2, <3>3
    <2>6. missed' \subseteq Executed(store')
        BY <1>2, <1>5, <1>8, <2>1, <2>5
    <2>7. ChannelsOK'
        <3>1. live' \in Seq(Events) /\ Len(live') <= Buffer
            BY <1>2, <1>5, <1>8
        <3> QED
            BY <1>5, <2>1, <3>1 DEF ChannelsOK
    <2>8. \A i \in DOMAIN es : es[i].proposal # id
        BY <1>2, <1>3, <1>4 DEF SnapshotOK
    <2> DEFINE kept == {i \in DOMAIN es : es[i].proposal \notin missed}
               now == {i \in DOMAIN fs : fs[i].proposal \notin missed'}
    <2>9. NotMissed = Restrict(es, kept) /\ NotMissed' = Restrict(fs, now)
        BY <1>3, <2>3 DEF NotMissed
    <2>10. RulesFollowEvents'
        <3> SUFFICES ASSUME running, NEW r \in Sectors
                     PROVE  RuleAfter(rules, out \o pending \o live', r)
                              = RuleAfter(<<>>, NotMissed', r)
            BY <2>1 DEF RulesFollowEvents
        <3>1. RuleAfter(rules, out \o pending \o live, r) = RuleAfter(<<>>, NotMissed, r)
            BY DEF IInv, RulesFollowEvents
        <3>2. CASE Len(live) < Buffer
            <4>1. live' = Append(live, e) /\ missed' = missed
                BY <1>8, <3>2
            <4>2. PICK q, q2 : q = out \o pending \o live /\ q2 = out \o pending \o live'
                OBVIOUS
            <4>3. q \in Seq(Events) /\ q2 = Append(q, e)
                <5>1. /\ out \in Seq(Events) /\ pending \in Seq(Events) /\ live \in Seq(Events)
                      /\ e \in Events
                    BY <1>2, <1>5
                <5>2. /\ out \o pending \o live \in Seq(Events)
                      /\ out \o pending \o Append(live, e) = Append(out \o pending \o live, e)
                    BY <5>1, QueueMoves, SMTT(40)
                <5> QED
                    BY <4>1, <4>2, <5>2
            <4>4. /\ Len(q) + 1 \in Int
                  /\ DOMAIN q \subseteq Int /\ \A i \in DOMAIN q : i < Len(q) + 1
                  /\ DOMAIN q2 = DOMAIN q \cup {Len(q) + 1}
                  /\ q2[Len(q) + 1] = e /\ \A i \in DOMAIN q : q2[i] = q[i]
                <5>1. Len(q) \in Nat /\ DOMAIN q = 1 .. Len(q) /\ DOMAIN q2 = 1 .. Len(q) + 1
                    BY <1>2, <4>3
                <5>2. 1 .. Len(q) + 1 = 1 .. Len(q) \cup {Len(q) + 1}
                    BY <5>1
                <5>3. q2[Len(q) + 1] = e /\ \A i \in 1 .. Len(q) : q2[i] = q[i]
                    BY <1>2, <4>3
                <5>4. Len(q) + 1 \in Int /\ \A i \in 1 .. Len(q) : i < Len(q) + 1 /\ i \in Int
                    BY <5>1
                <5> QED
                    BY <5>1, <5>2, <5>3, <5>4
            <4>5. /\ e.sector = r => RuleAfter(rules, q2, r) = {ToPriorityRule(e)}
                  /\ e.sector # r => RuleAfter(rules, q2, r) = RuleAfter(rules, q, r)
                <5>1. q2 = Extended(q, Len(q) + 1, e)
                    <6>1. q2 = [i \in DOMAIN q2 |-> q2[i]]
                        <7>1. q2 \in Seq(Events)
                            BY <1>2, <4>3
                        <7> QED
                            BY <7>1
                    <6> QED
                        BY <4>4, <6>1 DEF Extended
                <5> QED
                    BY <4>4, <5>1, RuleAfterLater
            <4>6. now = kept \cup {Len(es) + 1}
                BY <1>2, <1>5, <2>4, <4>1
            <4>7. PICK f, f2 : f = Restrict(es, kept) /\ f2 = Restrict(fs, now)
                OBVIOUS
            <4>8. /\ DOMAIN f \subseteq Int /\ \A i \in DOMAIN f : i < Len(es) + 1
                  /\ DOMAIN f2 = DOMAIN f \cup {Len(es) + 1}
                  /\ f2[Len(es) + 1] = e /\ \A i \in DOMAIN f : f2[i] = f[i]
                <5>1. DOMAIN f = kept /\ \A i \in kept : f[i] = es[i]
                    BY <4>7 DEF Restrict
                <5>2. DOMAIN f2 = now /\ \A i \in now : f2[i] = fs[i]
                    BY <4>7 DEF Restrict
                <5>3. kept \subseteq DOMAIN es
                    OBVIOUS
                <5> HIDE DEF kept, now
                <5> QED
                    BY <2>4, <4>6, <5>1, <5>2, <5>3
            <4>9. /\ e.sector = r => RuleAfter(<<>>, f2, r) = {ToPriorityRule(e)}
                  /\ e.sector # r => RuleAfter(<<>>, f2, r) = RuleAfter(<<>>, f, r)
                <5>1. f2 = Extended(f, Len(es) + 1, e)
                    <6>1. f2 = [i \in DOMAIN f2 |-> f2[i]]
                        BY <4>7 DEF Restrict
                    <6> QED
                        BY <4>8, <6>1 DEF Extended
                <5> QED
                    BY <2>4, <4>8, <5>1, RuleAfterLater
            <4> QED
                BY <2>9, <3>1, <4>2, <4>5, <4>7, <4>9
        <3>3. CASE ~(Len(live) < Buffer)
            <4>1. live' = live /\ missed' = missed \cup {id}
                BY <1>2, <1>8, <3>3
            <4>2. now = kept
                BY <1>2, <2>4, <2>8, <4>1
            <4>3. \A i \in kept : fs[i] = es[i]
                BY <2>4
            <4>4. Restrict(fs, kept) = Restrict(es, kept)
                BY <4>3 DEF Restrict
            <4> QED
                BY <2>9, <3>1, <4>1, <4>2, <4>4
        <3> QED
            BY <3>2, <3>3
    <2>11. AcknowledgedIsSaved' /\ SnapshotOK(store') /\ SnapshotOK(saved')
        BY <1>2, <2>1 DEF AcknowledgedIsSaved
    <2> QED
        BY <2>6, <2>7, <2>10, <2>11 DEF IInv
<1> QED
    BY <1>1, <1>6, <1>7, <1>8 DEF Broadcast

\* The state with the proposal rejected and its stake taken.
RejectedStore(id, stake) ==
    [store EXCEPT !.proposals[id].rejected = TRUE,
                  !.proposals[id].architectCut = ArchitectFee(stake),
                  !.proposals[id].burnAmount = stake - ArchitectFee(stake)]

\* Rejecting an open proposal touches no event and no decided proposal.
LEMMA RejectionIsSound ==
    ASSUME IInv, NEW id \in DOMAIN store.proposals, Open(store.proposals[id]),
           NEW stake, stake = store.proposals[id].stake, NEW new,
           new = RejectedStore(id, stake)
    PROVE  SnapshotOK(new) /\ new.events = store.events /\ KeepsDecided(store, new)
<1>1. SnapshotOK(store) /\ store.proposals \in Seq(Proposals)
    BY SnapshotFields DEF IInv
<1>2. PICK b, ps, es : store = [currentBlock |-> b, proposals |-> ps, events |-> es]
    BY SnapshotFields DEF IInv
<1>3. store.currentBlock = b /\ store.proposals = ps /\ store.events = es
    BY <1>2
<1>4. PICK p \in Proposals : p = ps[id]
    BY <1>1, <1>3
<1>5. PICK cut : cut = ArchitectFee(stake)
    OBVIOUS
<1>6. stake \in Nat /\ cut \in Nat /\ stake - cut \in Int
    <2>1. stake \in Nat
        BY <1>3, <1>4, NumbersAssumption DEF Proposals
    <2>2. cut \in Nat
        BY <1>5, <2>1 DEF ArchitectFee
    <2> QED
        BY <2>1, <2>2
<1>7. PICK q : q = [p EXCEPT !.rejected = TRUE, !.architectCut = cut, !.burnAmount = stake - cut]
    OBVIOUS
<1>8. q \in Proposals /\ q.executed = p.executed
    BY <1>4, <1>6, <1>7 DEF Proposals
<1>9. PICK qs : qs = [ps EXCEPT ![id] = q]
    OBVIOUS
<1>10. new = [currentBlock |-> b, proposals |-> qs, events |-> es]
    <2>1. PICK p1, p2 : p1 = [p EXCEPT !.rejected = TRUE] /\ p2 = [p1 EXCEPT !.architectCut = cut]
        OBVIOUS
    <2>2. q = [p2 EXCEPT !.burnAmount = stake - cut]
        BY <1>7, <2>1
    <2>3. PICK s1 : s1 = [store EXCEPT !.proposals[id].rejected = TRUE]
        OBVIOUS
    <2>4. PICK s2 : s2 = [s1 EXCEPT !.proposals[id].architectCut = cut]
        OBVIOUS
    <2>5. new = [s2 EXCEPT !.proposals[id].burnAmount = stake - cut]
        BY <1>5, <2>3, <2>4 DEF RejectedStore
    <2>6. id \in DOMAIN ps
        BY <1>3
    <2>7. PICK t1, t2 : t1 = [ps EXCEPT ![id] = p1] /\ t2 = [t1 EXCEPT ![id] = p2]
        OBVIOUS
    <2>8. t1[id] = p1 /\ t2[id] = p2 /\ [t2 EXCEPT ![id] = q] = qs
        BY <1>9, <2>6, <2>7
    <2>9. s1 = [currentBlock |-> b, proposals |-> t1, events |-> es]
        <3>1. s1 = [store EXCEPT !.proposals = t1]
            BY <1>3, <1>4, <2>1, <2>3, <2>7
        <3> QED
            BY <1>2, <3>1
    <2>10. s2 = [currentBlock |-> b, proposals |-> t2, events |-> es]
        <3>1. s1.proposals = t1
            BY <2>9
        <3>2. s2 = [s1 EXCEPT !.proposals = t2]
            BY <2>1, <2>4, <2>7, <2>8, <3>1
        <3> QED
            BY <2>9, <3>2
    <2>11. s2.proposals = t2
        BY <2>10
    <2>12. new = [s2 EXCEPT !.proposals = qs]
        BY <2>2, <2>5, <2>8, <2>11
    <2> QED
        BY <2>10, <2>12
<1>11. new = [currentBlock |-> store.currentBlock,
              proposals |-> [store.proposals EXCEPT ![id] = q], events |-> store.events]
    BY <1>3, <1>9, <1>10
<1>12. q.executed = store.proposals[id].executed
    BY <1>3, <1>4, <1>8
<1>13. q \in Proposals
    BY <1>8
<1> QED
    BY <1>1, <1>11, <1>12, <1>13, OpenProposalChanged

\* A finalization either executes a proposal or saves its rejection.
LEMMA FinalizationIsSound ==
    ASSUME IInv, NEW id \in DOMAIN store.proposals, FinalizeProposal(id)
    PROVE  /\ Open(store.proposals[id])
           /\ \/ Broadcast(EventOf(id), ExecutedStore(id))
              \/ \E new : /\ SnapshotOK(new) /\ new.events = store.events
                          /\ KeepsDecided(store, new) /\ Mutate(new)
<1>1. Open(store.proposals[id])
    BY DEF FinalizeProposal
<1>2. CASE Passed(store.proposals[id])
    <2>1. Broadcast(EventOf(id), [store EXCEPT !.proposals[id].executed = TRUE,
                                               !.events = Append(@, EventOf(id))])
        BY <1>2 DEF FinalizeProposal
    <2> QED
        BY <1>1, <2>1, ExecutionUpdate
<1>3. CASE ~Passed(store.proposals[id])
    <2>1. PICK stake : stake = store.proposals[id].stake
        OBVIOUS
    <2>2. PICK new : new = RejectedStore(id, stake)
        OBVIOUS
    <2>3. Mutate(new)
        BY <1>3, <2>1, <2>2 DEF FinalizeProposal, RejectedStore
    <2>4. SnapshotOK(new) /\ new.events = store.events /\ KeepsDecided(store, new)
        BY <1>1, <2>1, <2>2, RejectionIsSound
    <2> QED
        BY <1>1, <2>3, <2>4
<1> QED
    BY <1>2, <1>3

\* A restart takes everything from the file: the subscriber gets all events
\* again, the lost ones too.
LEMMA RestartPreserves ==
    ASSUME IInv, Restart
    PROVE  IInv'
<1>1. /\ SnapshotOK(saved) /\ saved' = saved /\ running' = TRUE
      /\ store' = saved /\ live' = <<>> /\ out' = <<>> /\ rules' = <<>> /\ missed' = {}
    BY LoadedIsSaved DEF IInv, Restart
<1>2. PICK es \in Seq(Events) : es = saved.events
    BY <1>1, SnapshotFields
<1>3. pending' = es
    BY <1>2, HistoryIsComplete DEF Restart
<1>4. ChannelsOK'
    <2>1. Buffer \in Nat
        BY NumbersAssumption
    <2>2. <<>> \in Seq(Events) /\ Len(<<>>) = 0 /\ DOMAIN <<>> = {}
        OBVIOUS
    <2>3. running' \in BOOLEAN
        BY <1>1
    <2>4. Len(live') <= Buffer /\ Len(out') <= Buffer /\ DOMAIN rules' \subseteq Sectors
        BY <1>1, <2>1, <2>2
    <2> QED
        BY <1>1, <1>2, <1>3, <2>2, <2>3, <2>4 DEF ChannelsOK
<1>5. NotMissed' = es
    <2>1. NotMissed' = Restrict(es, DOMAIN es)
        BY <1>1, <1>2 DEF NotMissed
    <2> QED
        BY <2>1 DEF Restrict
<1>6. out' \o pending' \o live' = es
    <2>1. <<>> \o es \o <<>> = es
        OBVIOUS
    <2> QED
        BY <1>1, <1>3, <2>1
<1>7. RulesFollowEvents'
    BY <1>1, <1>5, <1>6 DEF RulesFollowEvents
<1>8. AcknowledgedIsSaved' /\ missed' \subseteq Executed(store')
    BY <1>1 DEF AcknowledgedIsSaved
<1> QED
    BY <1>1, <1>4, <1>7, <1>8 DEF IInv

---------------------------------------------------------------------------
(***************************************************************************)
(* The theorems.                                                           *)
(***************************************************************************)

\* The operations that append no event, as they appear in Next.
Operation ==
    \/ AdvanceBlocks(1)
    \/ \E block \in SyncedBlocks : SetCurrentBlock(block)
    \/ \E s \in Sectors, m \in Multipliers, stake \in Stakes : CreateProposal(s, m, stake)
    \/ \E id \in DOMAIN store.proposals, choice \in VoteChoices : CastVote(id, choice)

\* Memory and file hold sound snapshots that agree while the service is up,
\* and the registry together with the channels adds up to the events.
THEOREM GovernanceInvariant ==
    Spec => []IInv
<1>1. Init => IInv
    <2> SUFFICES ASSUME Init PROVE IInv
        OBVIOUS
    <2>1. SnapshotOK(store) /\ SnapshotOK(saved) /\ AcknowledgedIsSaved
        BY EmptyIsOK DEF Init, AcknowledgedIsSaved
    <2>2. ChannelsOK
        <3>1. Buffer \in Nat
            BY NumbersAssumption
        <3>2. <<>> \in Seq(Events) /\ Len(<<>>) = 0 /\ DOMAIN <<>> = {}
            OBVIOUS
        <3>3. running \in BOOLEAN
            BY DEF Init
        <3>4. Len(live) <= Buffer /\ Len(out) <= Buffer /\ DOMAIN rules \subseteq Sectors
            BY <3>1, <3>2 DEF Init
        <3> QED
            BY <3>2, <3>3, <3>4 DEF ChannelsOK, Init
    <2>3. missed \subseteq Executed(store)
        BY DEF Init
    <2>4. RulesFollowEvents
        <3>1. store.events = <<>>
            BY DEF Init, Empty
        <3>2. NotMissed = Restrict(<<>>, {})
            BY <3>1 DEF NotMissed
        <3>3. Restrict(<<>>, {}) = <<>>
            BY DEF Restrict
        <3>4. out \o pending \o live = <<>>
            <4>1. <<>> \o <<>> \o <<>> = <<>>
                OBVIOUS
            <4> QED
                BY <4>1 DEF Init
        <3> QED
            BY <3>2, <3>3, <3>4 DEF RulesFollowEvents, Init
    <2> QED
        BY <2>1, <2>2, <2>3, <2>4 DEF IInv
<1>2. IInv /\ [Next]_vars => IInv'
    <2> SUFFICES ASSUME IInv, [Next]_vars PROVE IInv'
        OBVIOUS
    <2>1. CASE Operation
        <3>1. PICK new : /\ SnapshotOK(new) /\ new.events = store.events
                         /\ KeepsDecided(store, new) /\ Mutate(new)
            BY <2>1, OperationIsSound DEF Operation
        <3> QED
            BY <3>1, MutatePreserves
    <2>2. CASE \E id \in DOMAIN store.proposals : FinalizeProposal(id)
        <3>1. PICK id \in DOMAIN store.proposals : FinalizeProposal(id)
            BY <2>2
        <3>2. /\ Open(store.proposals[id])
              /\ \/ Broadcast(EventOf(id), ExecutedStore(id))
                 \/ \E new : /\ SnapshotOK(new) /\ new.events = store.events
                             /\ KeepsDecided(store, new) /\ Mutate(new)
            BY <3>1, FinalizationIsSound
        <3> QED
            BY <3>2, BroadcastPreserves, MutatePreserves
    <2>3. CASE Relay \/ Send \/ Listen
        BY <2>3, DeliveryPreserves
    <2>4. CASE Crash
        <3>1. SnapshotOK(saved')
            BY <2>4 DEF Crash, IInv
        <3> QED
            BY <2>4, <3>1, StopPreserves DEF Crash
    <2>5. CASE Restart
        BY <2>5, RestartPreserves
    <2>6. CASE UNCHANGED vars
        BY <2>6, SamePreserves
    <2> QED
        BY <2>1, <2>2, <2>3, <2>4, <2>5, <2>6 DEF Next, Operation
<1> QED
    BY <1>1, <1>2, PTL DEF Spec

\* Memory and file agree whenever the service is up (mutateLocked).
COROLLARY AcknowledgedStateIsSaved ==
    Spec => []AcknowledgedIsSaved
<1>1. IInv => AcknowledgedIsSaved
    BY DEF IInv
<1> QED
    BY <1>1, GovernanceInvariant, PTL

\* The last event of each sector rules it, as soon as the channels are
\* empty, and it is on its way until then.
COROLLARY RegistryFollowsEvents ==
    Spec => []RulesFollowEvents
<1>1. IInv => RulesFollowEvents
    BY DEF IInv
<1> QED
    BY <1>1, GovernanceInvariant, PTL

\* No execution without its event and none with two.
COROLLARY ExecutionsHaveOneEvent ==
    Spec => []OneEventPerExecution
<1>1. IInv => OneEventPerExecution
    <2> SUFFICES ASSUME IInv PROVE OneEventPerExecution
        OBVIOUS
    <2>1. SnapshotOK(store) /\ SnapshotOK(saved) /\ ChannelsOK
        BY DEF IInv
    <2>2. ASSUME NEW q \in Seq(Events) PROVE ToSet(q) \subseteq Events
        BY DEF ToSet
    <2>3. ToSet(store.events) \cup ToSet(pending) \cup ToSet(live) \cup ToSet(out) \subseteq Events
        BY <2>1, <2>2, SnapshotFields DEF ChannelsOK
    <2>4. TypeOK
        BY <2>1, <2>3, SnapshotFields DEF ChannelsOK, TypeOK, SnapshotOK
    <2> QED
        BY <2>1, <2>4 DEF OneEventPerExecution, SnapshotOK, Executed
<1> QED
    BY <1>1, GovernanceInvariant, PTL

\* A sound operation keeps what the file says is decided.
LEMMA SavedKeepsDecided ==
    ASSUME IInv, running, NEW new, KeepsDecided(store, new), saved' = new \/ saved' = saved
    PROVE  KeepsDecided(saved, saved')
<1>1. store = saved /\ SnapshotOK(saved)
    BY DEF IInv, AcknowledgedIsSaved
<1>2. KeepsDecided(saved, saved)
    <2>1. saved.events \in Seq(Events)
        BY <1>1, SnapshotFields
    <2>2. IsPrefix(saved.events, saved.events)
        BY <2>1 DEF IsPrefix
    <2> QED
        BY <2>2 DEF KeepsDecided
<1> QED
    BY <1>1, <1>2

\* Decided proposals keep their votes and their outcome on disk and events
\* are only appended, whatever happens to the service.
THEOREM DecisionsAreFinal ==
    Spec => DecidedIsFinal
<1>1. IInv /\ [Next]_vars => [KeepsDecided(saved, saved')]_vars
    <2> SUFFICES ASSUME IInv, [Next]_vars PROVE [KeepsDecided(saved, saved')]_vars
        OBVIOUS
    <2>1. CASE Operation
        <3>1. PICK new : /\ SnapshotOK(new) /\ new.events = store.events
                         /\ KeepsDecided(store, new) /\ Mutate(new)
            BY <2>1, OperationIsSound DEF Operation
        <3>2. running /\ (saved' = new \/ saved' = saved)
            BY <3>1 DEF Mutate, Save, SaveFails, CrashAfterSave
        <3> QED
            BY <3>1, <3>2, SavedKeepsDecided
    <2>2. CASE \E id \in DOMAIN store.proposals : FinalizeProposal(id)
        <3>1. PICK id \in DOMAIN store.proposals : FinalizeProposal(id)
            BY <2>2
        <3>2. running /\ Open(store.proposals[id])
            BY <3>1 DEF FinalizeProposal
        <3>3. \/ Broadcast(EventOf(id), ExecutedStore(id))
              \/ \E new : /\ SnapshotOK(new) /\ new.events = store.events
                          /\ KeepsDecided(store, new) /\ Mutate(new)
            BY <3>1, FinalizationIsSound
        <3>4. CASE Broadcast(EventOf(id), ExecutedStore(id))
            <4>1. PICK new : new = ExecutedStore(id)
                OBVIOUS
            <4>2. KeepsDecided(store, new)
                BY <3>2, <4>1, ExecutionIsSound
            <4>3. saved' = new \/ saved' = saved
                BY <3>4, <4>1 DEF Broadcast, Save, SaveFails, CrashAfterSave
            <4> QED
                BY <3>2, <4>2, <4>3, SavedKeepsDecided
        <3>5. CASE \E new : /\ SnapshotOK(new) /\ new.events = store.events
                            /\ KeepsDecided(store, new) /\ Mutate(new)
            <4>1. PICK new : KeepsDecided(store, new) /\ Mutate(new)
                BY <3>5
            <4>2. saved' = new \/ saved' = saved
                BY <4>1 DEF Mutate, Save, SaveFails, CrashAfterSave
            <4> QED
                BY <3>2, <4>1, <4>2, SavedKeepsDecided
        <3> QED
            BY <3>3, <3>4, <3>5
    <2>3. CASE Relay \/ Send \/ Listen \/ Crash \/ Restart \/ UNCHANGED vars
        <3>1. saved' = saved
            BY <2>3 DEF Relay, Send, Listen, Crash, Restart, vars
        <3>2. saved.events \in Seq(Events)
            BY SnapshotFields DEF IInv
        <3>3. IsPrefix(saved.events, saved.events)
            BY <3>2 DEF IsPrefix
        <3> QED
            BY <3>1, <3>3 DEF KeepsDecided
    <2> QED
        BY <2>1, <2>2, <2>3 DEF Next, Operation
<1> QED
    BY <1>1, GovernanceInvariant, PTL DEF Spec, DecidedIsFinal, KeepsDecided
=============================================================================
