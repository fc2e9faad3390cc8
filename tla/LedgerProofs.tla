---------------------------- MODULE LedgerProofs ----------------------------
(***************************************************************************)
(* The ledger for any users, transactions, pages and limits.               *)
(*                                                                         *)
(* Sound(s) is the invariant of one snapshot.  Money, escrow and mention   *)
(* counts are sums, so that each operation is shown to change one summand  *)
(* of a sum.  That a bounty replaces no other rests on TasksHaveOrigin: a  *)
(* task that a user asked for is named after a transaction whose nonce is  *)
(* used up.  That a settled task has no children yet, and that a link is   *)
(* nobody's task, rests on it too: a spawned task hangs below a settled    *)
(* one, and the page of a settled task is in the index.                    *)
(*                                                                         *)
(* A block's work needs no history but that each of its proofs has a       *)
(* crawled page (ProofsCarryPages): the rest is that both roundings, the   *)
(* two penalties and the sum over the proofs keep the order of their       *)
(* arguments.                                                              *)
(***************************************************************************)
EXTENDS Ledger, FiniteSetTheorems, SequenceTheorems, WellFoundedInduction, TLAPS

(***************************************************************************)
(* Sums over finite sets.  SumFunctionOnSet is a recursive function on the *)
(* subsets of its set, which takes out one chosen element after the other. *)
(***************************************************************************)
Chosen(S) == CHOOSE x \in S : TRUE

StepOf(f, g, S) == IF S = {} THEN 0 ELSE f[Chosen(S)] + g[S \ {Chosen(S)}]

SumsUp(f, g, S) == g = [T \in SUBSET S |-> StepOf(f, g, T)]

\* Every nonempty set of naturals has a least element.
LEMMA LeastNumber ==
    ASSUME NEW T, T \subseteq Nat, T # {}
    PROVE  \E x \in T : \A y \in T : x <= y
<1>1. PICK R : R = OpToRel(<, Nat)
    OBVIOUS
<1>2. IsWellFoundedOn(R, Nat)
    BY <1>1, NatLessThanWellFounded
<1>3. PICK x \in T : \A y \in T : ~(<<y, x>> \in R)
    BY <1>2, WFMin
<1>4. ASSUME NEW y \in T PROVE x <= y
    <2>1. y \in Nat /\ x \in Nat
        OBVIOUS
    <2>2. <<y, x>> \notin R
        BY <1>3
    <2>3. y < x => <<y, x>> \in R
        BY <2>1, <1>1 DEF OpToRel
    <2> QED
        BY <2>1, <2>2, <2>3
<1> QED
    BY <1>4

\* Of a nonempty family of subsets of a finite set one has the fewest elements.
LEMMA SmallestSet ==
    ASSUME NEW V, IsFiniteSet(V), NEW F, F \subseteq SUBSET V, F # {}
    PROVE  \E S \in F : \A T \in F : T \subseteq S => T = S
<1>1. ASSUME NEW S \in SUBSET V
      PROVE  IsFiniteSet(S) /\ Cardinality(S) \in Nat
    BY FS_Subset, FS_CardinalityType
<1>2. PICK S \in F : \A T \in F : Cardinality(S) <= Cardinality(T)
    <2>1. PICK C : C = {Cardinality(T) : T \in F}
        OBVIOUS
    <2>2. C \subseteq Nat /\ C # {}
        BY <1>1, <2>1
    <2>3. PICK c \in C : \A d \in C : c <= d
        BY <2>2, LeastNumber
    <2> QED
        BY <2>1, <2>3
<1>3. ASSUME NEW T \in F, T \subseteq S, T # S PROVE FALSE
    <2>1. IsFiniteSet(S) /\ Cardinality(S) \in Nat /\ Cardinality(T) \in Nat
        BY <1>1
    <2>2. Cardinality(T) < Cardinality(S)
        BY <1>3, <2>1, FS_Subset
    <2> QED
        BY <1>2, <2>1, <2>2
<1> QED
    BY <1>3

LEMMA ChosenIsMember ==
    ASSUME NEW S, S # {}
    PROVE  Chosen(S) \in S
BY DEF Chosen

LEMMA SumIsRecursive ==
    ASSUME NEW f, NEW S
    PROVE  SumFunctionOnSet(f, S) = (CHOOSE g : SumsUp(f, g, S))[S]
BY DEF SumFunctionOnSet, FoldFunctionOnSet, MapThenFoldSet, SumsUp, StepOf, Chosen

\* The recursion has one solution, which depends on the summed values only.
LEMMA SumsAgree ==
    ASSUME NEW f, NEW S, NEW g, SumsUp(f, g, S),
           NEW e, NEW T, NEW h, SumsUp(e, h, T),
           NEW V, IsFiniteSet(V), V \subseteq S, V \subseteq T, \A x \in V : f[x] = e[x]
    PROVE  g[V] = h[V]
<1> DEFINE Bad == {U \in SUBSET V : g[U] # h[U]}
<1>1. SUFFICES ASSUME Bad # {} PROVE FALSE
    <2>1. V \in SUBSET V
        OBVIOUS
    <2> QED
        BY <1>1, <2>1
<1>2. PICK U \in Bad : \A W \in Bad : W \subseteq U => W = U
    <2>1. PICK F : F = Bad
        OBVIOUS
    <2>2. F \subseteq SUBSET V /\ F # {}
        BY <1>1, <2>1
    <2>3. \E U \in F : \A W \in F : W \subseteq U => W = U
        BY <2>2, SmallestSet
    <2> HIDE DEF Bad
    <2> QED
        BY <2>1, <2>3
<1>3. g[U] = StepOf(f, g, U) /\ h[U] = StepOf(e, h, U)
    <2>1. U \in SUBSET S /\ U \in SUBSET T
        OBVIOUS
    <2> QED
        BY <2>1 DEF SumsUp
<1>4. CASE U = {}
    BY <1>3, <1>4 DEF StepOf
<1>5. CASE U # {}
    <2>1. PICK x : x = Chosen(U)
        OBVIOUS
    <2>2. x \in U /\ U \ {x} # U /\ U \ {x} \in SUBSET V
        BY <1>5, <2>1, ChosenIsMember
    <2>3. g[U \ {x}] = h[U \ {x}]
        BY <1>2, <2>2
    <2>4. g[U] = f[x] + g[U \ {x}] /\ h[U] = e[x] + h[U \ {x}]
        BY <1>3, <1>5, <2>1 DEF StepOf
    <2> QED
        BY <2>2, <2>3, <2>4
<1> QED
    BY <1>4, <1>5

LEMMA SumStep ==
    ASSUME NEW f, NEW V, IsFiniteSet(V)
    PROVE  SumFunctionOnSet(f, V) =
                IF V = {} THEN 0
                ELSE f[Chosen(V)] + SumFunctionOnSet(f, V \ {Chosen(V)})
<1> DEFINE total(T) == SumFunctionOnSet(f, T)
           Unfolded(T) == IF T = {} THEN 0 ELSE f[Chosen(T)] + total(T \ {Chosen(T)})
           Bad == {T \in SUBSET V : total(T) # Unfolded(T)}
<1>1. SUFFICES ASSUME Bad # {} PROVE FALSE
    <2>1. V \in SUBSET V
        OBVIOUS
    <2> QED
        BY <1>1, <2>1
<1>2. PICK S \in Bad : \A T \in Bad : T \subseteq S => T = S
    <2>1. PICK F : F = Bad
        OBVIOUS
    <2>2. F \subseteq SUBSET V /\ F # {}
        BY <1>1, <2>1
    <2>3. \E S \in F : \A T \in F : T \subseteq S => T = S
        BY <2>2, SmallestSet
    <2> HIDE DEF Bad
    <2> QED
        BY <2>1, <2>3
<1> HIDE DEF total
<1>3. PICK g : g = [T \in SUBSET S |-> Unfolded(T)]
    OBVIOUS
<1>4. SumsUp(f, g, S)
    <2>1. ASSUME NEW T \in SUBSET S PROVE StepOf(f, g, T) = Unfolded(T)
        <3>1. CASE T = {}
            BY <3>1 DEF StepOf
        <3>2. CASE T # {}
            <4>1. PICK x : x = Chosen(T)
                OBVIOUS
            <4>2. x \in T
                BY <3>2, <4>1, ChosenIsMember
            <4>3. T \ {x} \in SUBSET S /\ T \ {x} \in SUBSET V /\ T \ {x} # S
                BY <4>2
            <4>4. total(T \ {x}) = Unfolded(T \ {x})
                BY <1>2, <4>3
            <4>5. g[T \ {x}] = total(T \ {x})
                <5> HIDE DEF Unfolded
                <5> QED
                    BY <1>3, <4>3, <4>4
            <4> QED
                BY <3>2, <4>1, <4>5 DEF StepOf
        <3> QED
            BY <3>1, <3>2
    <2> HIDE DEF Unfolded
    <2> QED
        BY <1>3, <2>1 DEF SumsUp
<1>5. PICK h : SumsUp(f, h, S) /\ total(S) = h[S]
    <2>1. SumsUp(f, CHOOSE k : SumsUp(f, k, S), S)
        BY <1>4
    <2> QED
        BY <2>1, SumIsRecursive DEF total
<1>6. IsFiniteSet(S)
    BY FS_Subset
<1>7. g[S] = h[S]
    BY <1>4, <1>5, <1>6, SumsAgree
<1>8. g[S] = Unfolded(S)
    <2> HIDE DEF Unfolded
    <2>1. S \in SUBSET S
        OBVIOUS
    <2> QED
        BY <1>3, <2>1
<1> QED
    BY <1>5, <1>7, <1>8

\* Sums of equal values are equal.
LEMMA SumOfEquals ==
    ASSUME NEW f, NEW e, NEW V, IsFiniteSet(V), \A x \in V : f[x] = e[x]
    PROVE  SumFunctionOnSet(f, V) = SumFunctionOnSet(e, V)
<1> DEFINE Bad == {T \in SUBSET V : SumFunctionOnSet(f, T) # SumFunctionOnSet(e, T)}
<1>1. SUFFICES ASSUME Bad # {} PROVE FALSE
    <2>1. V \in SUBSET V
        OBVIOUS
    <2> QED
        BY <1>1, <2>1
<1>2. PICK S \in Bad : \A T \in Bad : T \subseteq S => T = S
    <2>1. PICK F : F = Bad
        OBVIOUS
    <2>2. F \subseteq SUBSET V /\ F # {}
        BY <1>1, <2>1
    <2>3. \E S \in F : \A T \in F : T \subseteq S => T = S
        BY <2>2, SmallestSet
    <2> HIDE DEF Bad
    <2> QED
        BY <2>1, <2>3
<1>3. IsFiniteSet(S)
    BY FS_Subset
<1>4. CASE S = {}
    BY <1>3, <1>4, SumStep
<1>5. CASE S # {}
    <2>1. PICK x : x = Chosen(S)
        OBVIOUS
    <2>2. x \in S /\ S \ {x} \in SUBSET V /\ S \ {x} # S
        BY <1>5, <2>1, ChosenIsMember
    <2>3. SumFunctionOnSet(f, S \ {x}) = SumFunctionOnSet(e, S \ {x})
        BY <1>2, <2>2
    <2>4. /\ SumFunctionOnSet(f, S) = f[x] + SumFunctionOnSet(f, S \ {x})
          /\ SumFunctionOnSet(e, S) = e[x] + SumFunctionOnSet(e, S \ {x})
        BY <1>3, <1>5, <2>1, SumStep
    <2> QED
        BY <2>2, <2>3, <2>4
<1> QED
    BY <1>4, <1>5

\* A sum of integers is one, and any element may be taken out first.
LEMMA SumTakesOut ==
    ASSUME NEW f, NEW V, IsFiniteSet(V), \A x \in V : f[x] \in Int
    PROVE  /\ SumFunctionOnSet(f, V) \in Int
           /\ \A x \in V : SumFunctionOnSet(f, V) = f[x] + SumFunctionOnSet(f, V \ {x})
<1> DEFINE total(T) == SumFunctionOnSet(f, T)
           Good(T) == total(T) \in Int /\ \A x \in T : total(T) = f[x] + total(T \ {x})
           Bad == {T \in SUBSET V : ~Good(T)}
<1>1. SUFFICES ASSUME Bad # {} PROVE FALSE
    <2>1. V \in SUBSET V
        OBVIOUS
    <2> QED
        BY <1>1, <2>1
<1>2. PICK S \in Bad : \A T \in Bad : T \subseteq S => T = S
    <2>1. PICK F : F = Bad
        OBVIOUS
    <2>2. F \subseteq SUBSET V /\ F # {}
        BY <1>1, <2>1
    <2>3. \E S \in F : \A T \in F : T \subseteq S => T = S
        BY <2>2, SmallestSet
    <2> HIDE DEF Bad
    <2> QED
        BY <2>1, <2>3
<1>3. IsFiniteSet(S)
    BY FS_Subset
<1>4. total(S) = IF S = {} THEN 0 ELSE f[Chosen(S)] + total(S \ {Chosen(S)})
    BY <1>3, SumStep
<1> HIDE DEF total
<1>5. CASE S = {}
    BY <1>4, <1>5
<1>6. CASE S # {}
    <2>1. PICK c : c = Chosen(S)
        OBVIOUS
    <2>2. c \in S /\ S \ {c} \in SUBSET V /\ S \ {c} # S
        BY <1>6, <2>1, ChosenIsMember
    <2>3. total(S) = f[c] + total(S \ {c})
        BY <1>4, <1>6, <2>1
    <2>4. Good(S \ {c})
        BY <1>2, <2>2
    <2>5. total(S) \in Int /\ total(S \ {c}) \in Int /\ f[c] \in Int
        BY <2>2, <2>3, <2>4
    <2>6. ASSUME NEW x \in S PROVE total(S) = f[x] + total(S \ {x})
        <3>1. CASE x = c
            BY <2>3, <3>1
        <3>2. CASE x # c
            <4>1. S \ {x} \in SUBSET V /\ S \ {x} # S /\ c \in S \ {x} /\ x \in S \ {c}
                BY <2>2, <3>2
            <4>2. Good(S \ {x})
                BY <1>2, <4>1
            <4>3. PICK R : R = (S \ {x}) \ {c} /\ R = (S \ {c}) \ {x}
                OBVIOUS
            <4>4. total(S \ {x}) = f[c] + total(R) /\ total(S \ {c}) = f[x] + total(R)
                BY <2>4, <4>1, <4>2, <4>3
            <4>5. R \in SUBSET V /\ R # S /\ R \subseteq S
                BY <2>2, <4>3
            <4>6. Good(R)
                BY <1>2, <4>5
            <4>7. total(R) \in Int /\ f[x] \in Int
                BY <4>6
            <4> QED
                BY <2>3, <2>5, <4>4, <4>7
        <3> QED
            BY <3>1, <3>2
    <2> QED
        BY <2>5, <2>6
<1> QED
    BY <1>5, <1>6

LEMMA NoSum ==
    ASSUME NEW f
    PROVE  SumFunctionOnSet(f, {}) = 0
<1>1. IsFiniteSet({})
    BY FS_EmptySet
<1> QED
    BY <1>1, SumStep

\* One summand changes, or comes in.
LEMMA SumOfChange ==
    ASSUME NEW f, NEW e, NEW V, IsFiniteSet(V), NEW x \in V,
           \A y \in V : f[y] \in Int /\ e[y] \in Int,
           \A y \in V \ {x} : e[y] = f[y]
    PROVE  SumFunctionOnSet(e, V) = SumFunctionOnSet(f, V) - f[x] + e[x]
<1>1. IsFiniteSet(V \ {x})
    BY FS_Subset
<1>2. PICK r : r = SumFunctionOnSet(f, V \ {x}) /\ r = SumFunctionOnSet(e, V \ {x})
    BY <1>1, SumOfEquals
<1>3. r \in Int
    BY <1>1, <1>2, SumTakesOut
<1>4. SumFunctionOnSet(f, V) = f[x] + r /\ SumFunctionOnSet(e, V) = e[x] + r
    <2>1. (\A y \in V : f[y] \in Int) /\ (\A y \in V : e[y] \in Int)
        OBVIOUS
    <2>2. SumFunctionOnSet(f, V) = f[x] + SumFunctionOnSet(f, V \ {x})
        BY <2>1, SumTakesOut
    <2>3. SumFunctionOnSet(e, V) = e[x] + SumFunctionOnSet(e, V \ {x})
        BY <2>1, SumTakesOut
    <2> QED
        BY <1>2, <2>2, <2>3
<1>5. PICK a \in Int, b \in Int : a = f[x] /\ b = e[x]
    OBVIOUS
<1> QED
    BY <1>3, <1>4, <1>5

LEMMA SumOfMore ==
    ASSUME NEW f, NEW V, IsFiniteSet(V), NEW x, x \notin V,
           \A y \in V \cup {x} : f[y] \in Int
    PROVE  SumFunctionOnSet(f, V \cup {x}) = f[x] + SumFunctionOnSet(f, V)
<1>1. IsFiniteSet(V \cup {x})
    BY FS_AddElement
<1>2. (V \cup {x}) \ {x} = V
    OBVIOUS
<1>3. SumFunctionOnSet(f, V \cup {x}) = f[x] + SumFunctionOnSet(f, (V \cup {x}) \ {x})
    BY <1>1, SumTakesOut
<1> QED
    BY <1>2, <1>3

LEMMA SumOfNaturals ==
    ASSUME NEW f, NEW V, IsFiniteSet(V), \A x \in V : f[x] \in Nat
    PROVE  SumFunctionOnSet(f, V) \in Nat
<1> DEFINE Bad == {T \in SUBSET V : SumFunctionOnSet(f, T) \notin Nat}
<1>1. SUFFICES ASSUME Bad # {} PROVE FALSE
    <2>1. V \in SUBSET V
        OBVIOUS
    <2> QED
        BY <1>1, <2>1
<1>2. PICK S \in Bad : \A T \in Bad : T \subseteq S => T = S
    <2>1. PICK F : F = Bad
        OBVIOUS
    <2>2. F \subseteq SUBSET V /\ F # {}
        BY <1>1, <2>1
    <2>3. \E S \in F : \A T \in F : T \subseteq S => T = S
        BY <2>2, SmallestSet
    <2> HIDE DEF Bad
    <2> QED
        BY <2>1, <2>3
<1>3. IsFiniteSet(S)
    BY FS_Subset
<1>4. CASE S = {}
    BY <1>4, NoSum
<1>5. CASE S # {}
    <2>1. PICK x \in S : TRUE
        BY <1>5
    <2>2. S \ {x} \in SUBSET V /\ S \ {x} # S
        BY <2>1
    <2>3. SumFunctionOnSet(f, S \ {x}) \in Nat
        BY <1>2, <2>2
    <2>4. \A y \in S : f[y] \in Int
        OBVIOUS
    <2>5. SumFunctionOnSet(f, S) = f[x] + SumFunctionOnSet(f, S \ {x})
        BY <1>3, <2>4, SumTakesOut
    <2>6. PICK a \in Nat, b \in Nat : a = f[x] /\ b = SumFunctionOnSet(f, S \ {x})
        BY <2>3
    <2> QED
        BY <2>5, <2>6
<1> QED
    BY <1>4, <1>5

\* Zeros add nothing.
LEMMA SumWithZeros ==
    ASSUME NEW f, NEW V, IsFiniteSet(V), NEW Z, IsFiniteSet(Z),
           \A x \in V : f[x] \in Int, \A x \in Z : f[x] = 0
    PROVE  SumFunctionOnSet(f, V \cup Z) = SumFunctionOnSet(f, V)
<1> DEFINE Bad == {T \in SUBSET Z : SumFunctionOnSet(f, V \cup T) # SumFunctionOnSet(f, V)}
<1>1. SUFFICES ASSUME Bad # {} PROVE FALSE
    <2>1. Z \in SUBSET Z
        OBVIOUS
    <2> QED
        BY <1>1, <2>1
<1>2. PICK S \in Bad : \A T \in Bad : T \subseteq S => T = S
    <2>1. PICK F : F = Bad
        OBVIOUS
    <2>2. F \subseteq SUBSET Z /\ F # {}
        BY <1>1, <2>1
    <2>3. \E S \in F : \A T \in F : T \subseteq S => T = S
        BY <2>2, SmallestSet
    <2> HIDE DEF Bad
    <2> QED
        BY <2>1, <2>3
<1>3. PICK x \in S : x \notin V
    <2>1. CASE S \subseteq V
        <3>1. V \cup S = V
            BY <2>1
        <3> QED
            BY <3>1
    <2> QED
        BY <2>1
<1>4. PICK W : W = V \cup (S \ {x})
    OBVIOUS
<1>5. IsFiniteSet(W)
    <2>1. IsFiniteSet(S \ {x})
        BY FS_Subset
    <2> QED
        BY <1>4, <2>1, FS_Union
<1>6. SumFunctionOnSet(f, W) = SumFunctionOnSet(f, V)
    <2>1. S \ {x} \in SUBSET Z /\ S \ {x} # S
        BY <1>3
    <2> QED
        BY <1>2, <1>4, <2>1
<1>7. x \notin W /\ V \cup S = W \cup {x} /\ f[x] = 0 /\ \A y \in W \cup {x} : f[y] \in Int
    BY <1>3, <1>4
<1>8. SumFunctionOnSet(f, V \cup S) = f[x] + SumFunctionOnSet(f, W)
    BY <1>5, <1>7, SumOfMore
<1>9. SumFunctionOnSet(f, V) \in Int
    BY SumTakesOut
<1> QED
    BY <1>6, <1>7, <1>8, <1>9

(***************************************************************************)
(* Money.                                                                  *)
(***************************************************************************)
LEMMA AccountsAreFinite == IsFiniteSet(Accounts)
<1>1. IsFiniteSet({Architect, Escrow, Registry})
    <2>1. IsFiniteSet({Architect})
        BY FS_Singleton
    <2>2. IsFiniteSet({Architect} \cup {Escrow})
        BY <2>1, FS_AddElement
    <2>3. IsFiniteSet(({Architect} \cup {Escrow}) \cup {Registry})
        BY <2>2, FS_AddElement
    <2>4. ({Architect} \cup {Escrow}) \cup {Registry} = {Architect, Escrow, Registry}
        OBVIOUS
    <2> QED
        BY <2>3, <2>4
<1> QED
    BY <1>1, AccountsAssumption, FS_Union DEF Accounts

LEMMA AccountsAreApart ==
    /\ Escrow \notin Users /\ Registry \notin Users /\ Escrow # Architect /\ Registry # Architect
    /\ Escrow # Registry /\ Escrow # SearchPrecompile
    /\ Users \subseteq Accounts /\ Miners \subseteq Users
    /\ Architect \in Accounts /\ Escrow \in Accounts /\ Registry \in Accounts
<1>1. ASSUME Escrow = Registry \/ Escrow = SearchPrecompile PROVE FALSE
    <2>1. {Escrow, Registry, SearchPrecompile} \subseteq {Registry, SearchPrecompile}
        BY <1>1
    <2>2. IsFiniteSet({Registry} \cup {SearchPrecompile})
          /\ Cardinality({Registry} \cup {SearchPrecompile}) <= 2
        <3>1. IsFiniteSet({Registry}) /\ Cardinality({Registry}) = 1
            BY FS_Singleton
        <3>2. Cardinality({Registry} \cup {SearchPrecompile}) \in {1, 2}
            BY <3>1, FS_AddElement
        <3> QED
            BY <3>1, <3>2, FS_AddElement
    <2>3. {Registry} \cup {SearchPrecompile} = {Registry, SearchPrecompile}
        OBVIOUS
    <2>4. Cardinality({Escrow, Registry, SearchPrecompile}) <= Cardinality({Registry, SearchPrecompile})
        BY <2>1, <2>2, <2>3, FS_Subset
    <2>5. Cardinality({Registry, SearchPrecompile}) \in Nat
        BY <2>2, <2>3, FS_CardinalityType
    <2> QED
        BY <2>2, <2>3, <2>4, <2>5, AccountsAssumption
<1> QED
    BY <1>1, AccountsAssumption DEF Accounts

LEMMA FeeIsPart ==
    ASSUME NEW v \in Nat
    PROVE  ArchitectFee(v) \in Nat /\ ArchitectFee(v) <= v
BY DEF ArchitectFee, ArchitectFeeNumerator, ArchitectFeeDenominator

LEMMA OneBalanceChanges ==
    ASSUME NEW b \in [Accounts -> Nat], NEW c \in [Accounts -> Nat], NEW a \in Accounts,
           \A y \in Accounts \ {a} : c[y] = b[y]
    PROVE  SumFunction(b) \in Int /\ SumFunction(c) = SumFunction(b) - b[a] + c[a]
<1>1. DOMAIN b = Accounts /\ DOMAIN c = Accounts
    OBVIOUS
<1>2. \A y \in Accounts : b[y] \in Int /\ c[y] \in Int
    OBVIOUS
<1>3. SumFunctionOnSet(c, Accounts) = SumFunctionOnSet(b, Accounts) - b[a] + c[a]
    BY <1>2, AccountsAreFinite, SumOfChange
<1>4. SumFunctionOnSet(b, Accounts) \in Int
    BY <1>2, AccountsAreFinite, SumTakesOut
<1> QED
    BY <1>1, <1>3, <1>4 DEF SumFunction

\* A debit that is covered, or a credit.
Adds(b, a, d) == [b EXCEPT ![a] = b[a] + d]
Takes(b, a, d) == [b EXCEPT ![a] = b[a] - d]

LEMMA CreditChangesSum ==
    ASSUME NEW b \in [Accounts -> Nat], NEW a \in Accounts, NEW d \in Int, b[a] + d >= 0,
           NEW c, c = Adds(b, a, d)
    PROVE  /\ c \in [Accounts -> Nat]
           /\ \A x \in Accounts : c[x] = IF x = a THEN b[a] + d ELSE b[x]
           /\ SumFunction(c) = SumFunction(b) + d
           /\ SumFunction(b) \in Int
<1>1. b[a] + d \in Nat /\ b[a] \in Nat
    OBVIOUS
<1>2. c \in [Accounts -> Nat]
    BY <1>1 DEF Adds
<1>3. \A x \in Accounts : c[x] = IF x = a THEN b[a] + d ELSE b[x]
    BY DEF Adds
<1>4. \A y \in Accounts \ {a} : c[y] = b[y]
    BY <1>3
<1>5. SumFunction(b) \in Int /\ SumFunction(c) = SumFunction(b) - b[a] + c[a]
    BY <1>2, <1>4, OneBalanceChanges
<1>6. c[a] = b[a] + d
    BY <1>3
<1>7. PICK m \in Int, n \in Nat : m = SumFunction(b) /\ n = b[a]
    BY <1>1, <1>5
<1>8. SumFunction(c) = SumFunction(b) + d
    <2>1. SumFunction(c) = m - n + (n + d)
        BY <1>5, <1>6, <1>7
    <2> QED
        BY <1>7, <2>1
<1> QED
    BY <1>2, <1>3, <1>5, <1>8

---------------------------------------------------------------------------
(***************************************************************************)
(* What an assignment to a field of a snapshot leaves alone.               *)
(***************************************************************************)
LEMMA CreditFields ==
    ASSUME NEW s, HasFields(s), NEW a, NEW d, NEW c, c = creditBalance(s, a, d)
    PROVE  /\ HasFields(c)
           /\ c.balances = Adds(s.balances, a, d)
           /\ c.nonces = s.nonces /\ c.tasks = s.tasks /\ c.index = s.index
           /\ c.mentions = s.mentions /\ c.names = s.names /\ c.contracts = s.contracts
           /\ c.burned = s.burned
BY DEF HasFields, creditBalance, Adds

LEMMA ChargeFields ==
    ASSUME NEW s, HasFields(s), NEW t, NEW c, c = Charged(s, t),
           NEW b, b = Takes(s.balances, t.from, t.value)
    PROVE  /\ HasFields(c)
           /\ c.balances = Adds(b, Architect, ArchitectFee(t.value))
           /\ c.nonces = [s.nonces EXCEPT ![t.from] = t.nonce + 1]
           /\ c.tasks = s.tasks /\ c.index = s.index
           /\ c.mentions = s.mentions /\ c.names = s.names /\ c.contracts = s.contracts
           /\ c.burned = s.burned
<1>1. DOMAIN c = {"balances", "nonces", "tasks", "index", "mentions", "names", "contracts", "burned"}
    BY DEF HasFields, Charged
<1>2. /\ c.tasks = s.tasks /\ c.index = s.index
      /\ c.mentions = s.mentions /\ c.names = s.names /\ c.contracts = s.contracts
      /\ c.burned = s.burned
    BY DEF HasFields, Charged
<1>3. c.nonces = [s.nonces EXCEPT ![t.from] = t.nonce + 1]
    BY DEF HasFields, Charged
<1>4. c.balances = Adds(b, Architect, ArchitectFee(t.value))
    BY DEF HasFields, Charged, Adds, Takes
<1>5. HasFields(c)
    BY <1>1 DEF HasFields, Charged
<1> QED
    BY <1>2, <1>3, <1>4, <1>5

\* The charge takes the net value out of circulation for the moment, and
\* the nonce is used up.
LEMMA ChargeEffect ==
    ASSUME NEW s, StateTypeOK(s), NEW t \in Txs, Chargeable(s, t), NEW c, c = Charged(s, t)
    PROVE  /\ HasFields(c)
           /\ NetValue(t) \in Nat /\ SumFunction(s.balances) \in Int
           /\ c.balances \in [Accounts -> Nat]
           /\ SumFunction(c.balances) = SumFunction(s.balances) - NetValue(t)
           /\ c.balances[Escrow] = s.balances[Escrow]
           /\ c.nonces \in [Users -> Nat]
           /\ \A u \in Users : c.nonces[u] >= s.nonces[u]
           /\ c.nonces[t.from] > t.nonce /\ t.nonce = s.nonces[t.from]
           /\ c.tasks = s.tasks /\ c.index = s.index
           /\ c.mentions = s.mentions /\ c.names = s.names /\ c.contracts = s.contracts
           /\ c.burned = s.burned
<1>1. HasFields(s) /\ s.balances \in [Accounts -> Nat] /\ s.nonces \in [Users -> Nat]
    BY DEF StateTypeOK
<1>2. t.from \in Users /\ t.value \in Nat /\ t.nonce \in Nat
    BY TxsAssumption
<1>3. t.from \in Accounts /\ t.from # Escrow /\ Architect \in Accounts /\ Architect # Escrow
      /\ Escrow \in Accounts
    BY <1>2, AccountsAreApart
<1>4. PICK v, f : v = t.value /\ f = ArchitectFee(t.value)
    OBVIOUS
<1>5. v \in Nat /\ f \in Nat /\ f <= v /\ NetValue(t) = v - f
    BY <1>2, <1>4, FeeIsPart DEF NetValue
<1>6. PICK b : b = Takes(s.balances, t.from, t.value)
    OBVIOUS
<1>7. /\ HasFields(c)
      /\ c.balances = Adds(b, Architect, f)
      /\ c.nonces = [s.nonces EXCEPT ![t.from] = t.nonce + 1]
      /\ c.tasks = s.tasks /\ c.index = s.index
      /\ c.mentions = s.mentions /\ c.names = s.names /\ c.contracts = s.contracts
      /\ c.burned = s.burned
    BY <1>1, <1>4, <1>6, ChargeFields
<1>8. t.nonce = s.nonces[t.from] /\ s.balances[t.from] >= v
    BY <1>4 DEF Chargeable
<1>9. /\ b \in [Accounts -> Nat] /\ SumFunction(s.balances) \in Int
      /\ SumFunction(b) = SumFunction(s.balances) + (0 - v)
      /\ \A x \in Accounts : b[x] = IF x = t.from THEN s.balances[t.from] + (0 - v) ELSE s.balances[x]
    <2>1. PICK n \in Nat : n = s.balances[t.from]
        BY <1>1, <1>3
    <2>2. n - v = n + (0 - v) /\ n + (0 - v) >= 0 /\ 0 - v \in Int
        BY <1>5, <1>8, <2>1
    <2>3. b = Adds(s.balances, t.from, 0 - v)
        BY <1>4, <1>6, <2>1, <2>2 DEF Adds, Takes
    <2> QED
        BY <1>1, <1>3, <2>1, <2>2, <2>3, CreditChangesSum
<1>10. /\ c.balances \in [Accounts -> Nat]
       /\ SumFunction(c.balances) = SumFunction(b) + f
       /\ \A x \in Accounts : c.balances[x] = IF x = Architect THEN b[Architect] + f ELSE b[x]
    <2>1. b[Architect] \in Nat
        BY <1>3, <1>9
    <2>2. f \in Int /\ b[Architect] + f >= 0
        BY <1>5, <2>1
    <2>3. PICK d : d = c.balances
        OBVIOUS
    <2>4. d = Adds(b, Architect, f)
        BY <1>7, <2>3
    <2> QED
        BY <1>3, <1>9, <2>2, <2>3, <2>4, CreditChangesSum
<1>11. SumFunction(c.balances) = SumFunction(s.balances) - NetValue(t)
    <2>1. PICK m \in Int : m = SumFunction(s.balances)
        BY <1>9
    <2>2. SumFunction(c.balances) = (m + (0 - v)) + f
        BY <1>9, <1>10, <2>1
    <2> QED
        BY <1>5, <2>1, <2>2
<1>12. c.balances[Escrow] = s.balances[Escrow]
    BY <1>3, <1>9, <1>10
<1>13. /\ c.nonces \in [Users -> Nat]
       /\ \A u \in Users : c.nonces[u] >= s.nonces[u]
       /\ c.nonces[t.from] > t.nonce
    BY <1>1, <1>2, <1>7, <1>8
<1>14. NetValue(t) \in Nat
    BY <1>5
<1> QED
    BY <1>7, <1>8, <1>9, <1>10, <1>11, <1>12, <1>13, <1>14

\* A payment of the net value to an account.
LEMMA PaymentEffect ==
    ASSUME NEW s, StateTypeOK(s), NEW t \in Txs, Chargeable(s, t), NEW a \in Accounts,
           NEW n, n = creditBalance(Charged(s, t), a, NetValue(t))
    PROVE  /\ HasFields(n)
           /\ NetValue(t) \in Nat
           /\ n.balances \in [Accounts -> Nat]
           /\ SumFunction(n.balances) = SumFunction(s.balances)
           /\ n.balances[Escrow] = s.balances[Escrow] + (IF a = Escrow THEN NetValue(t) ELSE 0)
           /\ n.nonces \in [Users -> Nat]
           /\ \A u \in Users : n.nonces[u] >= s.nonces[u]
           /\ n.nonces[t.from] > t.nonce /\ t.nonce = s.nonces[t.from]
           /\ n.tasks = s.tasks /\ n.index = s.index
           /\ n.mentions = s.mentions /\ n.names = s.names /\ n.contracts = s.contracts
           /\ n.burned = s.burned
<1>1. PICK c : c = Charged(s, t)
    OBVIOUS
<1>2. /\ HasFields(c)
      /\ NetValue(t) \in Nat /\ SumFunction(s.balances) \in Int
      /\ c.balances \in [Accounts -> Nat]
      /\ SumFunction(c.balances) = SumFunction(s.balances) - NetValue(t)
      /\ c.balances[Escrow] = s.balances[Escrow]
      /\ c.nonces \in [Users -> Nat]
      /\ \A u \in Users : c.nonces[u] >= s.nonces[u]
      /\ c.nonces[t.from] > t.nonce /\ t.nonce = s.nonces[t.from]
      /\ c.tasks = s.tasks /\ c.index = s.index
      /\ c.mentions = s.mentions /\ c.names = s.names /\ c.contracts = s.contracts
      /\ c.burned = s.burned
    BY <1>1, ChargeEffect
<1>3. PICK v \in Nat : v = NetValue(t)
    BY <1>2
<1>4. /\ HasFields(n)
      /\ n.balances = Adds(c.balances, a, v)
      /\ n.nonces = c.nonces /\ n.tasks = c.tasks /\ n.index = c.index
      /\ n.mentions = c.mentions /\ n.names = c.names /\ n.contracts = c.contracts
      /\ n.burned = c.burned
    BY <1>1, <1>2, <1>3, CreditFields
<1>5. PICK b, d : b = c.balances /\ d = n.balances
    OBVIOUS
<1>6. b \in [Accounts -> Nat] /\ d = Adds(b, a, v) /\ v \in Int /\ b[a] + v >= 0
    BY <1>2, <1>4, <1>5
<1>7. /\ d \in [Accounts -> Nat] /\ SumFunction(d) = SumFunction(b) + v
      /\ \A x \in Accounts : d[x] = IF x = a THEN b[a] + v ELSE b[x]
    BY <1>6, CreditChangesSum
<1>8. SumFunction(d) = SumFunction(s.balances)
    <2>1. PICK m \in Int : m = SumFunction(s.balances)
        BY <1>2
    <2>2. SumFunction(d) = (m - v) + v
        BY <1>2, <1>3, <1>5, <1>7, <2>1
    <2> QED
        BY <2>1, <2>2
<1>9. d[Escrow] = b[Escrow] + (IF a = Escrow THEN v ELSE 0)
    <2>1. Escrow \in Accounts
        BY AccountsAreApart
    <2>2. b[Escrow] \in Nat
        BY <1>6, <2>1
    <2> QED
        BY <1>7, <2>1, <2>2
<1> QED
    BY <1>2, <1>3, <1>4, <1>5, <1>7, <1>8, <1>9

---------------------------------------------------------------------------
(***************************************************************************)
(* The invariant of one snapshot.                                          *)
(***************************************************************************)
Rewards(s) == [id \in Active(s) |-> s.tasks[id].reward]
Counts(s, w) == [u \in DOMAIN s.index |-> s.index[u].counts[w]]
Autonomous(s) == {id \in DOMAIN s.tasks : s.tasks[id].autonomous}
ChildrenOf(s, id) == {c \in DOMAIN s.tasks : Len(c) = Len(id) + 1 /\ SubSeq(c, 1, Len(id)) = id}

Balanced(s) == SumFunction(s.balances) + s.burned = SumFunction(Endowment)
Covered(s) == s.balances[Escrow] >= SumFunction(Rewards(s))
Counted(s) == \A w \in Terms : s.mentions[w] = SumFunction(Counts(s, w))
EachUrlOnce(s) == \A i, j \in Autonomous(s) : s.tasks[i].url = s.tasks[j].url => i = j
FewOpen(s) == Cardinality(ActiveAutonomous(s)) <= PendingTaskLimit
FewChildren(s) == \A id \in DOMAIN s.tasks : Cardinality(ChildrenOf(s, id)) <= LinksPerProof

Sound(s) ==
    /\ StateTypeOK(s) /\ TasksHaveOrigin(s)
    /\ Balanced(s) /\ Covered(s) /\ Counted(s)
    /\ EachUrlOnce(s) /\ FewOpen(s) /\ FewChildren(s)

LEMMA TaskFacts ==
    ASSUME NEW s, StateTypeOK(s), NEW id \in DOMAIN s.tasks
    PROVE  /\ s.tasks[id] \in TaskRecords
           /\ s.tasks[id].reward \in Nat /\ s.tasks[id].depth \in Nat
           /\ s.tasks[id].url \in Urls /\ s.tasks[id].submitter \in Users
           /\ id \in Ids
<1>1. s.tasks \in [DOMAIN s.tasks -> TaskRecords] /\ DOMAIN s.tasks \subseteq Ids
    BY DEF StateTypeOK, IsMap
<1>2. s.tasks[id] \in TaskRecords
    BY <1>1
<1> QED
    BY <1>1, <1>2 DEF TaskRecords

LEMMA RewardsAddUp ==
    ASSUME NEW s, StateTypeOK(s)
    PROVE  /\ IsFiniteSet(Active(s))
           /\ \A id \in Active(s) : Rewards(s)[id] = s.tasks[id].reward /\ Rewards(s)[id] \in Nat
           /\ SumFunction(Rewards(s)) = SumFunctionOnSet(Rewards(s), Active(s))
           /\ SumFunction(Rewards(s)) \in Int
<1>1. Active(s) \subseteq DOMAIN s.tasks
    BY DEF Active
<1>2. IsFiniteSet(Active(s))
    BY <1>1, FS_Subset DEF StateTypeOK, IsMap
<1>3. \A id \in Active(s) : Rewards(s)[id] = s.tasks[id].reward
    BY DEF Rewards
<1>4. \A id \in Active(s) : Rewards(s)[id] \in Nat
    BY <1>1, <1>3, TaskFacts
<1>5. SumFunction(Rewards(s)) = SumFunctionOnSet(Rewards(s), Active(s))
    BY DEF SumFunction, Rewards
<1>6. SumFunctionOnSet(Rewards(s), Active(s)) \in Int
    <2>1. \A id \in Active(s) : Rewards(s)[id] \in Int
        BY <1>4
    <2> QED
        BY <1>2, <2>1, SumTakesOut
<1> QED
    BY <1>2, <1>3, <1>4, <1>5, <1>6

\* A transaction that leaves tasks and index alone.
LEMMA TasksLeftAlone ==
    ASSUME NEW s, Sound(s), NEW n, HasFields(n),
           n.tasks = s.tasks, n.index = s.index, n.mentions = s.mentions,
           n.balances \in [Accounts -> Nat], n.burned \in Nat,
           SumFunction(n.balances) + n.burned = SumFunction(s.balances) + s.burned,
           n.balances[Escrow] >= s.balances[Escrow],
           n.nonces \in [Users -> Nat], \A u \in Users : n.nonces[u] >= s.nonces[u],
           IsMap(n.names, Terms, Users),
           \A x \in DOMAIN s.names : x \in DOMAIN n.names /\ n.names[x] = s.names[x]
    PROVE  Sound(n) /\ Keeps(s, n)
<1>1. StateTypeOK(n)
    BY DEF Sound, StateTypeOK
<1>2. TasksHaveOrigin(n)
    <2>1. SUFFICES ASSUME NEW id \in DOMAIN s.tasks
                   PROVE  /\ IF s.tasks[id].autonomous THEN IsSpawned(n, id) ELSE IsAsked(n, id)
                          /\ s.tasks[id].completed => s.tasks[id].url \in DOMAIN s.index
        BY DEF TasksHaveOrigin
    <2>2. /\ IF s.tasks[id].autonomous THEN IsSpawned(s, id) ELSE IsAsked(s, id)
          /\ s.tasks[id].completed => s.tasks[id].url \in DOMAIN s.index
        BY DEF Sound, TasksHaveOrigin
    <2>3. IsSpawned(s, id) => IsSpawned(n, id)
        BY DEF IsSpawned
    <2>4. IsAsked(s, id) => IsAsked(n, id)
        <3>1. ASSUME NEW t \in Txs, t.nonce < s.nonces[t.from] PROVE t.nonce < n.nonces[t.from]
            <4>1. t.from \in Users /\ t.nonce \in Nat
                BY TxsAssumption
            <4>2. s.nonces[t.from] \in Nat /\ n.nonces[t.from] \in Nat
                BY <4>1 DEF Sound, StateTypeOK
            <4>3. n.nonces[t.from] >= s.nonces[t.from]
                BY <4>1
            <4> QED
                BY <3>1, <4>1, <4>2, <4>3
        <3> QED
            BY <3>1 DEF IsAsked
    <2> QED
        BY <2>2, <2>3, <2>4
<1>3. Balanced(n)
    BY DEF Sound, Balanced
<1>4. Covered(n)
    <2>1. Rewards(n) = Rewards(s)
        BY DEF Rewards, Active
    <2>2. PICK r : r = SumFunction(Rewards(s))
        OBVIOUS
    <2>3. s.balances[Escrow] >= r
        BY <2>2 DEF Sound, Covered
    <2>4. r \in Int /\ s.balances[Escrow] \in Int /\ n.balances[Escrow] \in Int
        <3>1. Escrow \in Accounts /\ s.balances \in [Accounts -> Nat]
            BY AccountsAreApart DEF Sound, StateTypeOK
        <3>2. r \in Int
            BY <2>2, RewardsAddUp DEF Sound
        <3> QED
            BY <3>1, <3>2
    <2>5. n.balances[Escrow] >= r
        BY <2>3, <2>4
    <2> QED
        BY <2>1, <2>2, <2>5 DEF Covered
<1>5. Counted(n)
    <2>1. \A w : Counts(n, w) = Counts(s, w)
        BY DEF Counts
    <2> QED
        BY <2>1 DEF Sound, Counted
<1>6. EachUrlOnce(n) /\ FewOpen(n) /\ FewChildren(n)
    <2>1. /\ Autonomous(n) = Autonomous(s) /\ ActiveAutonomous(n) = ActiveAutonomous(s)
          /\ \A id : ChildrenOf(n, id) = ChildrenOf(s, id)
        BY DEF Autonomous, Active, ActiveAutonomous, ChildrenOf
    <2> QED
        BY <2>1 DEF Sound, EachUrlOnce, FewOpen, FewChildren
<1>7. Keeps(s, n)
    BY DEF Keeps
<1> QED
    BY <1>1, <1>2, <1>3, <1>4, <1>5, <1>6, <1>7 DEF Sound

\* A map with one more entry, or another one.
LEMMA PutMakesMap ==
    ASSUME NEW f, NEW D, NEW R, IsMap(f, D, R), NEW k \in D, NEW v \in R,
           NEW g, g = Put(f, k, v)
    PROVE  IsMap(g, D, R)
<1>1. DOMAIN g = DOMAIN f \cup {k} /\ g[k] = v /\ \A x \in DOMAIN f : x # k => g[x] = f[x]
    BY DEF Put
<1>2. IsFiniteSet(DOMAIN f \cup {k})
    BY FS_AddElement DEF IsMap
<1>3. g \in [DOMAIN g -> R]
    BY <1>1 DEF Put, IsMap
<1> QED
    BY <1>1, <1>2, <1>3 DEF IsMap

---------------------------------------------------------------------------
(***************************************************************************)
(* Transactions.                                                           *)
(***************************************************************************)
LEMMA TransferIsSound ==
    ASSUME NEW s, Sound(s), NEW t \in Txs, Chargeable(s, t), IsPayment(s, t),
           NEW n, n = creditBalance(Charged(s, t), t.to, NetValue(t))
    PROVE  Sound(n) /\ Keeps(s, n)
<1>1. StateTypeOK(s) /\ t.to \in Accounts
    BY DEF Sound, IsPayment
<1>2. /\ HasFields(n)
      /\ NetValue(t) \in Nat
      /\ n.balances \in [Accounts -> Nat]
      /\ SumFunction(n.balances) = SumFunction(s.balances)
      /\ n.balances[Escrow] = s.balances[Escrow] + (IF t.to = Escrow THEN NetValue(t) ELSE 0)
      /\ n.nonces \in [Users -> Nat]
      /\ \A u \in Users : n.nonces[u] >= s.nonces[u]
      /\ n.tasks = s.tasks /\ n.index = s.index
      /\ n.mentions = s.mentions /\ n.names = s.names /\ n.burned = s.burned
    BY <1>1, PaymentEffect
<1>3. s.burned \in Nat /\ IsMap(s.names, Terms, Users) /\ s.balances[Escrow] \in Nat
    BY <1>1, AccountsAreApart DEF StateTypeOK
<1>4. n.balances[Escrow] >= s.balances[Escrow]
    BY <1>2, <1>3
<1>5. \A x \in DOMAIN s.names : x \in DOMAIN n.names /\ n.names[x] = s.names[x]
    BY <1>2
<1> QED
    BY <1>2, <1>3, <1>4, <1>5, TasksLeftAlone

LEMMA RegistrationIsSound ==
    ASSUME NEW s, Sound(s), NEW t \in Txs, Chargeable(s, t), IsRegistration(s, t),
           NEW n, n = [creditBalance(Charged(s, t), Registry, NetValue(t)) EXCEPT
                            !.names = Put(@, t.data, t.from)]
    PROVE  Sound(n) /\ Keeps(s, n)
<1>1. /\ StateTypeOK(s) /\ t.data \in Terms /\ t.data \notin DOMAIN s.names
      /\ Registry \in Accounts /\ Registry # Escrow /\ t.from \in Users
    BY AccountsAreApart, TxsAssumption DEF Sound, IsRegistration
<1>2. PICK p : p = creditBalance(Charged(s, t), Registry, NetValue(t))
    OBVIOUS
<1>3. /\ HasFields(p)
      /\ p.balances \in [Accounts -> Nat]
      /\ SumFunction(p.balances) = SumFunction(s.balances)
      /\ p.balances[Escrow] = s.balances[Escrow] + (IF Registry = Escrow THEN NetValue(t) ELSE 0)
      /\ p.nonces \in [Users -> Nat]
      /\ \A u \in Users : p.nonces[u] >= s.nonces[u]
      /\ p.tasks = s.tasks /\ p.index = s.index
      /\ p.mentions = s.mentions /\ p.names = s.names /\ p.burned = s.burned
    BY <1>1, <1>2, PaymentEffect
<1>4. PICK names : names = Put(s.names, t.data, t.from)
    OBVIOUS
<1>5. n = [p EXCEPT !.names = names]
    BY <1>2, <1>3, <1>4
<1>6. /\ HasFields(n)
      /\ n.balances = p.balances /\ n.nonces = p.nonces /\ n.tasks = p.tasks /\ n.index = p.index
      /\ n.mentions = p.mentions /\ n.names = names /\ n.burned = p.burned
    BY <1>3, <1>5 DEF HasFields
<1>7. s.burned \in Nat /\ IsMap(s.names, Terms, Users) /\ s.balances[Escrow] \in Nat
    BY <1>1, AccountsAreApart DEF StateTypeOK
<1>8. n.balances[Escrow] >= s.balances[Escrow]
    BY <1>1, <1>3, <1>6, <1>7
<1>9. /\ IsMap(names, Terms, Users)
      /\ \A x \in DOMAIN s.names : x \in DOMAIN names /\ names[x] = s.names[x]
    <2>1. IsMap(names, Terms, Users)
        BY <1>1, <1>4, <1>7, PutMakesMap
    <2>2. /\ DOMAIN names = DOMAIN s.names \cup {t.data}
          /\ \A x \in DOMAIN s.names : x # t.data => names[x] = s.names[x]
        BY <1>4 DEF Put
    <2> QED
        BY <1>1, <2>1, <2>2
<1> QED
    BY <1>3, <1>6, <1>7, <1>8, <1>9, TasksLeftAlone

LEMMA NoteIsSound ==
    ASSUME NEW s, Sound(s), NEW t \in Txs, Chargeable(s, t), IsNote(s, t),
           NEW n, n = [Charged(s, t) EXCEPT !.contracts[t.to].note = t.data]
    PROVE  Sound(n) /\ Keeps(s, n)
<1>1. StateTypeOK(s) /\ t.value = 0
    BY DEF Sound, IsNote
<1>2. PICK c : c = Charged(s, t)
    OBVIOUS
<1>3. /\ HasFields(c)
      /\ NetValue(t) \in Nat /\ SumFunction(s.balances) \in Int
      /\ c.balances \in [Accounts -> Nat]
      /\ SumFunction(c.balances) = SumFunction(s.balances) - NetValue(t)
      /\ c.balances[Escrow] = s.balances[Escrow]
      /\ c.nonces \in [Users -> Nat]
      /\ \A u \in Users : c.nonces[u] >= s.nonces[u]
      /\ c.tasks = s.tasks /\ c.index = s.index
      /\ c.mentions = s.mentions /\ c.names = s.names /\ c.burned = s.burned
    BY <1>1, <1>2, ChargeEffect
<1>4. NetValue(t) = 0
    <2>1. ArchitectFee(0) \in Nat /\ ArchitectFee(0) <= 0
        BY FeeIsPart
    <2> QED
        BY <1>1, <2>1 DEF NetValue
<1>5. n = [c EXCEPT !.contracts[t.to].note = t.data]
    BY <1>2
<1>6. /\ HasFields(n)
      /\ n.balances = c.balances /\ n.nonces = c.nonces /\ n.tasks = c.tasks /\ n.index = c.index
      /\ n.mentions = c.mentions /\ n.names = c.names /\ n.burned = c.burned
    BY <1>3, <1>5 DEF HasFields
<1>7. s.burned \in Nat /\ IsMap(s.names, Terms, Users) /\ s.balances[Escrow] \in Nat
    BY <1>1, AccountsAreApart DEF StateTypeOK
<1>8. SumFunction(n.balances) = SumFunction(s.balances)
    BY <1>3, <1>4, <1>6
<1>9. n.balances[Escrow] >= s.balances[Escrow]
    BY <1>3, <1>6, <1>7
<1>10. \A x \in DOMAIN s.names : x \in DOMAIN n.names /\ n.names[x] = s.names[x]
    BY <1>3, <1>6
<1> QED
    BY <1>3, <1>6, <1>7, <1>8, <1>9, <1>10, TasksLeftAlone

LEMMA DeploymentIsSound ==
    ASSUME NEW s, Sound(s), NEW t \in Txs, Chargeable(s, t), NEW contract,
           NEW n, n = [Charged(s, t) EXCEPT !.contracts = Put(@, t.hash, contract),
                                            !.burned = @ + NetValue(t)]
    PROVE  Sound(n) /\ Keeps(s, n)
<1>1. StateTypeOK(s)
    BY DEF Sound
<1>2. PICK c : c = Charged(s, t)
    OBVIOUS
<1>3. /\ HasFields(c)
      /\ NetValue(t) \in Nat /\ SumFunction(s.balances) \in Int
      /\ c.balances \in [Accounts -> Nat]
      /\ SumFunction(c.balances) = SumFunction(s.balances) - NetValue(t)
      /\ c.balances[Escrow] = s.balances[Escrow]
      /\ c.nonces \in [Users -> Nat]
      /\ \A u \in Users : c.nonces[u] >= s.nonces[u]
      /\ c.tasks = s.tasks /\ c.index = s.index
      /\ c.mentions = s.mentions /\ c.names = s.names /\ c.burned = s.burned
    BY <1>1, <1>2, ChargeEffect
<1>4. PICK cs, burned : cs = Put(c.contracts, t.hash, contract) /\ burned = c.burned + NetValue(t)
    OBVIOUS
<1>5. n = [c EXCEPT !.contracts = cs, !.burned = burned]
    BY <1>2, <1>3, <1>4 DEF HasFields
<1>6. /\ HasFields(n)
      /\ n.balances = c.balances /\ n.nonces = c.nonces /\ n.tasks = c.tasks /\ n.index = c.index
      /\ n.mentions = c.mentions /\ n.names = c.names /\ n.burned = burned
    BY <1>3, <1>5 DEF HasFields
<1>7. s.burned \in Nat /\ IsMap(s.names, Terms, Users) /\ s.balances[Escrow] \in Nat
    BY <1>1, AccountsAreApart DEF StateTypeOK
<1>8. burned \in Nat /\ SumFunction(n.balances) + burned = SumFunction(s.balances) + s.burned
    <2>1. PICK m \in Int, v \in Nat, k \in Nat :
                m = SumFunction(s.balances) /\ v = NetValue(t) /\ k = s.burned
        BY <1>3, <1>7
    <2>2. burned = k + v /\ SumFunction(n.balances) = m - v
        BY <1>3, <1>4, <1>6, <2>1
    <2> QED
        BY <2>1, <2>2
<1>9. n.balances[Escrow] >= s.balances[Escrow]
    BY <1>3, <1>6, <1>7
<1>10. \A x \in DOMAIN s.names : x \in DOMAIN n.names /\ n.names[x] = s.names[x]
    BY <1>3, <1>6
<1> QED
    BY <1>3, <1>6, <1>7, <1>8, <1>9, <1>10, TasksLeftAlone

\* The identifiers of tasks users ask for and of tasks that were spawned.
LEMMA OriginFacts ==
    ASSUME NEW s, StateTypeOK(s), TasksHaveOrigin(s), NEW id \in DOMAIN s.tasks
    PROVE  /\ Len(id) \in Nat /\ Len(id) >= 1
           /\ s.tasks[id].autonomous \in BOOLEAN /\ s.tasks[id].completed \in BOOLEAN
           /\ s.tasks[id].autonomous => IsSpawned(s, id)
           /\ ~s.tasks[id].autonomous => IsAsked(s, id) /\ Len(id) = 1
<1>1. id \in Ids /\ s.tasks[id] \in TaskRecords
    BY TaskFacts
<1>2. Len(id) \in Nat
    BY <1>1 DEF Ids
<1>3. IF s.tasks[id].autonomous THEN IsSpawned(s, id) ELSE IsAsked(s, id)
    BY DEF TasksHaveOrigin
<1>4. IsSpawned(s, id) => Len(id) > 1
    BY DEF IsSpawned
<1>5. IsAsked(s, id) => Len(id) = 1
    BY DEF IsAsked
<1>6. s.tasks[id].autonomous \in BOOLEAN /\ s.tasks[id].completed \in BOOLEAN
    BY <1>1 DEF TaskRecords
<1>7. Len(id) >= 1
    BY <1>2, <1>3, <1>4, <1>5
<1> QED
    BY <1>2, <1>3, <1>5, <1>6, <1>7

\* A task that is open, or not there, has no children.
LEMMA NoChildren ==
    ASSUME NEW s, StateTypeOK(s), TasksHaveOrigin(s), NEW id \in Ids, Len(id) >= 1,
           id \in DOMAIN s.tasks => ~s.tasks[id].completed
    PROVE  ChildrenOf(s, id) = {}
<1>1. SUFFICES ASSUME NEW c \in DOMAIN s.tasks, Len(c) = Len(id) + 1, SubSeq(c, 1, Len(id)) = id
               PROVE  FALSE
    BY DEF ChildrenOf
<1>2. Len(id) \in Nat
    BY DEF Ids
<1>3. Len(c) # 1 /\ Len(c) - 1 = Len(id)
    BY <1>1, <1>2
<1>4. IsSpawned(s, c)
    BY <1>3, OriginFacts
<1>5. SubSeq(c, 1, Len(c) - 1) = id
    BY <1>1, <1>3
<1>6. id \in DOMAIN s.tasks /\ s.tasks[id].completed
    BY <1>4, <1>5 DEF IsSpawned
<1> QED
    BY <1>6

LEMMA SearchIsSound ==
    ASSUME NEW s, Sound(s), NEW t \in Txs, Chargeable(s, t),
           NEW n, n = [creditBalance(Charged(s, t), Escrow, NetValue(t)) EXCEPT
                    !.tasks = Put(@, <<t.hash>>, TaskRecord(t.from, t.data, NetValue(t), FALSE, 0))]
    PROVE  Sound(n) /\ Keeps(s, n)
<1>1. /\ StateTypeOK(s) /\ TasksHaveOrigin(s) /\ Escrow \in Accounts
      /\ t.from \in Users /\ t.data \in Urls
    BY AccountsAreApart, TxsAssumption DEF Sound, Urls
<1>2. PICK p : p = creditBalance(Charged(s, t), Escrow, NetValue(t))
    OBVIOUS
<1>3. /\ HasFields(p)
      /\ NetValue(t) \in Nat
      /\ p.balances \in [Accounts -> Nat]
      /\ SumFunction(p.balances) = SumFunction(s.balances)
      /\ p.balances[Escrow] = s.balances[Escrow] + (IF Escrow = Escrow THEN NetValue(t) ELSE 0)
      /\ p.nonces \in [Users -> Nat]
      /\ \A u \in Users : p.nonces[u] >= s.nonces[u]
      /\ p.nonces[t.from] > t.nonce /\ t.nonce = s.nonces[t.from]
      /\ p.tasks = s.tasks /\ p.index = s.index
      /\ p.mentions = s.mentions /\ p.names = s.names /\ p.burned = s.burned
    BY <1>1, <1>2, PaymentEffect
<1>4. PICK h, r, v : /\ h = <<t.hash>> /\ v = NetValue(t)
                     /\ r = TaskRecord(t.from, t.data, NetValue(t), FALSE, 0)
    OBVIOUS
<1>5. /\ r.reward = v /\ r.autonomous = FALSE /\ r.completed = FALSE /\ r.depth = 0
      /\ r \in TaskRecords
    BY <1>1, <1>3, <1>4 DEF TaskRecord, TaskRecords
<1>6. h \in Ids /\ Len(h) = 1
    BY <1>4 DEF Ids
<1>7. PICK tasks : tasks = Put(s.tasks, h, r)
    OBVIOUS
<1>8. n = [p EXCEPT !.tasks = tasks]
    BY <1>2, <1>3, <1>4, <1>7
<1>9. /\ HasFields(n)
      /\ n.balances = p.balances /\ n.nonces = p.nonces /\ n.tasks = tasks /\ n.index = s.index
      /\ n.mentions = s.mentions /\ n.names = s.names /\ n.burned = s.burned
    BY <1>3, <1>8 DEF HasFields
<1>10. h \notin DOMAIN s.tasks
    <2>1. SUFFICES ASSUME h \in DOMAIN s.tasks PROVE FALSE
        OBVIOUS
    <2>2. ~IsSpawned(s, h)
        BY <1>6 DEF IsSpawned
    <2>3. IsAsked(s, h)
        BY <1>1, <2>1, <2>2, OriginFacts
    <2>4. PICK u \in Txs : h = <<u.hash>> /\ u.nonce < s.nonces[u.from]
        BY <2>3 DEF IsAsked
    <2>5. u.hash = t.hash
        BY <1>4, <2>4
    <2>6. u = t
        BY <2>5, TxsAssumption
    <2>7. t.nonce \in Nat
        BY TxsAssumption
    <2> QED
        BY <1>3, <2>4, <2>6, <2>7
<1>11. /\ IsMap(tasks, Ids, TaskRecords) /\ DOMAIN tasks = DOMAIN s.tasks \cup {h} /\ tasks[h] = r
       /\ \A x \in DOMAIN s.tasks : tasks[x] = s.tasks[x]
    <2>1. IsMap(tasks, Ids, TaskRecords)
        <3>1. IsMap(s.tasks, Ids, TaskRecords)
            BY <1>1 DEF StateTypeOK
        <3> QED
            BY <1>5, <1>6, <1>7, <3>1, PutMakesMap
    <2>2. /\ DOMAIN tasks = DOMAIN s.tasks \cup {h} /\ tasks[h] = r
          /\ \A x \in DOMAIN s.tasks : x # h => tasks[x] = s.tasks[x]
        BY <1>7 DEF Put
    <2> QED
        BY <1>10, <2>1, <2>2
<1>12. StateTypeOK(n)
    BY <1>1, <1>3, <1>9, <1>11 DEF StateTypeOK
<1>13. TasksHaveOrigin(n)
    <2>1. SUFFICES ASSUME NEW id \in DOMAIN tasks
                   PROVE  /\ IF tasks[id].autonomous THEN IsSpawned(n, id) ELSE IsAsked(n, id)
                          /\ tasks[id].completed => tasks[id].url \in DOMAIN s.index
        BY <1>9 DEF TasksHaveOrigin
    <2>2. CASE id = h
        <3>1. IsAsked(n, h)
            BY <1>3, <1>4, <1>5, <1>9, <1>11 DEF IsAsked
        <3> QED
            BY <1>5, <1>11, <2>2, <3>1
    <2>3. CASE id # h
        <3>1. id \in DOMAIN s.tasks /\ tasks[id] = s.tasks[id]
            BY <1>11, <2>1, <2>3
        <3>2. /\ IF s.tasks[id].autonomous THEN IsSpawned(s, id) ELSE IsAsked(s, id)
              /\ s.tasks[id].completed => s.tasks[id].url \in DOMAIN s.index
            BY <1>1, <3>1 DEF TasksHaveOrigin
        <3>3. IsSpawned(s, id) => IsSpawned(n, id)
            <4>1. PICK q : q = SubSeq(id, 1, Len(id) - 1)
                OBVIOUS
            <4>2. q \in DOMAIN s.tasks => q \in DOMAIN tasks /\ tasks[q] = s.tasks[q]
                BY <1>11
            <4> QED
                BY <1>9, <3>1, <4>1, <4>2 DEF IsSpawned
        <3>4. IsAsked(s, id) => IsAsked(n, id)
            <4>1. ASSUME NEW u \in Txs, u.nonce < s.nonces[u.from] PROVE u.nonce < n.nonces[u.from]
                <5>1. u.from \in Users /\ u.nonce \in Nat
                    BY TxsAssumption
                <5>2. s.nonces[u.from] \in Nat /\ n.nonces[u.from] \in Nat
                    BY <1>1, <1>3, <1>9, <5>1 DEF StateTypeOK
                <5>3. n.nonces[u.from] >= s.nonces[u.from]
                    BY <1>3, <1>9, <5>1
                <5> QED
                    BY <4>1, <5>1, <5>2, <5>3
            <4> QED
                BY <1>9, <3>1, <4>1 DEF IsAsked
        <3> QED
            BY <3>1, <3>2, <3>3, <3>4
    <2> QED
        BY <2>2, <2>3
<1>14. Balanced(n)
    BY <1>3, <1>9 DEF Sound, Balanced
<1>15. Covered(n)
    <2>1. PICK f, A, e, B : f = Rewards(s) /\ A = Active(s) /\ e = Rewards(n) /\ B = Active(n)
        OBVIOUS
    <2>2. /\ IsFiniteSet(A) /\ SumFunction(f) \in Int
          /\ \A id \in A : f[id] = s.tasks[id].reward /\ f[id] \in Nat
          /\ SumFunction(f) = SumFunctionOnSet(f, A)
        BY <1>1, <2>1, RewardsAddUp
    <2>3. /\ \A id \in B : e[id] = tasks[id].reward /\ e[id] \in Nat
          /\ SumFunction(e) = SumFunctionOnSet(e, B)
        BY <1>9, <1>12, <2>1, RewardsAddUp
    <2>4. B = A \cup {h} /\ h \notin A /\ A \subseteq DOMAIN s.tasks
        BY <1>5, <1>9, <1>10, <1>11, <2>1 DEF Active
    <2>5. \A id \in A : e[id] = f[id]
        <3>1. SUFFICES ASSUME NEW id \in A PROVE e[id] = f[id]
            OBVIOUS
        <3>2. tasks[id] = s.tasks[id]
            BY <1>11, <2>4
        <3> QED
            BY <2>2, <2>3, <2>4, <3>2
    <2>6. e[h] = v
        <3>1. e[h] = tasks[h].reward
            BY <2>3, <2>4
        <3> QED
            BY <1>5, <1>11, <3>1
    <2>7. SumFunctionOnSet(e, A \cup {h}) = e[h] + SumFunctionOnSet(e, A)
        <3>1. \A id \in A \cup {h} : e[id] \in Int
            BY <2>3, <2>4
        <3> QED
            BY <2>2, <2>4, <3>1, SumOfMore
    <2>8. SumFunctionOnSet(e, A) = SumFunctionOnSet(f, A)
        BY <2>2, <2>5, SumOfEquals
    <2>9. PICK m \in Int, k \in Nat, w \in Nat : /\ m = SumFunction(Rewards(s)) /\ w = v
                                                 /\ k = s.balances[Escrow]
        BY <1>1, <1>3, <1>4, <2>1, <2>2 DEF StateTypeOK
    <2>10. k >= m
        BY <2>9 DEF Sound, Covered
    <2>11. SumFunction(Rewards(n)) = w + m
        BY <2>1, <2>2, <2>3, <2>4, <2>6, <2>7, <2>8, <2>9
    <2>12. n.balances[Escrow] = k + w
        BY <1>3, <1>4, <1>9, <2>9
    <2>13. k + w >= w + m
        BY <2>9, <2>10
    <2> QED
        BY <2>11, <2>12, <2>13 DEF Covered
<1>16. Counted(n)
    <2>1. \A w : Counts(n, w) = Counts(s, w)
        BY <1>9 DEF Counts
    <2> QED
        BY <1>9, <2>1 DEF Sound, Counted
<1>17. EachUrlOnce(n) /\ FewOpen(n)
    <2>1. Autonomous(n) = Autonomous(s) /\ ActiveAutonomous(n) = ActiveAutonomous(s)
        BY <1>5, <1>9, <1>11 DEF Autonomous, Active, ActiveAutonomous
    <2>2. \A i \in Autonomous(s) : n.tasks[i] = s.tasks[i]
        BY <1>9, <1>11 DEF Autonomous
    <2> QED
        BY <2>1, <2>2 DEF Sound, EachUrlOnce, FewOpen
<1>18. FewChildren(n)
    <2>1. SUFFICES ASSUME NEW id \in DOMAIN tasks
                   PROVE  Cardinality(ChildrenOf(n, id)) <= LinksPerProof
        BY <1>9 DEF FewChildren
    <2>2. ChildrenOf(n, id) = ChildrenOf(s, id)
        <3>1. Len(id) \in Nat /\ Len(id) >= 1
            BY <1>9, <1>12, <1>13, OriginFacts
        <3>2. ~(Len(h) = Len(id) + 1)
            BY <1>6, <3>1
        <3> QED
            BY <1>9, <1>11, <3>2 DEF ChildrenOf
    <2>3. CASE id = h
        <3>1. ChildrenOf(s, h) = {}
            <4>1. Len(h) >= 1
                BY <1>6
            <4> QED
                BY <1>1, <1>6, <1>10, <4>1, NoChildren
        <3>2. Cardinality(ChildrenOf(n, id)) = 0
            BY <2>2, <2>3, <3>1, FS_EmptySet
        <3> QED
            BY <3>2, FrontierAssumption
    <2>4. CASE id # h
        BY <1>11, <2>1, <2>2, <2>4 DEF Sound, FewChildren
    <2> QED
        BY <2>3, <2>4
<1>19. Keeps(s, n)
    BY <1>3, <1>9, <1>11 DEF Keeps
<1> QED
    BY <1>12, <1>13, <1>14, <1>15, <1>16, <1>17, <1>18, <1>19 DEF Sound

---------------------------------------------------------------------------
(***************************************************************************)
(* A proof: the payment, the index and the task's record.                  *)
(***************************************************************************)
Closes(f, id, miner) == [f EXCEPT ![id].completed = TRUE, ![id].minedBy = miner]

LEMMA PaidFields ==
    ASSUME NEW s, HasFields(s), NEW id, NEW miner, NEW p, p = Paid(s, id, miner),
           NEW r, r = s.tasks[id].reward, NEW b, b = Takes(s.balances, Escrow, r)
    PROVE  /\ HasFields(p)
           /\ p.balances = Adds(b, miner, r)
           /\ p.nonces = s.nonces /\ p.tasks = s.tasks /\ p.index = s.index
           /\ p.mentions = s.mentions /\ p.names = s.names /\ p.contracts = s.contracts
           /\ p.burned = s.burned
<1>1. p = [s EXCEPT !.balances[Escrow] = @ - r, !.balances[miner] = @ + r]
    BY DEF Paid
<1>2. /\ p.nonces = s.nonces /\ p.tasks = s.tasks /\ p.index = s.index
      /\ p.mentions = s.mentions /\ p.names = s.names /\ p.contracts = s.contracts
      /\ p.burned = s.burned
    BY <1>1 DEF HasFields
<1>3. p.balances = Adds(b, miner, r)
    BY <1>1 DEF HasFields, Adds, Takes
<1>4. HasFields(p)
    BY <1>1 DEF HasFields
<1> QED
    BY <1>2, <1>3, <1>4

LEMMA SettledFields ==
    ASSUME NEW s, HasFields(s), NEW id, NEW miner, NEW page,
           NEW n, n = Settled(s, id, miner, page),
           NEW r, r = s.tasks[id].reward, NEW b, b = Takes(s.balances, Escrow, r),
           NEW url, url = s.tasks[id].url
    PROVE  /\ HasFields(n)
           /\ n.balances = Adds(b, miner, r)
           /\ n.nonces = s.nonces /\ n.names = s.names /\ n.burned = s.burned
           /\ n.tasks = Closes(s.tasks, id, miner)
           /\ n.index = Put(s.index, url, [counts |-> page.counts, task |-> id])
           /\ n.mentions = Mentions(s, url, page.counts)
<1>1. PICK p : p = Paid(s, id, miner)
    OBVIOUS
<1>2. /\ HasFields(p)
      /\ p.balances = Adds(b, miner, r)
      /\ p.nonces = s.nonces /\ p.tasks = s.tasks /\ p.index = s.index
      /\ p.mentions = s.mentions /\ p.names = s.names /\ p.contracts = s.contracts
      /\ p.burned = s.burned
    BY <1>1, PaidFields
<1>3. PICK m, e : /\ m = Mentions(s, url, page.counts)
                  /\ e = [counts |-> page.counts, task |-> id]
    OBVIOUS
<1>4. n = [p EXCEPT !.mentions = m, !.index = Put(@, url, e),
                    !.tasks[id].completed = TRUE, !.tasks[id].minedBy = miner]
    BY <1>1, <1>3 DEF Settled
<1>5. /\ n.balances = p.balances /\ n.nonces = p.nonces /\ n.names = p.names
      /\ n.burned = p.burned
    BY <1>2, <1>4 DEF HasFields
<1>6. n.tasks = Closes(p.tasks, id, miner)
    <2>1. PICK q : q = [p EXCEPT !.mentions = m, !.index = Put(@, url, e), !.tasks[id].completed = TRUE]
        OBVIOUS
    <2>2. n = [q EXCEPT !.tasks[id].minedBy = miner]
        BY <1>4, <2>1
    <2>3. q.tasks = [p.tasks EXCEPT ![id].completed = TRUE] /\ DOMAIN q = DOMAIN p
        BY <1>2, <2>1 DEF HasFields
    <2>4. n.tasks = [q.tasks EXCEPT ![id].minedBy = miner]
        BY <1>2, <2>2, <2>3 DEF HasFields
    <2>5. Closes(p.tasks, id, miner) = [[p.tasks EXCEPT ![id].completed = TRUE] EXCEPT ![id].minedBy = miner]
        BY DEF Closes
    <2> QED
        BY <2>3, <2>4, <2>5
<1>7. n.index = Put(p.index, url, e) /\ n.mentions = m
    BY <1>2, <1>4 DEF HasFields
<1>8. HasFields(n)
    BY <1>2, <1>4 DEF HasFields
<1> QED
    BY <1>2, <1>3, <1>5, <1>6, <1>7, <1>8

LEMMA CountsAddUp ==
    ASSUME NEW s, StateTypeOK(s), NEW w \in Terms
    PROVE  /\ IsFiniteSet(DOMAIN s.index) /\ DOMAIN Counts(s, w) = DOMAIN s.index
           /\ \A u \in DOMAIN s.index : /\ Counts(s, w)[u] = s.index[u].counts[w]
                                        /\ Counts(s, w)[u] \in Nat
           /\ SumFunction(Counts(s, w)) = SumFunctionOnSet(Counts(s, w), DOMAIN s.index)
<1>1. IsFiniteSet(DOMAIN s.index) /\ s.index \in [DOMAIN s.index -> Entries]
    BY DEF StateTypeOK, IsMap
<1>2. DOMAIN Counts(s, w) = DOMAIN s.index
    BY DEF Counts
<1>3. \A u \in DOMAIN s.index : Counts(s, w)[u] = s.index[u].counts[w]
    BY DEF Counts
<1>4. \A u \in DOMAIN s.index : Counts(s, w)[u] \in Nat
    <2>1. SUFFICES ASSUME NEW u \in DOMAIN s.index PROVE Counts(s, w)[u] \in Nat
        OBVIOUS
    <2>2. s.index[u] \in Entries
        BY <1>1
    <2>3. s.index[u].counts \in [Terms -> Nat]
        BY <2>2 DEF Entries
    <2> QED
        BY <1>3, <2>3
<1> QED
    BY <1>1, <1>2, <1>3, <1>4 DEF SumFunction

\* Taking the old counts of a page back before the new ones are added
\* leaves the sum over the index.
LEMMA MentionsStayTrue ==
    ASSUME NEW s, StateTypeOK(s), Counted(s), NEW url, NEW counts \in [Terms -> Nat], NEW k,
           NEW n, StateTypeOK(n), n.index = Put(s.index, url, [counts |-> counts, task |-> k]),
           n.mentions = Mentions(s, url, counts)
    PROVE  Counted(n)
<1>1. SUFFICES ASSUME NEW w \in Terms PROVE n.mentions[w] = SumFunction(Counts(n, w))
    BY DEF Counted
<1>2. PICK f, g, V : f = Counts(s, w) /\ g = Counts(n, w) /\ V = DOMAIN s.index
    OBVIOUS
<1>3. PICK e : e = [counts |-> counts, task |-> k]
    OBVIOUS
<1>4. e.counts = counts
    BY <1>3
<1>5. /\ IsFiniteSet(V) /\ SumFunction(f) = SumFunctionOnSet(f, V)
      /\ \A u \in V : f[u] = s.index[u].counts[w] /\ f[u] \in Nat
    BY <1>2, CountsAddUp
<1>6. DOMAIN n.index = V \cup {url}
    BY <1>2 DEF Put
<1>7. /\ SumFunction(g) = SumFunctionOnSet(g, V \cup {url})
      /\ \A u \in V \cup {url} : g[u] = n.index[u].counts[w] /\ g[u] \in Nat
    BY <1>2, <1>6, CountsAddUp
<1>8. n.index = Put(s.index, url, e)
    BY <1>3
<1>9. n.index[url] = e /\ \A u \in V : u # url => n.index[u] = s.index[u]
    BY <1>2, <1>8 DEF Put
<1>10. PICK c \in Nat : c = counts[w]
    OBVIOUS
<1>11. g[url] = c
    BY <1>4, <1>7, <1>9, <1>10
<1>12. \A u \in V \ {url} : g[u] = f[u]
    BY <1>5, <1>7, <1>9
<1>13. SumFunctionOnSet(f, V) \in Nat
    BY <1>5, SumOfNaturals
<1>14. PICK m \in Nat : m = SumFunctionOnSet(f, V)
    BY <1>13
<1>15. s.mentions[w] = m
    BY <1>2, <1>5, <1>14 DEF Counted
<1>16. n.mentions[w] = (IF m <= IndexedCounts(s, url)[w] THEN 0 ELSE m - IndexedCounts(s, url)[w]) + c
    BY <1>10, <1>15 DEF Mentions
<1>17. CASE url \in V
    <2>1. V \cup {url} = V
        BY <1>17
    <2>2. SumFunctionOnSet(g, V) = SumFunctionOnSet(f, V) - f[url] + g[url]
        <3>1. \A u \in V : f[u] \in Int /\ g[u] \in Int
            BY <1>5, <1>7
        <3> QED
            BY <1>5, <1>12, <1>17, <3>1, SumOfChange
    <2>3. PICK o \in Nat : o = f[url]
        BY <1>5, <1>17
    <2>4. IndexedCounts(s, url)[w] = o
        BY <1>2, <1>5, <1>17, <2>3 DEF IndexedCounts
    <2>5. o <= m
        <3>1. \A u \in V : f[u] \in Int
            BY <1>5
        <3>2. SumFunctionOnSet(f, V) = f[url] + SumFunctionOnSet(f, V \ {url})
            BY <1>5, <1>17, <3>1, SumTakesOut
        <3>3. SumFunctionOnSet(f, V \ {url}) \in Nat
            <4>1. IsFiniteSet(V \ {url})
                BY <1>5, FS_Subset
            <4>2. \A u \in V \ {url} : f[u] \in Nat
                BY <1>5
            <4> QED
                BY <4>1, <4>2, SumOfNaturals
        <3>4. PICK q \in Nat : q = SumFunctionOnSet(f, V \ {url})
            BY <3>3
        <3>5. m = o + q
            BY <1>14, <2>3, <3>2, <3>4
        <3> QED
            BY <3>5
    <2>6. SumFunction(g) = m - o + c
        BY <1>7, <1>11, <1>14, <2>1, <2>2, <2>3
    <2>7. n.mentions[w] = (IF m <= o THEN 0 ELSE m - o) + c
        BY <1>16, <2>4
    <2>8. n.mentions[w] = m - o + c
        BY <2>5, <2>7
    <2> QED
        BY <1>2, <2>6, <2>8
<1>18. CASE url \notin V
    <2>1. SumFunctionOnSet(g, V \cup {url}) = g[url] + SumFunctionOnSet(g, V)
        <3>1. \A u \in V \cup {url} : g[u] \in Int
            BY <1>7
        <3> QED
            BY <1>5, <1>18, <3>1, SumOfMore
    <2>2. SumFunctionOnSet(g, V) = SumFunctionOnSet(f, V)
        <3>1. \A u \in V : g[u] = f[u]
            BY <1>12, <1>18
        <3> QED
            BY <1>5, <3>1, SumOfEquals
    <2>3. SumFunction(g) = c + m
        BY <1>7, <1>11, <1>14, <2>1, <2>2
    <2>4. IndexedCounts(s, url)[w] = 0
        BY <1>2, <1>18 DEF IndexedCounts
    <2>5. n.mentions[w] = (IF m <= 0 THEN 0 ELSE m - 0) + c
        BY <1>16, <2>4
    <2>6. n.mentions[w] = c + m
        BY <2>5
    <2> QED
        BY <1>2, <2>3, <2>6
<1> QED
    BY <1>17, <1>18

\* What a settled task was paid has left escrow, and the promise is gone.
LEMMA SettledIsCovered ==
    ASSUME NEW s, StateTypeOK(s), Covered(s), NEW id \in DOMAIN s.tasks, ~s.tasks[id].completed,
           NEW n, StateTypeOK(n), DOMAIN n.tasks = DOMAIN s.tasks, n.tasks[id].completed = TRUE,
           \A x \in DOMAIN s.tasks : x # id => n.tasks[x] = s.tasks[x],
           n.balances[Escrow] = s.balances[Escrow] - s.tasks[id].reward
    PROVE  Covered(n)
<1>1. PICK f, A, e, B : f = Rewards(s) /\ A = Active(s) /\ e = Rewards(n) /\ B = Active(n)
    OBVIOUS
<1>2. /\ IsFiniteSet(A) /\ SumFunction(f) \in Int
      /\ \A x \in A : f[x] = s.tasks[x].reward /\ f[x] \in Nat
      /\ SumFunction(f) = SumFunctionOnSet(f, A)
    BY <1>1, RewardsAddUp
<1>3. /\ IsFiniteSet(B) /\ SumFunction(e) \in Int
      /\ \A x \in B : e[x] = n.tasks[x].reward /\ e[x] \in Nat
      /\ SumFunction(e) = SumFunctionOnSet(e, B)
    BY <1>1, RewardsAddUp
<1>4. id \in A /\ B = A \ {id} /\ A \subseteq DOMAIN s.tasks
    BY <1>1 DEF Active
<1>5. \A x \in B : e[x] = f[x]
    <2>1. SUFFICES ASSUME NEW x \in B PROVE e[x] = f[x]
        OBVIOUS
    <2>2. x \in A /\ n.tasks[x] = s.tasks[x]
        BY <1>4
    <2> QED
        BY <1>2, <1>3, <2>2
<1>6. SumFunctionOnSet(e, B) = SumFunctionOnSet(f, B)
    BY <1>3, <1>5, SumOfEquals
<1>7. SumFunctionOnSet(f, A) = f[id] + SumFunctionOnSet(f, B)
    <2>1. \A x \in A : f[x] \in Int
        BY <1>2
    <2>2. SumFunctionOnSet(f, A) = f[id] + SumFunctionOnSet(f, A \ {id})
        BY <1>2, <1>4, <2>1, SumTakesOut
    <2> QED
        BY <1>4, <2>2
<1>8. PICK k \in Nat, m \in Int, r \in Nat :
            k = s.balances[Escrow] /\ m = SumFunction(e) /\ r = s.tasks[id].reward
    <2>1. s.balances[Escrow] \in Nat
        BY AccountsAreApart DEF StateTypeOK
    <2> QED
        BY <1>2, <1>3, <1>4, <2>1
<1>9. SumFunction(f) = r + m
    BY <1>2, <1>3, <1>4, <1>6, <1>7, <1>8
<1>10. k >= r + m
    BY <1>1, <1>8, <1>9 DEF Covered
<1>11. n.balances[Escrow] = k - r
    BY <1>8
<1>12. k - r >= m
    BY <1>8, <1>10
<1> QED
    BY <1>1, <1>8, <1>11, <1>12 DEF Covered

LEMMA SettlementIsSound ==
    ASSUME NEW s, Sound(s), NEW id \in DOMAIN s.tasks, Provable(s, id, s.tasks[id].reward),
           NEW miner \in Miners, NEW page \in Pages, NEW n, n = Settled(s, id, miner, page)
    PROVE  /\ Sound(n) /\ Keeps(s, n)
           /\ id \in DOMAIN n.tasks /\ n.tasks[id].completed /\ ChildrenOf(n, id) = {}
<1>1. /\ StateTypeOK(s) /\ TasksHaveOrigin(s) /\ HasFields(s)
      /\ ~s.tasks[id].completed /\ s.balances[Escrow] >= s.tasks[id].reward
    BY DEF Sound, Provable, StateTypeOK
<1>2. /\ miner \in Users /\ miner \in Accounts /\ miner # Escrow /\ Escrow \in Accounts
      /\ page.counts \in [Terms -> Nat]
    BY AccountsAreApart, PagesAssumption
<1>3. /\ id \in Ids /\ s.tasks[id].url \in Urls /\ s.tasks[id].reward \in Nat
      /\ s.balances \in [Accounts -> Nat]
    BY <1>1, TaskFacts DEF StateTypeOK
<1>4. PICK r \in Nat, url \in Urls : r = s.tasks[id].reward /\ url = s.tasks[id].url
    BY <1>3
<1>5. PICK b, e : b = Takes(s.balances, Escrow, r) /\ e = [counts |-> page.counts, task |-> id]
    OBVIOUS
<1>6. /\ HasFields(n)
      /\ n.balances = Adds(b, miner, r)
      /\ n.nonces = s.nonces /\ n.names = s.names /\ n.burned = s.burned
      /\ n.tasks = Closes(s.tasks, id, miner)
      /\ n.index = Put(s.index, url, e)
      /\ n.mentions = Mentions(s, url, page.counts)
    BY <1>1, <1>4, <1>5, SettledFields
<1>7. PICK tasks, index, bal : tasks = n.tasks /\ index = n.index /\ bal = n.balances
    OBVIOUS
<1>8. /\ IsMap(tasks, Ids, TaskRecords) /\ DOMAIN tasks = DOMAIN s.tasks
      /\ \A x \in DOMAIN s.tasks : x # id => tasks[x] = s.tasks[x]
      /\ tasks[id].completed = TRUE
      /\ \A x \in DOMAIN s.tasks :
            /\ tasks[x].url = s.tasks[x].url /\ tasks[x].reward = s.tasks[x].reward
            /\ tasks[x].autonomous = s.tasks[x].autonomous /\ tasks[x].depth = s.tasks[x].depth
    <2>1. PICK f : f = s.tasks
        OBVIOUS
    <2>2. DOMAIN f \subseteq Ids /\ IsFiniteSet(DOMAIN f) /\ f \in [DOMAIN f -> TaskRecords]
        BY <1>1, <2>1 DEF StateTypeOK, IsMap
    <2>3. PICK o \in TaskRecords : o = f[id]
        BY <2>1, <2>2
    <2>4. PICK q : q = [o EXCEPT !.completed = TRUE, !.minedBy = miner]
        OBVIOUS
    <2>5. /\ q \in TaskRecords /\ q.completed = TRUE /\ q.url = o.url /\ q.reward = o.reward
          /\ q.autonomous = o.autonomous /\ q.depth = o.depth
        BY <1>2, <2>4 DEF TaskRecords
    <2>6. tasks = [f EXCEPT ![id] = q]
        BY <1>6, <1>7, <2>1, <2>3, <2>4 DEF Closes
    <2>7. /\ DOMAIN tasks = DOMAIN f /\ tasks[id] = q
          /\ \A x \in DOMAIN f : x # id => tasks[x] = f[x]
        BY <2>1, <2>6
    <2>8. tasks \in [DOMAIN f -> TaskRecords]
        BY <2>2, <2>5, <2>6
    <2>9. \A x \in DOMAIN f :
            /\ tasks[x].url = f[x].url /\ tasks[x].reward = f[x].reward
            /\ tasks[x].autonomous = f[x].autonomous /\ tasks[x].depth = f[x].depth
        BY <2>3, <2>5, <2>7
    <2>10. IsMap(tasks, Ids, TaskRecords)
        BY <2>2, <2>7, <2>8 DEF IsMap
    <2> QED
        BY <2>1, <2>5, <2>7, <2>9, <2>10
<1>9. IsMap(index, Urls, Entries) /\ DOMAIN index = DOMAIN s.index \cup {url}
    <2>1. PICK f, D, R : f = s.index /\ D = Urls /\ R = Entries
        OBVIOUS
    <2>2. e \in R
        BY <1>2, <1>3, <1>5, <2>1 DEF Entries
    <2>3. IsMap(f, D, R) /\ index = Put(f, url, e) /\ url \in D
        BY <1>1, <1>4, <1>6, <1>7, <2>1 DEF StateTypeOK
    <2>4. IsMap(index, D, R)
        BY <2>2, <2>3, PutMakesMap
    <2>5. DOMAIN index = DOMAIN f \cup {url}
        BY <2>3 DEF Put
    <2> QED
        BY <2>1, <2>4, <2>5
<1>10. /\ bal \in [Accounts -> Nat] /\ SumFunction(bal) = SumFunction(s.balances)
       /\ bal[Escrow] = s.balances[Escrow] - r
    <2>1. PICK a : a = s.balances
        OBVIOUS
    <2>2. a \in [Accounts -> Nat] /\ a[Escrow] >= r
        BY <1>1, <1>3, <1>4, <2>1
    <2>3. PICK k \in Nat : k = a[Escrow]
        BY <1>2, <2>2
    <2>4. k - r = k + (0 - r) /\ k + (0 - r) >= 0 /\ 0 - r \in Int
        BY <1>4, <2>2, <2>3
    <2>5. b = Adds(a, Escrow, 0 - r)
        BY <1>5, <2>1, <2>3, <2>4 DEF Adds, Takes
    <2>6. a[Escrow] + (0 - r) >= 0
        BY <2>3, <2>4
    <2>7. /\ b \in [Accounts -> Nat] /\ SumFunction(b) = SumFunction(a) + (0 - r)
          /\ \A x \in Accounts : b[x] = IF x = Escrow THEN a[Escrow] + (0 - r) ELSE a[x]
          /\ SumFunction(a) \in Int
        BY <1>2, <2>2, <2>4, <2>5, <2>6, CreditChangesSum
    <2>8. b[miner] + r >= 0 /\ r \in Int
        <3>1. b[miner] \in Nat
            BY <1>2, <2>7
        <3> QED
            BY <3>1
    <2>9. bal = Adds(b, miner, r)
        BY <1>6, <1>7
    <2>10. /\ bal \in [Accounts -> Nat] /\ SumFunction(bal) = SumFunction(b) + r
           /\ \A x \in Accounts : bal[x] = IF x = miner THEN b[miner] + r ELSE b[x]
        BY <1>2, <2>7, <2>8, <2>9, CreditChangesSum
    <2>11. PICK m \in Int : m = SumFunction(a)
        BY <2>7
    <2>12. SumFunction(bal) = (m + (0 - r)) + r
        BY <2>7, <2>10, <2>11
    <2>13. SumFunction(bal) = m
        BY <2>11, <2>12
    <2>14. bal[Escrow] = b[Escrow] /\ b[Escrow] = k + (0 - r)
        BY <1>2, <2>3, <2>7, <2>10
    <2> QED
        BY <2>1, <2>3, <2>4, <2>10, <2>11, <2>13, <2>14
<1>11. n.mentions \in [Terms -> Nat]
    <2>1. PICK m \in [Terms -> Nat] : m = s.mentions
        BY <1>1 DEF StateTypeOK
    <2>2. PICK o \in [Terms -> Nat] : o = IndexedCounts(s, url)
        <3>1. CASE url \in DOMAIN s.index
            <4>1. s.index[url] \in Entries
                BY <1>1, <3>1 DEF StateTypeOK, IsMap
            <4> QED
                BY <3>1, <4>1 DEF IndexedCounts, Entries
        <3>2. CASE url \notin DOMAIN s.index
            BY <3>2 DEF IndexedCounts
        <3> QED
            BY <3>1, <3>2
    <2>3. PICK c \in [Terms -> Nat] : c = page.counts
        BY <1>2
    <2>4. n.mentions = [w \in Terms |-> (IF m[w] <= o[w] THEN 0 ELSE m[w] - o[w]) + c[w]]
        BY <1>6, <2>1, <2>2, <2>3 DEF Mentions
    <2>5. \A w \in Terms : (IF m[w] <= o[w] THEN 0 ELSE m[w] - o[w]) + c[w] \in Nat
        OBVIOUS
    <2> QED
        BY <2>4, <2>5
<1>12. StateTypeOK(n)
    BY <1>1, <1>6, <1>7, <1>8, <1>9, <1>10, <1>11 DEF StateTypeOK
<1>13. TasksHaveOrigin(n)
    <2>1. SUFFICES ASSUME NEW x \in DOMAIN s.tasks
                   PROVE  /\ IF tasks[x].autonomous THEN IsSpawned(n, x) ELSE IsAsked(n, x)
                          /\ tasks[x].completed => tasks[x].url \in DOMAIN index
        BY <1>7, <1>8 DEF TasksHaveOrigin
    <2>2. /\ IF s.tasks[x].autonomous THEN IsSpawned(s, x) ELSE IsAsked(s, x)
          /\ s.tasks[x].completed => s.tasks[x].url \in DOMAIN s.index
        BY <1>1 DEF TasksHaveOrigin
    <2>3. IsAsked(s, x) => IsAsked(n, x)
        BY <1>6, <1>7, <1>8 DEF IsAsked
    <2>4. IsSpawned(s, x) => IsSpawned(n, x)
        <3>1. PICK q : q = SubSeq(x, 1, Len(x) - 1)
            OBVIOUS
        <3>2. q \in DOMAIN s.tasks /\ s.tasks[q].completed =>
                q \in DOMAIN tasks /\ tasks[q].completed /\ tasks[q].depth = s.tasks[q].depth
            BY <1>8
        <3> QED
            BY <1>7, <1>8, <3>1, <3>2 DEF IsSpawned
    <2>5. tasks[x].completed => tasks[x].url \in DOMAIN index
        <3>1. CASE x = id
            BY <1>4, <1>8, <1>9, <3>1
        <3>2. CASE x # id
            BY <1>8, <1>9, <2>2, <3>2
        <3> QED
            BY <3>1, <3>2
    <2> QED
        BY <1>8, <2>2, <2>3, <2>4, <2>5
<1>14. Balanced(n)
    BY <1>6, <1>7, <1>10 DEF Sound, Balanced
<1>15. Covered(n)
    <2>1. DOMAIN n.tasks = DOMAIN s.tasks /\ n.tasks[id].completed = TRUE
        BY <1>7, <1>8
    <2>2. \A x \in DOMAIN s.tasks : x # id => n.tasks[x] = s.tasks[x]
        BY <1>7, <1>8
    <2>3. n.balances[Escrow] = s.balances[Escrow] - s.tasks[id].reward
        BY <1>4, <1>7, <1>10
    <2>4. Covered(s)
        BY DEF Sound
    <2> QED
        BY <1>1, <1>12, <2>1, <2>2, <2>3, <2>4, SettledIsCovered
<1>16. Counted(n)
    <2>1. Counted(s)
        BY DEF Sound
    <2>2. PICK c \in [Terms -> Nat] : c = page.counts
        BY <1>2
    <2>3. n.index = Put(s.index, url, [counts |-> c, task |-> id]) /\ n.mentions = Mentions(s, url, c)
        BY <1>5, <1>6, <2>2
    <2> QED
        BY <1>1, <1>12, <2>1, <2>3, MentionsStayTrue
<1>17. EachUrlOnce(n)
    <2>1. Autonomous(n) = Autonomous(s)
        BY <1>7, <1>8 DEF Autonomous
    <2>2. \A i \in Autonomous(s) : n.tasks[i].url = s.tasks[i].url
        BY <1>7, <1>8 DEF Autonomous
    <2> QED
        BY <2>1, <2>2 DEF Sound, EachUrlOnce
<1>18. FewOpen(n)
    <2>1. ActiveAutonomous(n) \subseteq ActiveAutonomous(s)
        BY <1>7, <1>8 DEF Active, ActiveAutonomous
    <2>2. IsFiniteSet(ActiveAutonomous(s))
        <3>1. ActiveAutonomous(s) \subseteq DOMAIN s.tasks /\ IsFiniteSet(DOMAIN s.tasks)
            BY <1>1 DEF ActiveAutonomous, Active, StateTypeOK, IsMap
        <3> QED
            BY <3>1, FS_Subset
    <2>3. PICK i, j : i = Cardinality(ActiveAutonomous(n)) /\ j = Cardinality(ActiveAutonomous(s))
        OBVIOUS
    <2>4. i \in Nat /\ j \in Nat /\ i <= j
        BY <2>1, <2>2, <2>3, FS_Subset, FS_CardinalityType
    <2>5. j <= PendingTaskLimit /\ PendingTaskLimit \in Nat
        BY <2>3, FrontierAssumption DEF Sound, FewOpen
    <2>6. i <= PendingTaskLimit
        BY <2>4, <2>5
    <2> QED
        BY <2>3, <2>6 DEF FewOpen
<1>19. \A x : ChildrenOf(n, x) = ChildrenOf(s, x)
    BY <1>7, <1>8 DEF ChildrenOf
<1>20. FewChildren(n)
    BY <1>7, <1>8, <1>19 DEF Sound, FewChildren
<1>21. Keeps(s, n)
    <2>1. \A u \in Users : s.nonces[u] \in Nat
        BY <1>1 DEF StateTypeOK
    <2> QED
        BY <1>1, <1>6, <1>7, <1>8, <1>9, <2>1 DEF Keeps
<1>22. ChildrenOf(n, id) = {}
    <2>1. Len(id) >= 1
        BY <1>1, OriginFacts
    <2>2. ChildrenOf(s, id) = {}
        BY <1>1, <1>3, <2>1, NoChildren
    <2> QED
        BY <1>19, <2>2
<1> QED
    BY <1>7, <1>8, <1>12, <1>13, <1>14, <1>15, <1>16, <1>17, <1>18, <1>20, <1>21, <1>22 DEF Sound

---------------------------------------------------------------------------
(***************************************************************************)
(* A proof: the tasks it spawns.                                           *)
(***************************************************************************)
LEMMA MinOfThree ==
    ASSUME NEW a \in Int, NEW b \in Int, NEW c \in Int, NEW m, m = Min({a, b, c})
    PROVE  m \in {a, b, c} /\ m <= a /\ m <= b /\ m <= c
<1>1. \E x \in {a, b, c} : \A y \in {a, b, c} : x <= y
    OBVIOUS
<1>2. m \in {a, b, c} /\ \A y \in {a, b, c} : m <= y
    BY <1>1 DEF Min
<1> QED
    BY <1>2

LEMMA MaxOfTwo ==
    ASSUME NEW a \in Int, NEW b \in Int, NEW m, m = Max({a, b})
    PROVE  m \in {a, b} /\ m >= a /\ m >= b
<1>1. \E x \in {a, b} : \A y \in {a, b} : x >= y
    OBVIOUS
<1>2. m \in {a, b} /\ \A y \in {a, b} : m >= y
    BY <1>1 DEF Max
<1> QED
    BY <1>2

\* The links followed fit below the limits.
LEMMA FollowedIsBounded ==
    ASSUME NEW s, NEW id, NEW links, NEW k, k = Followed(s, id, links),
           Cardinality(NewLinks(s, id, links)) \in Nat, NEW a \in Nat,
           a = Cardinality(ActiveAutonomous(s)), a <= PendingTaskLimit
    PROVE  /\ k \in Nat /\ k <= LinksPerProof /\ a + k <= PendingTaskLimit
           /\ k # 0 => ~(s.tasks[id].autonomous /\ s.tasks[id].depth >= MaxDepth)
<1>1. LinksPerProof \in Nat /\ PendingTaskLimit \in Nat
    BY FrontierAssumption
<1>2. CASE s.tasks[id].autonomous /\ s.tasks[id].depth >= MaxDepth
    <2>1. k = 0
        BY <1>2 DEF Followed
    <2> QED
        BY <1>1, <2>1
<1>3. CASE ~(s.tasks[id].autonomous /\ s.tasks[id].depth >= MaxDepth)
    <2>1. PICK l, m : /\ l = Cardinality(NewLinks(s, id, links)) /\ l \in Nat
                      /\ m = Max({0, PendingTaskLimit - a})
        OBVIOUS
    <2>2. m = PendingTaskLimit - a /\ m \in Nat
        <3>1. PICK z \in Int : z = PendingTaskLimit - a
            BY <1>1
        <3>2. m = Max({0, z}) /\ 0 \in Int
            BY <2>1, <3>1
        <3>3. m \in {0, z} /\ m >= 0 /\ m >= z
            BY <3>2, MaxOfTwo
        <3> QED
            BY <1>1, <3>1, <3>3
    <2>3. PICK p \in Nat : p = LinksPerProof
        BY <1>1
    <2>4. k \in {l, p, m} /\ k <= p /\ k <= m
        <3>1. k = Min({l, p, m})
            BY <1>3, <2>1, <2>3 DEF Followed
        <3>2. l \in Int /\ p \in Int /\ m \in Int
            BY <2>1, <2>2
        <3> QED
            BY <3>1, <3>2, MinOfThree
    <2>5. k \in Nat /\ k <= LinksPerProof /\ a + k <= PendingTaskLimit
        BY <1>1, <2>1, <2>2, <2>3, <2>4
    <2> QED
        BY <1>3, <2>5
<1> QED
    BY <1>2, <1>3

LEMMA ChildFacts ==
    ASSUME NEW id \in Ids, NEW u \in Links, NEW c, c = Append(id, u)
    PROVE  /\ c \in Ids /\ Len(c) = Len(id) + 1 /\ Len(id) \in Nat
           /\ SubSeq(c, 1, Len(id)) = id /\ c[Len(c)] = u
<1>1. PICK S : S = {t.hash : t \in Txs} \cup Links
    OBVIOUS
<1>2. id \in Seq(S) /\ u \in S
    BY <1>1 DEF Ids
<1>3. /\ c \in Seq(S) /\ Len(c) = Len(id) + 1 /\ c[Len(id) + 1] = u
      /\ \A i \in 1 .. Len(id) : c[i] = id[i]
    BY <1>2, AppendProperties
<1>4. Len(id) \in Nat
    BY <1>2
<1>5. SubSeq(c, 1, Len(id)) = id
    <2>1. PICK q : q = SubSeq(c, 1, Len(id))
        OBVIOUS
    <2>2. q \in Seq(S) /\ Len(q) = Len(id) /\ \A i \in 1 .. Len(id) : q[i] = c[i]
        BY <1>2, <1>3, <1>4, <2>1
    <2>3. \A i \in 1 .. Len(id) : q[i] = id[i]
        BY <1>3, <2>2
    <2>4. q = id
        BY <1>2, <2>2, <2>3, SeqEqual
    <2> QED
        BY <2>1, <2>4
<1> QED
    BY <1>1, <1>3, <1>4, <1>5 DEF Ids

LEMMA ChildrenAreFew ==
    ASSUME NEW id, NEW links, IsFiniteSet(links), NEW C, C = {Append(id, u) : u \in links}
    PROVE  IsFiniteSet(C) /\ Cardinality(C) <= Cardinality(links)
<1>1. PICK f : f = [u \in links |-> Append(id, u)]
    OBVIOUS
<1>2. f \in Surjection(links, C)
    BY <1>1 DEF Surjection
<1> QED
    BY <1>2, FS_Surjection

\* Tasks that promise nothing need no cover.
LEMMA SpawnedIsCovered ==
    ASSUME NEW s, StateTypeOK(s), Covered(s), NEW n, StateTypeOK(n), NEW C, IsFiniteSet(C),
           C \cap DOMAIN s.tasks = {}, DOMAIN n.tasks = DOMAIN s.tasks \cup C,
           \A x \in DOMAIN s.tasks : n.tasks[x] = s.tasks[x],
           \A x \in C : ~n.tasks[x].completed /\ n.tasks[x].reward = 0,
           n.balances = s.balances
    PROVE  Covered(n)
<1>1. PICK f, A, e, B : f = Rewards(s) /\ A = Active(s) /\ e = Rewards(n) /\ B = Active(n)
    OBVIOUS
<1>2. /\ IsFiniteSet(A) /\ SumFunction(f) = SumFunctionOnSet(f, A)
      /\ \A x \in A : f[x] = s.tasks[x].reward /\ f[x] \in Nat
    BY <1>1, RewardsAddUp
<1>3. /\ SumFunction(e) = SumFunctionOnSet(e, B)
      /\ \A x \in B : e[x] = n.tasks[x].reward /\ e[x] \in Nat
    BY <1>1, RewardsAddUp
<1>4. B = A \cup C /\ A \subseteq DOMAIN s.tasks
    BY <1>1 DEF Active
<1>5. \A x \in A : e[x] = f[x]
    <2>1. SUFFICES ASSUME NEW x \in A PROVE e[x] = f[x]
        OBVIOUS
    <2>2. x \in B /\ n.tasks[x] = s.tasks[x]
        BY <1>4
    <2> QED
        BY <1>2, <1>3, <2>2
<1>6. SumFunctionOnSet(e, A) = SumFunctionOnSet(f, A)
    BY <1>2, <1>5, SumOfEquals
<1>7. SumFunctionOnSet(e, A \cup C) = SumFunctionOnSet(e, A)
    <2>1. \A x \in A : e[x] \in Int
        BY <1>3, <1>4
    <2>2. \A x \in C : e[x] = 0
        BY <1>3, <1>4
    <2> QED
        BY <1>2, <2>1, <2>2, SumWithZeros
<1>8. SumFunction(e) = SumFunction(f)
    BY <1>2, <1>3, <1>4, <1>6, <1>7
<1> QED
    BY <1>1, <1>8 DEF Covered

LEMMA SpawningIsSound ==
    ASSUME NEW s, Sound(s), NEW id \in DOMAIN s.tasks, s.tasks[id].completed,
           ChildrenOf(s, id) = {}, NEW page \in Pages,
           NEW links \in kSubset(Followed(s, id, page.links), NewLinks(s, id, page.links)),
           NEW n, n = Spawned(s, id, links)
    PROVE  Sound(n) /\ Keeps(s, n)
<1>1. StateTypeOK(s) /\ TasksHaveOrigin(s) /\ HasFields(s) /\ IsMap(s.tasks, Ids, TaskRecords)
    BY DEF Sound, StateTypeOK
<1>2. /\ id \in Ids /\ s.tasks[id].submitter \in Users /\ s.tasks[id].depth \in Nat
      /\ Len(id) \in Nat /\ Len(id) >= 1
    BY <1>1, TaskFacts, OriginFacts
<1>3. PICK k, N, C : /\ k = Followed(s, id, page.links) /\ N = NewLinks(s, id, page.links)
                     /\ C = {Append(id, u) : u \in links}
    OBVIOUS
<1>4. /\ links \subseteq N /\ Cardinality(links) = k
      /\ N \subseteq page.links /\ page.links \subseteq Links /\ IsFiniteSet(page.links)
    BY <1>3, PagesAssumption DEF kSubset, NewLinks, Links
<1>5. /\ \A u \in links : u \in Links /\ u \notin DOMAIN s.index
      /\ \A u \in links : \A a \in Active(s) : s.tasks[a].url # u
    BY <1>3, <1>4 DEF NewLinks
<1>6. IsFiniteSet(links) /\ IsFiniteSet(N)
    BY <1>4, FS_Subset
<1>7. PICK A : A = ActiveAutonomous(s)
    OBVIOUS
<1>8. A \subseteq DOMAIN s.tasks /\ IsFiniteSet(A) /\ Cardinality(A) \in Nat
    <2>1. A \subseteq DOMAIN s.tasks /\ IsFiniteSet(DOMAIN s.tasks)
        BY <1>1, <1>7 DEF ActiveAutonomous, Active, IsMap
    <2> QED
        BY <2>1, FS_Subset, FS_CardinalityType
<1>9. /\ k \in Nat /\ k <= LinksPerProof /\ Cardinality(A) + k <= PendingTaskLimit
      /\ k # 0 => ~(s.tasks[id].autonomous /\ s.tasks[id].depth >= MaxDepth)
    <2>1. PICK a \in Nat : a = Cardinality(A)
        BY <1>8
    <2>2. a <= PendingTaskLimit
        BY <1>7, <2>1 DEF Sound, FewOpen
    <2>3. Cardinality(NewLinks(s, id, page.links)) \in Nat
        BY <1>3, <1>6, FS_CardinalityType
    <2>4. /\ k \in Nat /\ k <= LinksPerProof /\ a + k <= PendingTaskLimit
          /\ k # 0 => ~(s.tasks[id].autonomous /\ s.tasks[id].depth >= MaxDepth)
        BY <1>3, <1>7, <2>1, <2>2, <2>3, FollowedIsBounded
    <2> QED
        BY <2>1, <2>4
<1>10. IsFiniteSet(C) /\ Cardinality(C) \in Nat /\ Cardinality(C) <= k
    BY <1>3, <1>4, <1>6, ChildrenAreFew, FS_CardinalityType
<1>11. \A c \in C : /\ c \in Ids /\ Len(c) = Len(id) + 1 /\ SubSeq(c, 1, Len(id)) = id
                    /\ c[Len(c)] \in links /\ c = Append(id, c[Len(c)])
    <2>1. SUFFICES ASSUME NEW u \in links, NEW c, c = Append(id, u)
                   PROVE  /\ c \in Ids /\ Len(c) = Len(id) + 1 /\ SubSeq(c, 1, Len(id)) = id
                          /\ c[Len(c)] = u
        BY <1>3
    <2>2. u \in Links
        BY <1>5
    <2> QED
        BY <1>2, <2>1, <2>2, ChildFacts
<1>12. C \cap DOMAIN s.tasks = {}
    BY <1>11 DEF ChildrenOf
<1>13. PICK tasks : tasks = [x \in DOMAIN s.tasks \cup C |->
                IF x \in C
                THEN TaskRecord(s.tasks[id].submitter, x[Len(x)], 0, TRUE, s.tasks[id].depth + 1)
                ELSE s.tasks[x]]
    OBVIOUS
<1>14. /\ HasFields(n) /\ n.tasks = tasks
       /\ n.balances = s.balances /\ n.nonces = s.nonces /\ n.index = s.index
       /\ n.mentions = s.mentions /\ n.names = s.names /\ n.burned = s.burned
       /\ DOMAIN tasks = DOMAIN s.tasks \cup C
       /\ \A x \in DOMAIN s.tasks : x \notin C => tasks[x] = s.tasks[x]
       /\ \A x \in C : tasks[x] =
            TaskRecord(s.tasks[id].submitter, x[Len(x)], 0, TRUE, s.tasks[id].depth + 1)
    <2>1. n = [s EXCEPT !.tasks = tasks]
        BY <1>3, <1>13 DEF Spawned
    <2>2. /\ HasFields(n) /\ n.tasks = tasks
          /\ n.balances = s.balances /\ n.nonces = s.nonces /\ n.index = s.index
          /\ n.mentions = s.mentions /\ n.names = s.names /\ n.burned = s.burned
        BY <1>1, <2>1 DEF HasFields
    <2>3. DOMAIN tasks = DOMAIN s.tasks \cup C
        BY <1>13
    <2>4. \A x \in DOMAIN s.tasks : x \notin C => tasks[x] = s.tasks[x]
        BY <1>13
    <2>5. \A x \in C : tasks[x] =
            TaskRecord(s.tasks[id].submitter, x[Len(x)], 0, TRUE, s.tasks[id].depth + 1)
        BY <1>13
    <2> QED
        BY <2>2, <2>3, <2>4, <2>5
<1>15. \A x \in DOMAIN s.tasks : tasks[x] = s.tasks[x] /\ x \in DOMAIN tasks
    BY <1>12, <1>14
<1>16. \A x \in C : /\ tasks[x] \in TaskRecords /\ tasks[x].url = x[Len(x)]
                    /\ tasks[x].reward = 0 /\ tasks[x].autonomous = TRUE
                    /\ tasks[x].completed = FALSE /\ tasks[x].depth = s.tasks[id].depth + 1
    <2>1. SUFFICES ASSUME NEW x \in C
                   PROVE  /\ tasks[x] \in TaskRecords /\ tasks[x].url = x[Len(x)]
                          /\ tasks[x].reward = 0 /\ tasks[x].autonomous = TRUE
                          /\ tasks[x].completed = FALSE /\ tasks[x].depth = s.tasks[id].depth + 1
        OBVIOUS
    <2>2. PICK u \in Urls, b \in Users, d \in Nat :
                u = x[Len(x)] /\ b = s.tasks[id].submitter /\ d = s.tasks[id].depth + 1
        BY <1>2, <1>5, <1>11 DEF Urls
    <2>3. tasks[x] = TaskRecord(b, u, 0, TRUE, d)
        BY <1>14, <2>2
    <2>4. PICK q : q = TaskRecord(b, u, 0, TRUE, d)
        OBVIOUS
    <2>5. /\ q.url = u /\ q.reward = 0 /\ q.autonomous = TRUE /\ q.completed = FALSE /\ q.depth = d
          /\ q \in TaskRecords
        BY <2>4 DEF TaskRecord, TaskRecords
    <2> QED
        BY <2>2, <2>3, <2>4, <2>5
<1>17. IsMap(tasks, Ids, TaskRecords)
    <2>1. DOMAIN tasks \subseteq Ids
        BY <1>1, <1>11, <1>14 DEF IsMap
    <2>2. IsFiniteSet(DOMAIN tasks)
        <3>1. IsFiniteSet(DOMAIN s.tasks)
            BY <1>1 DEF IsMap
        <3>2. IsFiniteSet(DOMAIN s.tasks \cup C)
            BY <1>10, <3>1, FS_Union
        <3> QED
            BY <1>14, <3>2
    <2>3. tasks \in [DOMAIN tasks -> TaskRecords]
        <3>1. \A x \in DOMAIN tasks : tasks[x] \in TaskRecords
            BY <1>1, <1>14, <1>15, <1>16 DEF IsMap
        <3>2. tasks = [x \in DOMAIN tasks |-> tasks[x]]
            BY <1>13
        <3> QED
            BY <3>1, <3>2
    <2> QED
        BY <2>1, <2>2, <2>3 DEF IsMap
<1>18. StateTypeOK(n)
    BY <1>1, <1>14, <1>17 DEF StateTypeOK
<1>19. TasksHaveOrigin(n)
    <2>1. SUFFICES ASSUME NEW x \in DOMAIN tasks
                   PROVE  /\ IF tasks[x].autonomous THEN IsSpawned(n, x) ELSE IsAsked(n, x)
                          /\ tasks[x].completed => tasks[x].url \in DOMAIN s.index
        BY <1>14 DEF TasksHaveOrigin
    <2>2. CASE x \in DOMAIN s.tasks
        <3>1. tasks[x] = s.tasks[x]
            BY <1>15, <2>2
        <3>2. /\ IF s.tasks[x].autonomous THEN IsSpawned(s, x) ELSE IsAsked(s, x)
              /\ s.tasks[x].completed => s.tasks[x].url \in DOMAIN s.index
            BY <1>1, <2>2 DEF TasksHaveOrigin
        <3>3. IsSpawned(s, x) => IsSpawned(n, x)
            <4>1. PICK q : q = SubSeq(x, 1, Len(x) - 1)
                OBVIOUS
            <4>2. q \in DOMAIN s.tasks => q \in DOMAIN tasks /\ tasks[q] = s.tasks[q]
                BY <1>15
            <4> QED
                BY <1>14, <3>1, <4>1, <4>2 DEF IsSpawned
        <3>4. IsAsked(s, x) => IsAsked(n, x)
            BY <1>14, <3>1 DEF IsAsked
        <3> QED
            BY <3>1, <3>2, <3>3, <3>4
    <2>3. CASE x \in C
        <3>1. /\ Len(x) = Len(id) + 1 /\ SubSeq(x, 1, Len(id)) = id
              /\ tasks[x].reward = 0 /\ tasks[x].autonomous = TRUE
              /\ tasks[x].completed = FALSE /\ tasks[x].depth = s.tasks[id].depth + 1
            BY <1>11, <1>16, <2>3
        <3>2. Len(x) > 1 /\ Len(x) - 1 = Len(id)
            BY <1>2, <3>1
        <3>3. tasks[id] = s.tasks[id] /\ id \in DOMAIN tasks
            BY <1>15
        <3>4. SubSeq(x, 1, Len(x) - 1) = id
            BY <3>1, <3>2
        <3>5. s.tasks[id].depth + 1 <= Max({1, MaxDepth})
            <4>1. PICK m : m = Max({1, MaxDepth})
                OBVIOUS
            <4>2. PICK z \in Nat : z = MaxDepth
                BY FrontierAssumption
            <4>3. m \in {1, z} /\ m >= 1 /\ m >= z
                <5>1. 1 \in Int /\ z \in Int /\ m = Max({1, z})
                    BY <4>1, <4>2
                <5> QED
                    BY <5>1, MaxOfTwo
            <4>4. k # 0
                BY <1>10, <2>3, FS_EmptySet
            <4>5. CASE s.tasks[id].autonomous
                <5>1. PICK d \in Nat : d = s.tasks[id].depth
                    BY <1>2
                <5>2. ~(d >= MaxDepth)
                    BY <1>9, <4>4, <4>5, <5>1
                <5>3. d + 1 <= m
                    BY <4>2, <4>3, <5>1, <5>2
                <5> QED
                    BY <4>1, <5>1, <5>3
            <4>6. CASE ~s.tasks[id].autonomous
                <5>1. IsAsked(s, id)
                    BY <1>1, <4>6, OriginFacts
                <5>2. s.tasks[id].depth = 0
                    BY <5>1 DEF IsAsked
                <5> QED
                    BY <4>1, <4>3, <5>2
            <4> QED
                BY <4>5, <4>6
        <3>6. IsSpawned(n, x)
            BY <1>14, <3>1, <3>2, <3>3, <3>4, <3>5 DEF IsSpawned
        <3> QED
            BY <3>1, <3>6
    <2> QED
        BY <1>14, <2>2, <2>3
<1>20. Balanced(n)
    BY <1>14 DEF Sound, Balanced
<1>21. Covered(n)
    <2>1. Covered(s) /\ DOMAIN n.tasks = DOMAIN s.tasks \cup C /\ n.balances = s.balances
        BY <1>14 DEF Sound
    <2>2. \A x \in DOMAIN s.tasks : n.tasks[x] = s.tasks[x]
        BY <1>14, <1>15
    <2>3. \A x \in C : ~n.tasks[x].completed /\ n.tasks[x].reward = 0
        BY <1>14, <1>16
    <2> QED
        BY <1>1, <1>10, <1>12, <1>18, <2>1, <2>2, <2>3, SpawnedIsCovered
<1>22. Counted(n)
    <2>1. \A w : Counts(n, w) = Counts(s, w)
        BY <1>14 DEF Counts
    <2> QED
        BY <1>14, <2>1 DEF Sound, Counted
<1>23. EachUrlOnce(n)
    <2>1. Autonomous(n) = Autonomous(s) \cup C
        BY <1>14, <1>15, <1>16 DEF Autonomous
    <2>2. \A i \in Autonomous(s) : tasks[i].url = s.tasks[i].url /\ tasks[i].url \notin links
        <3>1. SUFFICES ASSUME NEW i \in Autonomous(s), s.tasks[i].url \in links PROVE FALSE
            BY <1>15 DEF Autonomous
        <3>2. i \in DOMAIN s.tasks
            BY DEF Autonomous
        <3>3. CASE s.tasks[i].completed
            BY <1>1, <1>5, <3>1, <3>2, <3>3 DEF TasksHaveOrigin
        <3>4. CASE ~s.tasks[i].completed
            BY <1>5, <3>1, <3>2, <3>4 DEF Active
        <3> QED
            BY <3>3, <3>4
    <2>3. \A i \in C : tasks[i].url \in links /\ i = Append(id, tasks[i].url)
        BY <1>11, <1>16
    <2>4. SUFFICES ASSUME NEW i \in Autonomous(s) \cup C, NEW j \in Autonomous(s) \cup C,
                          tasks[i].url = tasks[j].url
                   PROVE  i = j
        BY <1>14, <2>1 DEF EachUrlOnce
    <2>5. CASE i \in C /\ j \in C
        BY <2>3, <2>4, <2>5
    <2>6. CASE i \in Autonomous(s) /\ j \in Autonomous(s)
        <3>1. s.tasks[i].url = s.tasks[j].url
            BY <2>2, <2>4, <2>6
        <3> QED
            BY <2>6, <3>1 DEF Sound, EachUrlOnce
    <2> QED
        BY <2>2, <2>3, <2>4, <2>5, <2>6
<1>24. FewOpen(n)
    <2>1. ActiveAutonomous(n) = A \cup C
        BY <1>7, <1>14, <1>15, <1>16 DEF ActiveAutonomous, Active
    <2>2. Cardinality(A \cup C) = Cardinality(A) + Cardinality(C) - Cardinality(A \cap C)
        BY <1>8, <1>10, FS_Union
    <2>3. Cardinality(A \cap C) \in Nat
        <3>1. IsFiniteSet(A \cap C)
            BY <1>8, FS_Subset
        <3> QED
            BY <3>1, FS_CardinalityType
    <2>4. PICK a \in Nat, c \in Nat, i \in Nat :
                a = Cardinality(A) /\ c = Cardinality(C) /\ i = Cardinality(A \cap C)
        BY <1>8, <1>10, <2>3
    <2>5. a + c - i <= PendingTaskLimit
        BY <1>9, <1>10, <2>4, FrontierAssumption
    <2> QED
        BY <2>1, <2>2, <2>4, <2>5 DEF FewOpen
<1>25. FewChildren(n)
    <2>1. SUFFICES ASSUME NEW x \in DOMAIN tasks
                   PROVE  Cardinality(ChildrenOf(n, x)) <= LinksPerProof
        BY <1>14 DEF FewChildren
    <2>2. CASE x = id
        <3>1. ChildrenOf(n, x) \subseteq C
            BY <1>14, <2>2 DEF ChildrenOf
        <3>2. Cardinality(ChildrenOf(n, x)) <= Cardinality(C) /\ Cardinality(ChildrenOf(n, x)) \in Nat
            BY <1>10, <3>1, FS_Subset, FS_CardinalityType
        <3> QED
            BY <1>9, <1>10, <3>2, FrontierAssumption
    <2>3. CASE x \in C
        <3>1. x \in Ids /\ Len(x) >= 1 /\ ~n.tasks[x].completed
            BY <1>2, <1>11, <1>14, <1>16, <2>3
        <3>2. ChildrenOf(n, x) = {}
            BY <1>18, <1>19, <3>1, NoChildren
        <3>3. Cardinality(ChildrenOf(n, x)) = 0
            BY <3>2, FS_EmptySet
        <3> QED
            BY <3>3, FrontierAssumption
    <2>4. CASE x \in DOMAIN s.tasks /\ x # id
        <3>1. ChildrenOf(n, x) = ChildrenOf(s, x)
            <4>1. ASSUME NEW c \in C, Len(c) = Len(x) + 1, SubSeq(c, 1, Len(x)) = x PROVE FALSE
                <5>1. Len(x) \in Nat
                    BY <1>1, <2>4, OriginFacts
                <5>2. Len(c) = Len(id) + 1 /\ SubSeq(c, 1, Len(id)) = id
                    BY <1>11
                <5>3. Len(x) = Len(id)
                    <6>1. Len(x) + 1 = Len(id) + 1
                        BY <4>1, <5>2
                    <6> QED
                        BY <1>2, <5>1, <6>1
                <5> QED
                    BY <2>4, <4>1, <5>2, <5>3
            <4> QED
                BY <1>14, <4>1 DEF ChildrenOf
        <3> QED
            BY <2>4, <3>1 DEF Sound, FewChildren
    <2> QED
        BY <1>14, <2>2, <2>3, <2>4
<1>26. Keeps(s, n)
    <2>1. \A u \in Users : s.nonces[u] \in Nat
        BY <1>1 DEF StateTypeOK
    <2> QED
        BY <1>14, <1>15, <2>1 DEF Keeps
<1> QED
    BY <1>18, <1>19, <1>20, <1>21, <1>22, <1>23, <1>24, <1>25, <1>26 DEF Sound

---------------------------------------------------------------------------
(***************************************************************************)
(* The invariant: both snapshots are sound, and the draft keeps what the   *)
(* tip's state has settled.                                                *)
(***************************************************************************)
IInv == Sound(state) /\ Sound(draft) /\ Keeps(state, draft)

LEMMA KeepsItself ==
    ASSUME NEW s, Sound(s)
    PROVE  Keeps(s, s)
<1>1. \A u \in Users : s.nonces[u] \in Nat
    BY DEF Sound, StateTypeOK
<1> QED
    BY <1>1 DEF Keeps

LEMMA KeepsIsTransitive ==
    ASSUME NEW s, NEW t, NEW n, Sound(s), Sound(t), Sound(n), Keeps(s, t), Keeps(t, n)
    PROVE  Keeps(s, n)
<1>1. \A u \in Users : s.nonces[u] \in Nat /\ t.nonces[u] \in Nat /\ n.nonces[u] \in Nat
    BY DEF Sound, StateTypeOK
<1>2. \A u \in Users : n.nonces[u] >= s.nonces[u]
    <2>1. SUFFICES ASSUME NEW u \in Users PROVE n.nonces[u] >= s.nonces[u]
        OBVIOUS
    <2>2. n.nonces[u] >= t.nonces[u] /\ t.nonces[u] >= s.nonces[u]
        BY DEF Keeps
    <2> QED
        BY <1>1, <2>2
<1>3. \A id \in DOMAIN s.tasks : /\ id \in DOMAIN n.tasks
                                 /\ s.tasks[id].completed => n.tasks[id] = s.tasks[id]
    <2>1. SUFFICES ASSUME NEW id \in DOMAIN s.tasks
                   PROVE  /\ id \in DOMAIN n.tasks
                          /\ s.tasks[id].completed => n.tasks[id] = s.tasks[id]
        OBVIOUS
    <2>2. id \in DOMAIN t.tasks /\ (s.tasks[id].completed => t.tasks[id] = s.tasks[id])
        BY DEF Keeps
    <2>3. id \in DOMAIN n.tasks /\ (t.tasks[id].completed => n.tasks[id] = t.tasks[id])
        BY <2>2 DEF Keeps
    <2> QED
        BY <2>2, <2>3
<1>4. \A x \in DOMAIN s.names : x \in DOMAIN n.names /\ n.names[x] = s.names[x]
    BY DEF Keeps
<1>5. DOMAIN s.index \subseteq DOMAIN n.index
    BY DEF Keeps
<1> QED
    BY <1>2, <1>3, <1>4, <1>5 DEF Keeps

LEMMA GenesisIsSound == Sound(Genesis)
<1>1. PICK s : s = Genesis
    OBVIOUS
<1>2. /\ HasFields(s) /\ s.balances = Endowment /\ s.nonces = [u \in Users |-> 0]
      /\ s.tasks = <<>> /\ s.index = <<>> /\ s.names = <<>>
      /\ s.mentions = [w \in Terms |-> 0] /\ s.burned = 0
    BY <1>1 DEF Genesis, HasFields
<1>3. \A D, R : IsMap(<<>>, D, R) /\ DOMAIN <<>> = {}
    <2>1. DOMAIN <<>> = {} /\ IsFiniteSet({})
        BY FS_EmptySet
    <2> QED
        BY <2>1 DEF IsMap
<1>4. StateTypeOK(s)
    BY <1>2, <1>3, EndowmentAssumption DEF StateTypeOK
<1>5. DOMAIN s.tasks = {} /\ DOMAIN s.index = {}
    BY <1>2, <1>3
<1>6. TasksHaveOrigin(s) /\ EachUrlOnce(s) /\ FewChildren(s)
    BY <1>5 DEF TasksHaveOrigin, EachUrlOnce, Autonomous, FewChildren
<1>7. Balanced(s)
    <2>1. \A x \in Accounts : Endowment[x] \in Int
        BY EndowmentAssumption
    <2>2. SumFunctionOnSet(Endowment, Accounts) \in Int /\ DOMAIN Endowment = Accounts
        BY <2>1, AccountsAreFinite, SumTakesOut, EndowmentAssumption
    <2>3. SumFunction(Endowment) \in Int
        BY <2>2 DEF SumFunction
    <2> QED
        BY <1>2, <2>3 DEF Balanced
<1>8. Covered(s)
    <2>1. DOMAIN Rewards(s) = {}
        BY <1>5 DEF Rewards, Active
    <2>2. SumFunction(Rewards(s)) = 0
        BY <2>1, NoSum DEF SumFunction
    <2>3. s.balances[Escrow] \in Nat
        BY <1>4, AccountsAreApart DEF StateTypeOK
    <2> QED
        BY <2>2, <2>3 DEF Covered
<1>9. Counted(s)
    <2>1. SUFFICES ASSUME NEW w \in Terms PROVE s.mentions[w] = SumFunction(Counts(s, w))
        BY DEF Counted
    <2>2. DOMAIN Counts(s, w) = {}
        BY <1>5 DEF Counts
    <2>3. SumFunction(Counts(s, w)) = 0
        BY <2>2, NoSum DEF SumFunction
    <2> QED
        BY <1>2, <2>3
<1>10. FewOpen(s)
    <2>1. ActiveAutonomous(s) = {}
        BY <1>5 DEF ActiveAutonomous, Active
    <2>2. Cardinality(ActiveAutonomous(s)) = 0
        BY <2>1, FS_EmptySet
    <2> QED
        BY <2>2, FrontierAssumption DEF FewOpen
<1> QED
    BY <1>1, <1>4, <1>6, <1>7, <1>8, <1>9, <1>10 DEF Sound

LEMMA CrawlIsSound ==
    ASSUME NEW s, Sound(s), NEW id \in DOMAIN s.tasks, Provable(s, id, s.tasks[id].reward),
           NEW miner \in Miners, NEW page \in Pages, NEW t, t = Settled(s, id, miner, page),
           NEW links \in kSubset(Followed(t, id, page.links), NewLinks(t, id, page.links)),
           NEW n, n = Spawned(t, id, links)
    PROVE  Sound(n) /\ Keeps(s, n)
<1>1. /\ Sound(t) /\ Keeps(s, t)
      /\ id \in DOMAIN t.tasks /\ t.tasks[id].completed /\ ChildrenOf(t, id) = {}
    BY SettlementIsSound
<1>2. Sound(n) /\ Keeps(t, n)
    BY <1>1, SpawningIsSound
<1> QED
    BY <1>1, <1>2, KeepsIsTransitive

LEMMA DraftStep ==
    ASSUME IInv, UNCHANGED state, Sound(draft'), Keeps(draft, draft')
    PROVE  IInv'
<1>1. Keeps(state, draft')
    BY KeepsIsTransitive DEF IInv
<1> QED
    BY <1>1 DEF IInv

LEMMA StepKeepsInvariant ==
    ASSUME IInv, [Next]_vars
    PROVE  IInv'
<1>1. Sound(draft) /\ Sound(state)
    BY DEF IInv
<1>2. CASE UNCHANGED vars
    BY <1>2 DEF IInv, vars
<1>3. ASSUME NEW t \in Txs, Transfer(t) PROVE IInv'
    <2>1. Sound(draft') /\ Keeps(draft, draft')
        BY <1>1, <1>3, TransferIsSound DEF Transfer
    <2> QED
        BY <1>3, <2>1, DraftStep DEF Transfer
<1>4. ASSUME NEW t \in Txs, RegisterName(t) PROVE IInv'
    <2>1. Sound(draft') /\ Keeps(draft, draft')
        BY <1>1, <1>4, RegistrationIsSound DEF RegisterName
    <2> QED
        BY <1>4, <2>1, DraftStep DEF RegisterName
<1>5. ASSUME NEW t \in Txs, SetNote(t) PROVE IInv'
    <2>1. Sound(draft') /\ Keeps(draft, draft')
        BY <1>1, <1>5, NoteIsSound DEF SetNote
    <2> QED
        BY <1>5, <2>1, DraftStep DEF SetNote
<1>6. ASSUME NEW t \in Txs, SearchTask(t) PROVE IInv'
    <2>1. Sound(draft') /\ Keeps(draft, draft')
        BY <1>1, <1>6, SearchIsSound DEF SearchTask
    <2> QED
        BY <1>6, <2>1, DraftStep DEF SearchTask
<1>7. ASSUME NEW t \in Txs, DeployContract(t) PROVE IInv'
    <2>1. Sound(draft') /\ Keeps(draft, draft')
        BY <1>1, <1>7, DeploymentIsSound DEF DeployContract
    <2> QED
        BY <1>7, <2>1, DraftStep DEF DeployContract
<1>8. ASSUME NEW id \in DOMAIN draft.tasks, NEW miner \in Miners, NEW page \in Pages,
             CrawlProof(id, miner, draft.tasks[id].reward, page)
      PROVE  IInv'
    <2>1. PICK t : t = Settled(draft, id, miner, page)
        OBVIOUS
    <2>2. PICK links \in kSubset(Followed(t, id, page.links), NewLinks(t, id, page.links)) :
                draft' = Spawned(t, id, links)
        BY <1>8, <2>1 DEF CrawlProof
    <2>3. Provable(draft, id, draft.tasks[id].reward)
        BY <1>8 DEF CrawlProof
    <2>4. Sound(draft') /\ Keeps(draft, draft')
        BY <1>1, <2>1, <2>2, <2>3, CrawlIsSound
    <2> QED
        BY <1>8, <2>4, DraftStep DEF CrawlProof
<1>9. CASE CommitBlock
    <2>1. state' = draft /\ draft' = draft
        BY <1>9 DEF CommitBlock
    <2>2. Keeps(draft, draft)
        BY <1>1, KeepsItself
    <2> QED
        BY <1>1, <2>1, <2>2 DEF IInv
<1>10. CASE RejectBlock
    <2>1. state' = state /\ draft' = state
        BY <1>10 DEF RejectBlock
    <2>2. Keeps(state, state)
        BY <1>1, KeepsItself
    <2> QED
        BY <1>1, <2>1, <2>2 DEF IInv
<1> QED
    BY <1>2, <1>3, <1>4, <1>5, <1>6, <1>7, <1>8, <1>9, <1>10 DEF Next

LEMMA SoundAlways == Spec => []IInv
<1>1. ASSUME Init PROVE IInv
    BY <1>1, GenesisIsSound, KeepsItself DEF Init, IInv
<1> QED
    BY <1>1, StepKeepsInvariant, PTL DEF Spec

---------------------------------------------------------------------------
(***************************************************************************)
(* Work.                                                                   *)
(***************************************************************************)

\* Sums of larger values are larger.
LEMMA SumGrows ==
    ASSUME NEW f, NEW e, NEW V, IsFiniteSet(V),
           \A x \in V : f[x] \in Nat /\ e[x] \in Nat /\ f[x] <= e[x]
    PROVE  SumFunctionOnSet(f, V) <= SumFunctionOnSet(e, V)
<1> DEFINE Bad == {T \in SUBSET V : ~(SumFunctionOnSet(f, T) <= SumFunctionOnSet(e, T))}
<1>1. SUFFICES ASSUME Bad # {} PROVE FALSE
    <2>1. V \in SUBSET V
        OBVIOUS
    <2> QED
        BY <1>1, <2>1
<1>2. PICK S \in Bad : \A T \in Bad : T \subseteq S => T = S
    <2>1. PICK F : F = Bad
        OBVIOUS
    <2>2. F \subseteq SUBSET V /\ F # {}
        BY <1>1, <2>1
    <2>3. \E S \in F : \A T \in F : T \subseteq S => T = S
        BY <2>2, SmallestSet
    <2> HIDE DEF Bad
    <2> QED
        BY <2>1, <2>3
<1>3. IsFiniteSet(S) /\ S \in SUBSET V
    BY FS_Subset
<1>4. CASE S = {}
    BY <1>4, NoSum
<1>5. CASE S # {}
    <2>1. PICK x \in S : TRUE
        BY <1>5
    <2>2. S \ {x} \in SUBSET V /\ S \ {x} # S
        BY <2>1
    <2>3. SumFunctionOnSet(f, S \ {x}) <= SumFunctionOnSet(e, S \ {x})
        BY <1>2, <2>2
    <2>4. (\A y \in S : f[y] \in Int) /\ (\A y \in S : e[y] \in Int)
        BY <1>3
    <2>5. SumFunctionOnSet(f, S) = f[x] + SumFunctionOnSet(f, S \ {x})
        BY <1>3, <2>4, SumTakesOut
    <2>6. SumFunctionOnSet(e, S) = e[x] + SumFunctionOnSet(e, S \ {x})
        BY <1>3, <2>4, SumTakesOut
    <2>7. SumFunctionOnSet(f, S \ {x}) \in Int /\ SumFunctionOnSet(e, S \ {x}) \in Int
        <3>1. IsFiniteSet(S \ {x}) /\ (\A y \in S \ {x} : f[y] \in Int)
              /\ (\A y \in S \ {x} : e[y] \in Int)
            BY <1>3, <2>4, FS_Subset
        <3> QED
            BY <3>1, SumTakesOut
    <2>8. PICK a \in Int, b \in Int, c \in Int, d \in Int :
              /\ a = f[x] /\ b = SumFunctionOnSet(f, S \ {x})
              /\ c = e[x] /\ d = SumFunctionOnSet(e, S \ {x})
        BY <2>4, <2>7
    <2>9. a <= c /\ b <= d
        BY <1>3, <2>1, <2>3, <2>8
    <2> QED
        BY <2>5, <2>6, <2>8, <2>9
<1> QED
    BY <1>4, <1>5

\* Ones add up to the number of elements.
LEMMA SumOfOnes ==
    ASSUME NEW f, NEW V, IsFiniteSet(V), \A x \in V : f[x] = 1
    PROVE  SumFunctionOnSet(f, V) = Cardinality(V)
<1> DEFINE Bad == {T \in SUBSET V : SumFunctionOnSet(f, T) # Cardinality(T)}
<1>1. SUFFICES ASSUME Bad # {} PROVE FALSE
    <2>1. V \in SUBSET V
        OBVIOUS
    <2> QED
        BY <1>1, <2>1
<1>2. PICK S \in Bad : \A T \in Bad : T \subseteq S => T = S
    <2>1. PICK F : F = Bad
        OBVIOUS
    <2>2. F \subseteq SUBSET V /\ F # {}
        BY <1>1, <2>1
    <2>3. \E S \in F : \A T \in F : T \subseteq S => T = S
        BY <2>2, SmallestSet
    <2> HIDE DEF Bad
    <2> QED
        BY <2>1, <2>3
<1>3. IsFiniteSet(S) /\ S \in SUBSET V
    BY FS_Subset
<1>4. CASE S = {}
    BY <1>4, NoSum, FS_EmptySet
<1>5. CASE S # {}
    <2>1. PICK x \in S : TRUE
        BY <1>5
    <2>2. S \ {x} \in SUBSET V /\ S \ {x} # S
        BY <2>1
    <2>3. SumFunctionOnSet(f, S \ {x}) = Cardinality(S \ {x})
        BY <1>2, <2>2
    <2>4. \A y \in S : f[y] \in Int
        BY <1>3
    <2>5. SumFunctionOnSet(f, S) = f[x] + SumFunctionOnSet(f, S \ {x})
        BY <1>3, <2>4, SumTakesOut
    <2>6. Cardinality(S \ {x}) = Cardinality(S) - 1 /\ Cardinality(S) \in Nat
        BY <1>3, <2>1, FS_RemoveElement, FS_CardinalityType
    <2>7. f[x] = 1
        BY <1>3, <2>1
    <2> QED
        BY <2>3, <2>5, <2>6, <2>7
<1> QED
    BY <1>4, <1>5

LEMMA ProductGrows ==
    ASSUME NEW c \in Nat, NEW a \in Nat, NEW b \in Nat, a <= b
    PROVE  c * a \in Nat /\ c * b \in Nat /\ c * a <= c * b
    OBVIOUS

\* The roundings down and up of basis points keep the order.
LEMMA RoundingsGrow ==
    ASSUME NEW a \in Nat, NEW b \in Nat, a <= b
    PROVE  /\ a \div BPS \in Nat /\ b \div BPS \in Nat /\ a \div BPS <= b \div BPS
           /\ (a + BPS - 1) \div BPS \in Nat /\ (b + BPS - 1) \div BPS \in Nat
           /\ (a + BPS - 1) \div BPS <= (b + BPS - 1) \div BPS
    BY DEF BPS

LEMMA ComposeGrows ==
    ASSUME NEW c \in Nat, NEW a \in Nat, NEW b \in Nat, a <= b
    PROVE  /\ Compose(c, a) \in Nat /\ Compose(c, b) \in Nat /\ Compose(c, a) <= Compose(c, b)
           /\ Compose(a, c) \in Nat /\ Compose(b, c) \in Nat /\ Compose(a, c) <= Compose(b, c)
<1>1. PICK x \in Nat, y \in Nat : x = c * a /\ y = c * b /\ x <= y
    BY ProductGrows
<1>2. x = a * c /\ y = b * c
    BY <1>1
<1> QED
    BY <1>1, <1>2, RoundingsGrow DEF Compose

\* A penalty never adds to a proof's weight.
LEMMA PenaltyIsSmall ==
    ASSUME NEW n \in Nat, NEW floor \in Nat, floor <= BPS
    PROVE  occurrencePenaltyBPS(n, floor) \in Nat /\ occurrencePenaltyBPS(n, floor) <= BPS
<1>1. CASE n <= 1
    BY <1>1 DEF occurrencePenaltyBPS, BPS
<1>2. CASE n > 1
    <2>1. PICK q : q = BPS \div n
        OBVIOUS
    <2>2. q \in Nat /\ q <= BPS
        BY <1>2, <2>1 DEF BPS
    <2> QED
        BY <1>2, <2>1, <2>2 DEF occurrencePenaltyBPS, Greater
<1> QED
    BY <1>1, <1>2

LEMMA QualityIsNatural ==
    ASSUME NEW terms \in Nat, NEW bytes \in Nat
    PROVE  usefulProofQualityBPS(terms, bytes) \in Nat
    BY DEF usefulProofQualityBPS, Lesser, BPS, maxProofWorkUniqueTerms, proofWorkTermBoostBPS,
           maxProofWorkBodyBytes, proofWorkBodyChunkBytes, maxProofWorkBodyBoostBPS

\* A proof weighs at least one unit, and most when nothing in its block
\* repeats its host or its submitter.
LEMMA RepetitionCosts ==
    ASSUME NEW d \in Nat, NEW q \in Nat, NEW h \in Nat, NEW s \in Nat
    PROVE  /\ computeUsefulProofWork(d, q, h, s) \in Nat
           /\ computeUsefulProofWork(d, q, h, s) >= 1
           /\ computeUsefulProofWork(d, q, h, s) <= computeUsefulProofWork(d, q, 1, s)
           /\ computeUsefulProofWork(d, q, 1, s) <= computeUsefulProofWork(d, q, 1, 1)
           /\ computeUsefulProofWork(d, q, 1, s) \in Nat
           /\ computeUsefulProofWork(d, q, 1, 1) \in Nat
<1>1. PICK p \in Nat, r \in Nat :
          /\ p = occurrencePenaltyBPS(h, maxProofWorkHostPenaltyFloorBPS) /\ p <= BPS
          /\ r = occurrencePenaltyBPS(s, maxProofWorkSubmitterPenaltyFloorBPS) /\ r <= BPS
    <2>1. /\ maxProofWorkHostPenaltyFloorBPS \in Nat /\ maxProofWorkHostPenaltyFloorBPS <= BPS
          /\ maxProofWorkSubmitterPenaltyFloorBPS \in Nat
          /\ maxProofWorkSubmitterPenaltyFloorBPS <= BPS
        BY DEF maxProofWorkHostPenaltyFloorBPS, maxProofWorkSubmitterPenaltyFloorBPS, BPS
    <2> QED
        BY <2>1, PenaltyIsSmall
<1>2. /\ occurrencePenaltyBPS(1, maxProofWorkHostPenaltyFloorBPS) = BPS
      /\ occurrencePenaltyBPS(1, maxProofWorkSubmitterPenaltyFloorBPS) = BPS
      /\ BPS \in Nat
    BY DEF occurrencePenaltyBPS, BPS
<1>3. PICK u \in Nat, v \in Nat : u = Compose(q, p) /\ v = Compose(q, BPS) /\ u <= v
    <2>1. /\ Compose(q, p) \in Nat /\ Compose(q, BPS) \in Nat
          /\ Compose(q, p) <= Compose(q, BPS)
        BY <1>1, <1>2, ComposeGrows
    <2> QED
        BY <2>1
<1>4. PICK x \in Nat, y \in Nat, z \in Nat :
          x = Compose(u, r) /\ y = Compose(v, r) /\ z = Compose(v, BPS) /\ x <= y /\ y <= z
    <2>1. Compose(u, r) \in Nat /\ Compose(v, r) \in Nat /\ Compose(u, r) <= Compose(v, r)
        BY <1>3, ComposeGrows
    <2>2. Compose(v, BPS) \in Nat /\ Compose(v, r) <= Compose(v, BPS)
        BY <1>1, <1>2, ComposeGrows
    <2> QED
        BY <2>1, <2>2
<1>5. PICK g \in Nat : g = Greater(d, 1)
    BY DEF Greater
<1>6. PICK i \in Nat, j \in Nat, k \in Nat :
          /\ i = ApplyBasisPoints(g, x) /\ j = ApplyBasisPoints(g, y) /\ k = ApplyBasisPoints(g, z)
          /\ i <= j /\ j <= k
    <2>1. PICK a \in Nat, b \in Nat, c \in Nat : a = g * x /\ b = g * y /\ c = g * z /\ a <= b /\ b <= c
        BY <1>4, ProductGrows
    <2>2. /\ a \div BPS \in Nat /\ b \div BPS \in Nat /\ c \div BPS \in Nat
          /\ a \div BPS <= b \div BPS /\ b \div BPS <= c \div BPS
        BY <2>1, RoundingsGrow
    <2> QED
        BY <2>1, <2>2 DEF ApplyBasisPoints
<1>7. /\ Weighted(d, q, h, s) = i
      /\ Weighted(d, q, 1, s) = j
      /\ Weighted(d, q, 1, 1) = k
    BY <1>1, <1>2, <1>3, <1>4, <1>5, <1>6 DEF Weighted
<1> QED
    BY <1>6, <1>7 DEF computeUsefulProofWork, Greater

\* The proofs of a block are finitely many, each with a crawled page.
ProofsCarryPages == IsFiniteSet(proofs) /\ \A p \in proofs : p.page \in Pages

LEMMA CrawledPages == Spec => []ProofsCarryPages
<1>1. Init => ProofsCarryPages
    BY FS_EmptySet DEF Init, ProofsCarryPages
<1>2. ASSUME ProofsCarryPages, [Next]_vars PROVE ProofsCarryPages'
    <2>1. CASE proofs' \in {proofs, {}}
        BY <1>2, <2>1, FS_EmptySet DEF ProofsCarryPages
    <2>2. ASSUME NEW id, NEW miner, NEW page \in Pages, NEW reward,
                 CrawlProof(id, miner, reward, page)
          PROVE  ProofsCarryPages'
        <3>1. PICK p : p = [task |-> id, page |-> page] /\ proofs' = proofs \cup {p}
            BY <2>2 DEF CrawlProof
        <3>2. p.page = page
            BY <3>1
        <3>3. IsFiniteSet(proofs \cup {p})
            BY <1>2, FS_AddElement DEF ProofsCarryPages
        <3> QED
            BY <1>2, <3>1, <3>2, <3>3 DEF ProofsCarryPages
    <2> QED
        BY <1>2, <2>1, <2>2 DEF Next, vars, Transfer, RegisterName, SetNote, SearchTask,
                                DeployContract, CommitBlock, RejectBlock
<1> QED
    BY <1>1, <1>2, PTL DEF Spec

LEMMA ProofWorkFacts ==
    ASSUME ProofsCarryPages, NEW p \in proofs
    PROVE  LET w == ProofWork(p, HostOccurrences(p), SubmitterOccurrences(p))
               single == ProofWork(p, 1, SubmitterOccurrences(p))
           IN  /\ w \in Nat /\ single \in Nat /\ w >= 1 /\ w <= single
               /\ w <= ProofWork(p, 1, 1)
<1>1. PICK h \in Nat : h = HostOccurrences(p)
    <2>1. IsFiniteSet({q \in proofs : HostOf[draft.tasks[q.task].url] = HostOf[draft.tasks[p.task].url]})
        BY FS_Subset DEF ProofsCarryPages
    <2> QED
        BY <2>1, FS_CardinalityType DEF HostOccurrences
<1>2. PICK s \in Nat : s = SubmitterOccurrences(p)
    <2>1. IsFiniteSet({q \in proofs : draft.tasks[q.task].submitter = draft.tasks[p.task].submitter})
        BY FS_Subset DEF ProofsCarryPages
    <2> QED
        BY <2>1, FS_CardinalityType DEF SubmitterOccurrences
<1>3. PICK q \in Nat : q = usefulProofQualityBPS(Cardinality(Words(p.page)), p.page.bytes)
    <2>1. Cardinality(Words(p.page)) \in Nat /\ p.page.bytes \in Nat
        BY PagesAssumption, FS_CardinalityType DEF ProofsCarryPages
    <2> QED
        BY <2>1, QualityIsNatural
<1>4. PICK d \in Nat : d = IF draft.tasks[p.task].autonomous THEN 0 ELSE Difficulty
    BY DifficultyAssumption
<1>5. \A m, n : ProofWork(p, m, n) = computeUsefulProofWork(d, q, m, n)
    BY <1>3, <1>4 DEF ProofWork
<1>6. PICK x \in Nat, y \in Nat, z \in Nat :
          /\ x = computeUsefulProofWork(d, q, h, s) /\ y = computeUsefulProofWork(d, q, 1, s)
          /\ z = computeUsefulProofWork(d, q, 1, 1)
          /\ x >= 1 /\ x <= y /\ y <= z
    BY RepetitionCosts
<1> QED
    BY <1>1, <1>2, <1>5, <1>6

LEMMA TransactionWorkFacts ==
    ASSUME IInv
    PROVE  TransactionCount \in Int /\ TransactionWork \in Int /\ TransactionWork >= TransactionCount
<1>1. StateTypeOK(state) /\ StateTypeOK(draft)
    BY DEF IInv, Sound
<1>2. ASSUME NEW s, StateTypeOK(s) PROVE SumFunction(s.nonces) \in Int
    <2>1. DOMAIN s.nonces = Users /\ \A u \in Users : s.nonces[u] \in Int
        BY <1>2 DEF StateTypeOK
    <2> QED
        BY <2>1, SumTakesOut, AccountsAssumption DEF SumFunction
<1>3. TransactionCount \in Int
    BY <1>1, <1>2 DEF TransactionCount
<1>4. SearchTaskCount \in Nat
    <2>1. IsFiniteSet(DOMAIN draft.tasks)
        BY <1>1 DEF StateTypeOK, IsMap
    <2>2. IsFiniteSet({id \in DOMAIN draft.tasks \ DOMAIN state.tasks : ~draft.tasks[id].autonomous})
        BY <2>1, FS_Subset
    <2> QED
        BY <2>2, FS_CardinalityType DEF SearchTaskCount
<1> QED
    BY <1>3, <1>4 DEF TransactionWork, searchTaskTxWorkUnits

---------------------------------------------------------------------------
(***************************************************************************)
(* Theorems.                                                               *)
(***************************************************************************)
LEMMA SoundSnapshot ==
    ASSUME NEW s, Sound(s)
    PROVE  /\ SumFunction(s.balances) + s.burned = SumFunction(Endowment)
           /\ \A x \in Accounts : s.balances[x] >= 0
           /\ s.balances[Escrow] >= SumFunction([id \in Active(s) |-> s.tasks[id].reward])
           /\ \A w \in Terms :
                s.mentions[w] = SumFunction([u \in DOMAIN s.index |-> s.index[u].counts[w]])
<1>1. \A x \in Accounts : s.balances[x] \in Nat
    BY DEF Sound, StateTypeOK
<1>2. \A x \in Accounts : s.balances[x] >= 0
    BY <1>1
<1>3. SumFunction(s.balances) + s.burned = SumFunction(Endowment)
    BY DEF Sound, Balanced
<1>4. s.balances[Escrow] >= SumFunction([id \in Active(s) |-> s.tasks[id].reward])
    BY DEF Sound, Covered, Rewards
<1>5. \A w \in Terms :
        s.mentions[w] = SumFunction([u \in DOMAIN s.index |-> s.index[u].counts[w]])
    BY DEF Sound, Counted, Counts
<1> QED
    BY <1>2, <1>3, <1>4, <1>5

LEMMA SoundFrontier ==
    ASSUME NEW s, Sound(s), NEW id \in DOMAIN s.tasks
    PROVE  /\ Cardinality({c \in DOMAIN s.tasks : Len(c) = Len(id) + 1
                                /\ SubSeq(c, 1, Len(id)) = id}) <= LinksPerProof
           /\ s.tasks[id].depth <= Max({1, MaxDepth})
           /\ s.tasks[id].autonomous =>
                LET parent == SubSeq(id, 1, Len(id) - 1) IN
                /\ parent \in DOMAIN s.tasks
                /\ s.tasks[parent].completed
                /\ s.tasks[id].depth = s.tasks[parent].depth + 1
<1>1. StateTypeOK(s) /\ TasksHaveOrigin(s)
    BY DEF Sound
<1>2. Cardinality(ChildrenOf(s, id)) <= LinksPerProof
    BY DEF Sound, FewChildren
<1>3. CASE s.tasks[id].autonomous
    <2>1. IsSpawned(s, id)
        BY <1>1, <1>3, OriginFacts
    <2> QED
        BY <1>2, <2>1 DEF IsSpawned, ChildrenOf
<1>4. CASE ~s.tasks[id].autonomous
    <2>1. s.tasks[id].depth = 0
        BY <1>1, <1>4, OriginFacts DEF IsAsked
    <2>2. PICK m : m = Max({1, MaxDepth})
        OBVIOUS
    <2>3. PICK z \in Nat : z = MaxDepth
        BY FrontierAssumption
    <2>4. 0 <= m
        <3>1. 1 \in Int /\ z \in Int /\ m = Max({1, z})
            BY <2>2, <2>3
        <3>2. m \in {1, z} /\ m >= 1 /\ m >= z
            BY <3>1, MaxOfTwo
        <3> QED
            BY <3>2
    <2> QED
        BY <1>2, <1>4, <2>1, <2>2, <2>4 DEF ChildrenOf
<1> QED
    BY <1>3, <1>4

(***************************************************************************)
(* The inductive invariant, for any users, transactions, pages and limits: *)
(* the types, where every task comes from, the four properties below, and  *)
(* that the draft keeps what the tip's state has settled.                  *)
(***************************************************************************)
THEOREM LedgerInvariant == Spec => []LedgerInv
<1>1. ASSUME IInv PROVE LedgerInv
    <2>1. \A s \in Snapshots : Sound(s)
        BY <1>1 DEF IInv, Snapshots
    <2>2. \A s \in Snapshots : StateTypeOK(s) /\ TasksHaveOrigin(s)
        BY <2>1 DEF Sound
    <2>3. SupplyIsConserved
        BY <2>1, SoundSnapshot DEF SupplyIsConserved
    <2>4. EscrowCoversOpenTasks
        BY <2>1, SoundSnapshot DEF EscrowCoversOpenTasks
    <2>5. MentionsMatchIndex
        BY <2>1, SoundSnapshot DEF MentionsMatchIndex
    <2>6. FrontierIsBounded
        <3>1. SUFFICES ASSUME NEW s \in Snapshots
                       PROVE  /\ \A i, j \in {id \in DOMAIN s.tasks : s.tasks[id].autonomous} :
                                    s.tasks[i].url = s.tasks[j].url => i = j
                              /\ Cardinality(ActiveAutonomous(s)) <= PendingTaskLimit
            BY <2>1, SoundFrontier DEF FrontierIsBounded
        <3>2. EachUrlOnce(s) /\ FewOpen(s)
            BY <2>1 DEF Sound
        <3> QED
            BY <3>2 DEF EachUrlOnce, Autonomous, FewOpen
    <2>7. Keeps(state, draft)
        BY <1>1 DEF IInv
    <2> QED
        BY <2>2, <2>3, <2>4, <2>5, <2>6, <2>7 DEF LedgerInv
<1> QED
    BY <1>1, SoundAlways, PTL

(***************************************************************************)
(* No transaction, proof or failed block makes or loses money, and nobody  *)
(* is overdrawn.                                                           *)
(***************************************************************************)
THEOREM MoneyIsConserved == Spec => []SupplyIsConserved
<1>1. LedgerInv => SupplyIsConserved
    BY DEF LedgerInv
<1> QED
    BY <1>1, LedgerInvariant, PTL

(***************************************************************************)
(* ApplyCrawlProof finds the bounty of every open task in escrow.          *)
(***************************************************************************)
THEOREM BountiesAreCovered == Spec => []EscrowCoversOpenTasks
<1>1. LedgerInv => EscrowCoversOpenTasks
    BY DEF LedgerInv
<1> QED
    BY <1>1, LedgerInvariant, PTL

(***************************************************************************)
(* The counts that price names are the counts of the indexed pages, also   *)
(* after pages were crawled again.                                         *)
(***************************************************************************)
THEOREM MentionsAreCounted == Spec => []MentionsMatchIndex
<1>1. LedgerInv => MentionsMatchIndex
    BY DEF LedgerInv
<1> QED
    BY <1>1, LedgerInvariant, PTL

(***************************************************************************)
(* The autonomous crawl stays within its limits and visits a URL once.     *)
(***************************************************************************)
THEOREM FrontierStaysBounded == Spec => []FrontierIsBounded
<1>1. LedgerInv => FrontierIsBounded
    BY DEF LedgerInv
<1> QED
    BY <1>1, LedgerInvariant, PTL

(***************************************************************************)
(* No block pays a task twice, forgets one, takes a name from its owner,   *)
(* drops an indexed page or turns a nonce back.                            *)
(***************************************************************************)
THEOREM BlocksKeepWhatIsSettled == Spec => SettledIsFinal
<1>1. ASSUME IInv, [Next]_vars PROVE Keeps(state, state')
    <2>1. CASE state' = state
        BY <1>1, <2>1, KeepsItself DEF IInv
    <2>2. CASE CommitBlock
        BY <1>1, <2>2 DEF IInv, CommitBlock
    <2> QED
        BY <1>1, <2>1, <2>2 DEF Next, vars, Transfer, RegisterName, SetNote, SearchTask,
                                DeployContract, CrawlProof, RejectBlock
<1>2. IInv /\ [Next]_vars => [Keeps(state, state')]_vars
    BY <1>1
<1> QED
    BY <1>2, SoundAlways, PTL DEF Spec, SettledIsFinal

(***************************************************************************)
(* Whatever proofs a block bundles, for any pages, hosts, submitters and   *)
(* difficulty: each adds at least one unit to its work, and all of them    *)
(* together no more than from as many hosts or in blocks of their own.     *)
(***************************************************************************)
THEOREM BundlingIsDamped == Spec => []BundlingEarnsNoWork
<1>1. ASSUME IInv, ProofsCarryPages PROVE BundlingEarnsNoWork
    <2>1. PICK f : f = [p \in proofs |-> ProofWork(p, HostOccurrences(p), SubmitterOccurrences(p))]
        OBVIOUS
    <2>2. PICK e : e = [p \in proofs |-> ProofWork(p, 1, SubmitterOccurrences(p))]
        OBVIOUS
    <2>3. PICK one : one = [p \in proofs |-> 1]
        OBVIOUS
    <2>4. \A p \in proofs : f[p] \in Nat /\ e[p] \in Nat /\ f[p] <= e[p]
        BY <1>1, <2>1, <2>2, ProofWorkFacts
    <2>5. \A p \in proofs : one[p] \in Nat /\ f[p] \in Nat /\ one[p] <= f[p]
        BY <1>1, <2>1, <2>3, ProofWorkFacts
    <2>6. IsFiniteSet(proofs)
        BY <1>1 DEF ProofsCarryPages
    <2>7. PICK F \in Nat, E \in Nat :
              /\ F = SumFunctionOnSet(f, proofs) /\ E = SumFunctionOnSet(e, proofs)
              /\ F <= E /\ Cardinality(proofs) <= F
        <3>1. SumFunctionOnSet(f, proofs) <= SumFunctionOnSet(e, proofs)
            BY <2>4, <2>6, SumGrows
        <3>2. SumFunctionOnSet(one, proofs) <= SumFunctionOnSet(f, proofs)
            BY <2>5, <2>6, SumGrows
        <3>3. SumFunctionOnSet(one, proofs) = Cardinality(proofs)
            BY <2>3, <2>6, SumOfOnes
        <3>4. SumFunctionOnSet(f, proofs) \in Nat /\ SumFunctionOnSet(e, proofs) \in Nat
            BY <2>4, <2>6, SumOfNaturals
        <3> QED
            BY <3>1, <3>2, <3>3, <3>4
    <2>8. computeBlockWork = TransactionWork + F
        BY <2>1, <2>7 DEF computeBlockWork, SumFunction
    <2>9. E = SumFunction([p \in proofs |-> ProofWork(p, 1, SubmitterOccurrences(p))])
        BY <2>2, <2>7 DEF SumFunction
    <2>10. PICK c \in Nat : c = Cardinality(proofs)
        BY <2>6, FS_CardinalityType
    <2>11. PICK n \in Int, w \in Int : n = TransactionCount /\ w = TransactionWork /\ w >= n
        BY <1>1, TransactionWorkFacts
    <2>12. computeBlockWork >= TransactionCount + Cardinality(proofs)
        BY <2>7, <2>8, <2>10, <2>11
    <2>13. computeBlockWork - TransactionWork <= E
        BY <2>7, <2>8, <2>11
    <2>14. \A p \in proofs :
               ProofWork(p, HostOccurrences(p), SubmitterOccurrences(p)) <= ProofWork(p, 1, 1)
        BY <1>1, ProofWorkFacts
    <2> QED
        BY <2>9, <2>12, <2>13, <2>14 DEF BundlingEarnsNoWork
<1> QED
    BY <1>1, SoundAlways, CrawledPages, PTL
=============================================================================
