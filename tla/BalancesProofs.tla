---------------------------- MODULE BalancesProofs ---------------------------
(* Table wallet_balance is the ledger, for any contracts, wallets, tokens,   *)
(* ids and amounts.  The library has no theorem about its sums that could be *)
(* used here, so the first half proves what the second needs of them.        *)
EXTENDS BalancesProperties, FiniteSetTheorems, WellFoundedInduction, TLAPS

-----------------------------------------------------------------------------
(* Induction, as facts about sets of numbers and of sets.                    *)

LEMMA LeastOf ==
    ASSUME NEW T \in SUBSET Nat, T # {}
    PROVE  \E x \in T : \A y \in T : x <= y
<1>1. \A x, y \in Nat : y < x => <<y, x>> \in OpToRel(<, Nat)
  BY Zenon DEF OpToRel
<1>2. IsWellFoundedOn(OpToRel(<, Nat), Nat)
  BY NatLessThanWellFounded, Zenon
<1>3. PICK x \in T : \A y \in T : ~(<<y, x>> \in OpToRel(<, Nat))
  BY <1>2, WFMin, Zenon
<1>4. \A y \in T : x \in Nat /\ y \in Nat /\ ~(y < x)
  BY <1>1, <1>3, Zenon
<1>5. \A y \in T : x <= y
  BY <1>4
<1> QED
  BY <1>5

\* What holds of 0 and of the number after each it holds of, holds of all.
LEMMA Counting ==
    ASSUME NEW T \in SUBSET Nat, 0 \in T, \A n \in T : n + 1 \in T
    PROVE  T = Nat
<1> SUFFICES ASSUME Nat \ T # {} PROVE FALSE
  OBVIOUS
<1>1. PICK m \in Nat \ T : \A n \in Nat \ T : m <= n
  BY LeastOf
<1>2. m # 0 /\ m - 1 \in Nat
  BY <1>1
<1>3. m - 1 \in T
  BY <1>1, <1>2
<1> QED
  BY <1>1, <1>3

\* What holds of the empty set, and of a set with one more element than one it
\* holds of, holds of every finite set.
LEMMA Growing ==
    ASSUME NEW S, IsFiniteSet(S), NEW F \in SUBSET SUBSET S, {} \in F,
           \A s \in F, x \in S : s \cup {x} \in F
    PROVE  S \in F
<1> DEFINE T == {n \in Nat : \A s \in SUBSET S : Cardinality(s) = n => s \in F}
<1>1. \A s \in SUBSET S : IsFiniteSet(s) /\ Cardinality(s) \in Nat
  BY FS_Subset, FS_CardinalityType
<1>2. 0 \in T
  BY <1>1, FS_EmptySet
<1>3. ASSUME NEW n \in T, NEW s \in SUBSET S, Cardinality(s) = n + 1
      PROVE  s \in F
  <2>0. n \in Nat /\ IsFiniteSet(s) /\ Cardinality({}) = 0
    BY <1>1, FS_EmptySet
  <2>1. s # {}
    BY <1>3, <2>0
  <2>2. PICK x \in s : TRUE
    BY <2>1
  <2>3. Cardinality(s \ {x}) = n /\ s \ {x} \in SUBSET S
    <3>1. Cardinality(s \ {x}) = Cardinality(s) - 1
      BY <2>0, FS_RemoveElement
    <3> QED
      BY <1>3, <2>0, <3>1
  <2>4. s \ {x} \in F /\ x \in S
    BY <2>3
  <2>5. (s \ {x}) \cup {x} = s
    OBVIOUS
  <2>6. (s \ {x}) \cup {x} \in F
    BY <2>4
  <2> QED
    BY <2>5, <2>6
<1>4. T = Nat
  <2>1. T \in SUBSET Nat /\ \A n \in T : n + 1 \in T
    BY <1>3
  <2> HIDE DEF T
  <2> QED
    BY <1>2, <2>1, Counting
<1>5. S \in SUBSET S /\ Cardinality(S) \in T
  BY <1>1, <1>4
<1> QED
  BY <1>5

-----------------------------------------------------------------------------
(* Sums of a function over a finite set.                                     *)

Pick(s) == CHOOSE x \in s : TRUE

\* g is the function by which Folds defines a sum.
Unfolded(g, f, s) ==
    g[s] = IF s = {} THEN 0 ELSE f[Pick(s)] + g[s \ {Pick(s)}]

Sums(g, f, S) ==
    g = [s \in SUBSET S |-> IF s = {} THEN 0
                            ELSE f[Pick(s)] + g[s \ {Pick(s)}]]

LEMMA Picked ==
    ASSUME NEW S, IsFiniteSet(S), NEW s \in SUBSET S
    PROVE  /\ IsFiniteSet(s) /\ Cardinality(s) \in Nat
           /\ s = {} <=> Cardinality(s) = 0
           /\ s # {} => /\ Pick(s) \in s
                        /\ s \ {Pick(s)} \in SUBSET S
                        /\ Cardinality(s \ {Pick(s)}) = Cardinality(s) - 1
<1>1. IsFiniteSet(s) /\ Cardinality(s) \in Nat
  BY FS_Subset, FS_CardinalityType
<1>2. s # {} => Pick(s) \in s
  BY DEF Pick
<1> QED
  BY <1>1, <1>2, FS_EmptySet, FS_RemoveElement

LEMMA PickedOf ==
    ASSUME NEW S, IsFiniteSet(S), NEW s \in SUBSET S,
           NEW n \in Nat, Cardinality(s) = n + 1
    PROVE  /\ s # {} /\ IsFiniteSet(s) /\ Pick(s) \in s /\ Pick(s) \in S
           /\ s \ {Pick(s)} \in SUBSET S
           /\ Cardinality(s \ {Pick(s)}) = n
<1>1. s = {} <=> Cardinality(s) = 0
  BY Picked
<1>2. s # {}
  BY <1>1
<1> QED
  BY <1>2, Picked

LEMMA SumsExist ==
    ASSUME NEW S, IsFiniteSet(S), NEW f
    PROVE  \E g : Sums(g, f, S)
<1> DEFINE Upto(n) == {s \in SUBSET S : Cardinality(s) <= n}
           T == {n \in Nat : \E g : \A s \in Upto(n) : Unfolded(g, f, s)}
<1>1. 0 \in T
  <2> DEFINE g == [s \in SUBSET S |-> 0]
  <2>1. ASSUME NEW s \in Upto(0) PROVE s = {} /\ g[s] = 0
    <3>1. s \in SUBSET S /\ Cardinality(s) <= 0
      OBVIOUS
    <3>2. Cardinality(s) \in Nat /\ (s = {} <=> Cardinality(s) = 0)
      BY <3>1, Picked
    <3> QED
      BY <3>1, <3>2
  <2> QED
    BY <2>1 DEF Unfolded
<1>2. ASSUME NEW n \in T PROVE n + 1 \in T
  <2>1. PICK g : \A s \in Upto(n) : Unfolded(g, f, s)
    OBVIOUS
  <2> DEFINE h == [s \in SUBSET S |-> IF Cardinality(s) <= n THEN g[s]
                                      ELSE f[Pick(s)] + g[s \ {Pick(s)}]]
  <2>2. ASSUME NEW s \in Upto(n + 1)
        PROVE  Unfolded(h, f, s)
    <3>1. CASE s = {}
      <4>0. n \in Nat /\ s \in SUBSET S /\ Cardinality(s) = 0
        BY <3>1, Picked
      <4>1. s \in Upto(n) /\ h[s] = g[s]
        BY <4>0
      <4> QED
        BY <2>1, <3>1, <4>1 DEF Unfolded
    <3>2. CASE s # {}
      <4>0. PICK r : r = s \ {Pick(s)}
        OBVIOUS
      <4>1. r \in Upto(n) /\ h[r] = g[r]
        <5>1. s \in SUBSET S /\ Cardinality(s) <= n + 1 /\ n \in Nat
          OBVIOUS
        <5>2. /\ Cardinality(s) \in Nat /\ r \in SUBSET S
              /\ Cardinality(r) = Cardinality(s) - 1
          BY <3>2, <4>0, <5>1, Picked
        <5>3. Cardinality(r) <= n
          BY <5>1, <5>2
        <5> QED
          BY <5>2, <5>3
      <4>2. h[s] = f[Pick(s)] + g[s \ {Pick(s)}]
        <5>1. CASE s \in Upto(n)
          BY <2>1, <3>2, <5>1 DEF Unfolded
        <5>2. CASE s \notin Upto(n)
          BY <5>2
        <5> QED
          BY <5>1, <5>2
      <4> HIDE DEF h
      <4> QED
        BY <3>2, <4>0, <4>1, <4>2 DEF Unfolded
    <3> QED
      BY <3>1, <3>2
  <2>3. \E k : \A s \in Upto(n + 1) : Unfolded(k, f, s)
    <3> HIDE DEF h
    <3> QED
      BY <2>2
  <2> QED
    BY <2>3
<1>3. T = Nat
  <2>1. T \in SUBSET Nat /\ \A n \in T : n + 1 \in T
    BY <1>2
  <2> HIDE DEF T
  <2> QED
    BY <1>1, <2>1, Counting
<1>4. PICK g : \A s \in SUBSET S : Unfolded(g, f, s)
  <2>1. Cardinality(S) \in T
    BY <1>3, Picked
  <2>2. SUBSET S = Upto(Cardinality(S))
    BY FS_Subset
  <2> QED
    BY <2>1, <2>2
<1> DEFINE h == [s \in SUBSET S |-> g[s]]
<1>5. ASSUME NEW s \in SUBSET S
      PROVE  h[s] = IF s = {} THEN 0 ELSE f[Pick(s)] + h[s \ {Pick(s)}]
  <2>1. s # {} => h[s \ {Pick(s)}] = g[s \ {Pick(s)}]
    BY Picked
  <2> QED
    BY <1>4, <2>1 DEF Unfolded
<1>6. Sums(h, f, S)
  <2>1. h = [s \in SUBSET S |-> h[s]]
    OBVIOUS
  <2> HIDE DEF h
  <2> QED
    BY <1>5, <2>1 DEF Sums
<1> QED
  BY <1>6

LEMMA SumsAgree ==
    ASSUME NEW S, IsFiniteSet(S), NEW T, S \in SUBSET T,
           NEW f, NEW e, \A x \in S : f[x] = e[x],
           NEW g, Sums(g, f, S), NEW h, Sums(h, e, T)
    PROVE  \A s \in SUBSET S : g[s] = h[s]
<1> DEFINE N == {n \in Nat : \A s \in SUBSET S :
                                Cardinality(s) = n => g[s] = h[s]}
<1>1. \A s \in SUBSET S : Unfolded(g, f, s) /\ Unfolded(h, e, s)
  BY DEF Sums, Unfolded
<1>2. 0 \in N
  <2>1. \A s \in SUBSET S : Cardinality(s) = 0 => s = {}
    BY Picked
  <2> QED
    BY <1>1, <2>1 DEF Unfolded
<1>3. ASSUME NEW n \in N, NEW s \in SUBSET S, Cardinality(s) = n + 1
      PROVE  g[s] = h[s]
  <2>1. /\ s # {} /\ Pick(s) \in S
        /\ s \ {Pick(s)} \in SUBSET S /\ Cardinality(s \ {Pick(s)}) = n
    <3> n \in Nat
      OBVIOUS
    <3> HIDE DEF N
    <3> QED
      BY <1>3, PickedOf
  <2>2. g[s \ {Pick(s)}] = h[s \ {Pick(s)}] /\ f[Pick(s)] = e[Pick(s)]
    BY <2>1
  <2> QED
    BY <1>1, <2>1, <2>2 DEF Unfolded
<1>4. N = Nat
  <2>1. N \in SUBSET Nat /\ \A n \in N : n + 1 \in N
    BY <1>3
  <2> HIDE DEF N
  <2> QED
    BY <1>2, <2>1, Counting
<1> QED
  BY <1>4, Picked

\* A sum is the value for S of a function that unfolds.
LEMMA SumUnfolds ==
    ASSUME NEW S, IsFiniteSet(S), NEW f
    PROVE  \E g : Sums(g, f, S) /\ SumFunctionOnSet(f, S) = g[S]
<1> DEFINE G == CHOOSE g : Sums(g, f, S)
<1>1. Sums(G, f, S)
  BY SumsExist
<1>2. SumFunctionOnSet(f, S) = G[S]
  BY Zenon DEF SumFunctionOnSet, FoldFunctionOnSet, MapThenFoldSet, Sums, Pick
<1> QED
  BY <1>1, <1>2

\* The sum depends only on the values that are summed.
LEMMA SumSame ==
    ASSUME NEW S, IsFiniteSet(S), NEW f, NEW e, \A x \in S : f[x] = e[x]
    PROVE  SumFunctionOnSet(f, S) = SumFunctionOnSet(e, S)
<1>1. PICK g : Sums(g, f, S) /\ SumFunctionOnSet(f, S) = g[S]
  BY SumUnfolds
<1>2. PICK h : Sums(h, e, S) /\ SumFunctionOnSet(e, S) = h[S]
  BY SumUnfolds
<1> QED
  BY <1>1, <1>2, SumsAgree

LEMMA SumEmpty ==
    ASSUME NEW f
    PROVE  SumFunctionOnSet(f, {}) = 0
<1>1. PICK g : Sums(g, f, {}) /\ SumFunctionOnSet(f, {}) = g[{}]
  BY SumUnfolds, FS_EmptySet
<1> QED
  BY <1>1 DEF Sums

LEMMA SumPick ==
    ASSUME NEW S, IsFiniteSet(S), S # {}, NEW f
    PROVE  SumFunctionOnSet(f, S)
               = f[Pick(S)] + SumFunctionOnSet(f, S \ {Pick(S)})
<1>0. PICK R : R = S \ {Pick(S)}
  OBVIOUS
<1>1. PICK g : Sums(g, f, S) /\ SumFunctionOnSet(f, S) = g[S]
  BY SumUnfolds
<1>2. R \in SUBSET S /\ IsFiniteSet(R)
  BY <1>0, FS_Subset
<1>3. PICK h : Sums(h, f, R) /\ SumFunctionOnSet(f, R) = h[R]
  BY <1>2, SumUnfolds
<1>4. h[R] = g[R]
  BY <1>1, <1>2, <1>3, SumsAgree
<1> QED
  BY <1>0, <1>1, <1>3, <1>4 DEF Sums

LEMMA SumType ==
    ASSUME NEW S, IsFiniteSet(S), NEW f, \A x \in S : f[x] \in Int
    PROVE  SumFunctionOnSet(f, S) \in Int
<1> DEFINE N == {n \in Nat : \A s \in SUBSET S : Cardinality(s) = n =>
                                SumFunctionOnSet(f, s) \in Int}
<1>1. 0 \in N
  <2>1. \A s \in SUBSET S : Cardinality(s) = 0 => s = {}
    BY Picked
  <2> QED
    BY <2>1, SumEmpty
<1>2. ASSUME NEW n \in N, NEW s \in SUBSET S, Cardinality(s) = n + 1
      PROVE  SumFunctionOnSet(f, s) \in Int
  <2>1. /\ s # {} /\ IsFiniteSet(s) /\ Pick(s) \in S
        /\ s \ {Pick(s)} \in SUBSET S /\ Cardinality(s \ {Pick(s)}) = n
    <3> n \in Nat
      OBVIOUS
    <3> HIDE DEF N
    <3> QED
      BY <1>2, PickedOf
  <2>2. SumFunctionOnSet(f, s \ {Pick(s)}) \in Int /\ f[Pick(s)] \in Int
    BY <2>1
  <2>3. SumFunctionOnSet(f, s)
            = f[Pick(s)] + SumFunctionOnSet(f, s \ {Pick(s)})
    BY <2>1, SumPick
  <2> QED
    BY <2>2, <2>3
<1>3. N = Nat
  <2>1. N \in SUBSET Nat /\ \A n \in N : n + 1 \in N
    BY <1>2
  <2> HIDE DEF N
  <2> QED
    BY <1>1, <2>1, Counting
<1> QED
  BY <1>3, Picked

\* Any element may be taken out first.
LEMMA SumRemove ==
    ASSUME NEW S, IsFiniteSet(S), NEW f, \A x \in S : f[x] \in Int
    PROVE  \A x \in S :
               SumFunctionOnSet(f, S) = f[x] + SumFunctionOnSet(f, S \ {x})
<1> DEFINE Sum(s) == SumFunctionOnSet(f, s)
           N == {n \in Nat : \A s \in SUBSET S : Cardinality(s) = n =>
                                \A x \in s : Sum(s) = f[x] + Sum(s \ {x})}
<1>0. \A s \in SUBSET S : Sum(s) \in Int
  BY SumType, FS_Subset
<1>1. 0 \in N
  <2>1. \A s \in SUBSET S : Cardinality(s) = 0 => s = {}
    BY Picked
  <2> QED
    BY <2>1
<1>2. ASSUME NEW n \in N, NEW s \in SUBSET S, Cardinality(s) = n + 1,
             NEW x \in s
      PROVE  Sum(s) = f[x] + Sum(s \ {x})
  <2>0. n \in Nat
    OBVIOUS
  <2>1. /\ s # {} /\ IsFiniteSet(s) /\ Pick(s) \in s
        /\ s \ {Pick(s)} \in SUBSET S /\ Cardinality(s \ {Pick(s)}) = n
    <3> HIDE DEF N, Sum
    <3> QED
      BY <1>2, <2>0, PickedOf
  <2>2. Sum(s) = f[Pick(s)] + Sum(s \ {Pick(s)})
    BY <2>1, SumPick
  <2>3. CASE x = Pick(s)
    BY <2>2, <2>3
  <2>4. CASE x # Pick(s)
    <3>1. PICK p \in s : p = Pick(s)
      BY <2>1
    <3>2. PICK r : r = s \ {x, p}
      OBVIOUS
    <3>3. /\ (s \ {p}) \ {x} = r /\ (s \ {x}) \ {p} = r
          /\ x \in s \ {p} /\ p \in s \ {x}
          /\ s \ {x} \in SUBSET S /\ r \in SUBSET S
      BY <2>4, <3>1, <3>2
    <3>4. Cardinality(s \ {x}) = n
      BY <1>2, <2>1, FS_RemoveElement
    <3>5. Sum(s \ {p}) = f[x] + Sum(r)
      BY <2>1, <3>1, <3>3
    <3>6. Sum(s \ {x}) = f[p] + Sum(r)
      BY <3>3, <3>4
    <3>7. Sum(r) \in Int /\ f[x] \in Int /\ f[p] \in Int
      BY <1>0, <3>1, <3>3
    <3> HIDE DEF Sum
    <3> QED
      BY <2>2, <3>1, <3>5, <3>6, <3>7
  <2> QED
    BY <2>3, <2>4
<1>3. N = Nat
  <2>1. N \in SUBSET Nat /\ \A n \in N : n + 1 \in N
    BY <1>2
  <2> HIDE DEF N
  <2> QED
    BY <1>1, <2>1, Counting
<1> QED
  BY <1>3, Picked

LEMMA SumAdd ==
    ASSUME NEW S, IsFiniteSet(S), NEW x, x \notin S,
           NEW f, \A y \in S \cup {x} : f[y] \in Int
    PROVE  SumFunctionOnSet(f, S \cup {x}) = f[x] + SumFunctionOnSet(f, S)
<1>1. PICK T : T = S \cup {x}
  OBVIOUS
<1>2. IsFiniteSet(T) /\ x \in T /\ T \ {x} = S /\ \A y \in T : f[y] \in Int
  BY <1>1, FS_AddElement
<1>3. SumFunctionOnSet(f, T) = f[x] + SumFunctionOnSet(f, T \ {x})
  BY <1>2, SumRemove
<1> QED
  BY <1>1, <1>2, <1>3

\* The sum of sums.
LEMMA SumPlus ==
    ASSUME NEW S, IsFiniteSet(S), NEW f, NEW e, NEW g,
           \A x \in S : f[x] \in Int /\ e[x] \in Int /\ g[x] = f[x] + e[x]
    PROVE  SumFunctionOnSet(g, S)
               = SumFunctionOnSet(f, S) + SumFunctionOnSet(e, S)
<1> DEFINE F == {s \in SUBSET S :
                    SumFunctionOnSet(g, s)
                        = SumFunctionOnSet(f, s) + SumFunctionOnSet(e, s)}
<1>1. {} \in F
  BY SumEmpty
<1>2. ASSUME NEW s \in F, NEW x \in S PROVE s \cup {x} \in F
  <2>1. CASE x \in s
    BY <2>1
  <2>2. CASE x \notin s
    <3>1. IsFiniteSet(s) /\ s \in SUBSET S /\ \A y \in s \cup {x} : y \in S
      BY FS_Subset
    <3>2. \A y \in s \cup {x} : f[y] \in Int /\ e[y] \in Int /\ g[y] \in Int
      BY <3>1
    <3>3. /\ SumFunctionOnSet(f, s) \in Int
          /\ SumFunctionOnSet(e, s) \in Int
          /\ SumFunctionOnSet(g, s) \in Int
      BY <3>1, <3>2, SumType
    <3>4. SumFunctionOnSet(f, s \cup {x}) = f[x] + SumFunctionOnSet(f, s)
      BY <2>2, <3>1, <3>2, SumAdd
    <3>5. SumFunctionOnSet(e, s \cup {x}) = e[x] + SumFunctionOnSet(e, s)
      BY <2>2, <3>1, <3>2, SumAdd
    <3>6. SumFunctionOnSet(g, s \cup {x}) = g[x] + SumFunctionOnSet(g, s)
      BY <2>2, <3>1, <3>2, SumAdd
    <3>7. SumFunctionOnSet(g, s)
              = SumFunctionOnSet(f, s) + SumFunctionOnSet(e, s)
      OBVIOUS
    <3>8. g[x] = f[x] + e[x] /\ f[x] \in Int /\ e[x] \in Int
      OBVIOUS
    <3>9. SumFunctionOnSet(g, s \cup {x})
              = SumFunctionOnSet(f, s \cup {x}) + SumFunctionOnSet(e, s \cup {x})
      BY <3>3, <3>4, <3>5, <3>6, <3>7, <3>8
    <3> QED
      BY <3>1, <3>9
  <2> QED
    BY <2>1, <2>2
<1>3. S \in F
  <2>1. F \in SUBSET SUBSET S /\ \A s \in F, x \in S : s \cup {x} \in F
    BY <1>2
  <2> HIDE DEF F
  <2> QED
    BY <1>1, <2>1, Growing
<1> QED
  BY <1>3

\* A sum may be taken in two parts.
LEMMA SumUnion ==
    ASSUME NEW R, IsFiniteSet(R), NEW S, IsFiniteSet(S), R \cap S = {},
           NEW f, \A x \in R \cup S : f[x] \in Int
    PROVE  SumFunctionOnSet(f, R \cup S)
               = SumFunctionOnSet(f, R) + SumFunctionOnSet(f, S)
<1> DEFINE F == {s \in SUBSET S :
                    SumFunctionOnSet(f, R \cup s)
                        = SumFunctionOnSet(f, R) + SumFunctionOnSet(f, s)}
<1>0. SumFunctionOnSet(f, R) \in Int
  BY SumType
<1>1. {} \in F
  <2>1. R \cup {} = R /\ SumFunctionOnSet(f, {}) = 0
    BY SumEmpty
  <2> QED
    BY <1>0, <2>1
<1>2. ASSUME NEW s \in F, NEW x \in S PROVE s \cup {x} \in F
  <2>1. CASE x \in s
    <3>1. s \cup {x} = s
      BY <2>1
    <3> QED
      BY <3>1
  <2>2. CASE x \notin s
    <3>1. IsFiniteSet(s) /\ s \in SUBSET S /\ \A y \in s \cup {x} : y \in S
      BY FS_Subset
    <3>2. PICK Q : Q = R \cup s
      OBVIOUS
    <3>3. IsFiniteSet(Q) /\ x \notin Q /\ Q \cup {x} = R \cup (s \cup {x})
      BY <2>2, <3>1, <3>2, FS_Union
    <3>4. \A y \in Q \cup {x} : f[y] \in Int
      BY <3>1, <3>2
    <3>5. SumFunctionOnSet(f, Q \cup {x}) = f[x] + SumFunctionOnSet(f, Q)
      BY <3>3, <3>4, SumAdd
    <3>6. SumFunctionOnSet(f, s \cup {x}) = f[x] + SumFunctionOnSet(f, s)
      BY <2>2, <3>1, SumAdd
    <3>7. SumFunctionOnSet(f, s) \in Int /\ f[x] \in Int
      BY <3>1, SumType
    <3>8. SumFunctionOnSet(f, Q)
              = SumFunctionOnSet(f, R) + SumFunctionOnSet(f, s)
      BY <3>2
    <3>9. SumFunctionOnSet(f, Q \cup {x})
              = SumFunctionOnSet(f, R) + SumFunctionOnSet(f, s \cup {x})
      BY <1>0, <3>5, <3>6, <3>7, <3>8
    <3> QED
      BY <3>1, <3>3, <3>9
  <2> QED
    BY <2>1, <2>2
<1>3. S \in F
  <2>1. F \in SUBSET SUBSET S /\ \A s \in F, x \in S : s \cup {x} \in F
    BY <1>2
  <2> HIDE DEF F
  <2> QED
    BY <1>1, <2>1, Growing
<1> QED
  BY <1>3

LEMMA SumOne ==
    ASSUME NEW x, NEW f, f[x] \in Int
    PROVE  SumFunctionOnSet(f, {x}) = f[x]
<1>1. {} \cup {x} = {x} /\ x \notin {} /\ \A y \in {} \cup {x} : f[y] \in Int
  OBVIOUS
<1>2. SumFunctionOnSet(f, {} \cup {x}) = f[x] + SumFunctionOnSet(f, {})
  BY <1>1, FS_EmptySet, SumAdd
<1> QED
  BY <1>1, <1>2, SumEmpty

\* What adds nothing may be added.
LEMMA SumZero ==
    ASSUME NEW S, IsFiniteSet(S), NEW f, \A x \in S : f[x] = 0
    PROVE  SumFunctionOnSet(f, S) = 0
<1> DEFINE F == {s \in SUBSET S : SumFunctionOnSet(f, s) = 0}
<1>1. {} \in F
  BY SumEmpty
<1>2. ASSUME NEW s \in F, NEW x \in S PROVE s \cup {x} \in F
  <2>1. CASE x \in s
    <3>1. s \cup {x} = s
      BY <2>1
    <3> QED
      BY <3>1
  <2>2. CASE x \notin s
    <3>1. IsFiniteSet(s) /\ \A y \in s \cup {x} : f[y] \in Int
      BY FS_Subset
    <3>2. SumFunctionOnSet(f, s \cup {x}) = f[x] + SumFunctionOnSet(f, s)
      BY <2>2, <3>1, SumAdd
    <3> QED
      BY <3>2
  <2> QED
    BY <2>1, <2>2
<1>3. S \in F
  <2>1. F \in SUBSET SUBSET S /\ \A s \in F, x \in S : s \cup {x} \in F
    BY <1>2
  <2> HIDE DEF F
  <2> QED
    BY <1>1, <2>1, Growing
<1> QED
  BY <1>3

LEMMA SumRestrict ==
    ASSUME NEW S, IsFiniteSet(S), NEW R \in SUBSET S, NEW f, NEW e,
           \A x \in R : f[x] \in Int /\ e[x] = f[x],
           \A x \in S \ R : e[x] = 0
    PROVE  SumFunctionOnSet(e, S) = SumFunctionOnSet(f, R)
<1>1. PICK Q : Q = S \ R
  OBVIOUS
<1>2. /\ IsFiniteSet(R) /\ IsFiniteSet(Q) /\ R \cap Q = {} /\ S = R \cup Q
      /\ \A x \in Q : e[x] = 0
  BY <1>1, FS_Subset
<1>3. \A x \in R \cup Q : e[x] \in Int
  BY <1>2
<1>4. SumFunctionOnSet(e, R \cup Q)
          = SumFunctionOnSet(e, R) + SumFunctionOnSet(e, Q)
  BY <1>2, <1>3, SumUnion
<1>5. SumFunctionOnSet(e, Q) = 0
  BY <1>2, SumZero
<1>6. SumFunctionOnSet(e, R) = SumFunctionOnSet(f, R)
  BY <1>2, SumSame
<1>7. SumFunctionOnSet(e, R) \in Int
  BY <1>2, <1>3, SumType
<1> QED
  BY <1>2, <1>4, <1>5, <1>6, <1>7

\* e is what f says of the pairs of l with a member of S.
Slice(f, l, e, S) == \A x \in S : e[x] \in Int /\ f[<<l, x>>] = e[x]

\* The sum over the pairs that have l on the left.
LEMMA SumPairs ==
    ASSUME NEW l, NEW S, IsFiniteSet(S), NEW f, NEW e, Slice(f, l, e, S)
    PROVE  /\ IsFiniteSet({l} \X S)
           /\ SumFunctionOnSet(f, {l} \X S) = SumFunctionOnSet(e, S)
<1> DEFINE F == {s \in SUBSET S :
                    SumFunctionOnSet(f, {l} \X s) = SumFunctionOnSet(e, s)}
<1> USE DEF Slice
<1>0. \A s \in SUBSET S : IsFiniteSet({l} \X s)
  BY FS_Subset, FS_Singleton, FS_Product
<1>1. {} \in F
  <2>1. {l} \X {} = {}
    OBVIOUS
  <2> QED
    BY <2>1, SumEmpty
<1>2. ASSUME NEW s \in F, NEW x \in S PROVE s \cup {x} \in F
  <2>1. CASE x \in s
    <3>1. s \cup {x} = s
      BY <2>1
    <3> QED
      BY <3>1
  <2>2. CASE x \notin s
    <3>1. IsFiniteSet(s) /\ s \in SUBSET S /\ \A y \in s \cup {x} : y \in S
      BY FS_Subset
    <3>2. PICK Q : Q = {l} \X s
      OBVIOUS
    <3>3. /\ IsFiniteSet(Q) /\ <<l, x>> \notin Q
          /\ Q \cup {<<l, x>>} = {l} \X (s \cup {x})
      BY <1>0, <2>2, <3>1, <3>2
    <3>4. \A y \in Q \cup {<<l, x>>} : f[y] \in Int
      BY <3>1, <3>2
    <3>5. SumFunctionOnSet(f, Q \cup {<<l, x>>})
              = f[<<l, x>>] + SumFunctionOnSet(f, Q)
      BY <3>3, <3>4, SumAdd
    <3>6. SumFunctionOnSet(e, s \cup {x}) = e[x] + SumFunctionOnSet(e, s)
      BY <2>2, <3>1, SumAdd
    <3>7. SumFunctionOnSet(f, Q) = SumFunctionOnSet(e, s)
      BY <3>2
    <3> QED
      BY <3>1, <3>3, <3>5, <3>6, <3>7
  <2> QED
    BY <2>1, <2>2
<1>3. S \in F
  <2>1. F \in SUBSET SUBSET S /\ \A s \in F, x \in S : s \cup {x} \in F
    BY <1>2
  <2> HIDE DEF F
  <2> QED
    BY <1>1, <2>1, Growing
<1> QED
  BY <1>0, <1>3

Pairs(L, D) == UNION {{l} \X D[l] : l \in L}

\* Group l sums up to e[l], g[l] being what f says of it.
Grouped(L, D, f, g, e) ==
    \A l \in L : /\ IsFiniteSet(D[l])
                 /\ Slice(f, l, g[l], D[l])
                 /\ e[l] = SumFunctionOnSet(g[l], D[l])

\* The sum over pairs, grouped by their left parts.
LEMMA SumGroups ==
    ASSUME NEW L, IsFiniteSet(L), NEW D, NEW f, NEW g, NEW e,
           Grouped(L, D, f, g, e)
    PROVE  /\ IsFiniteSet(Pairs(L, D))
           /\ SumFunctionOnSet(f, Pairs(L, D)) = SumFunctionOnSet(e, L)
<1> DEFINE P(s) == UNION {{l} \X D[l] : l \in s}
           F == {s \in SUBSET L :
                    /\ IsFiniteSet(P(s))
                    /\ SumFunctionOnSet(f, P(s)) = SumFunctionOnSet(e, s)}
<1>0. ASSUME NEW l \in L
      PROVE  /\ IsFiniteSet({l} \X D[l])
             /\ SumFunctionOnSet(f, {l} \X D[l]) = e[l]
             /\ e[l] \in Int
  <2>1. IsFiniteSet(D[l]) /\ e[l] = SumFunctionOnSet(g[l], D[l])
    BY DEF Grouped
  <2>2. Slice(f, l, g[l], D[l]) /\ \A x \in D[l] : g[l][x] \in Int
    BY DEF Grouped, Slice
  <2>3. SumFunctionOnSet(g[l], D[l]) \in Int
    BY <2>1, <2>2, SumType
  <2> QED
    BY <2>1, <2>2, <2>3, SumPairs
<1>1. {} \in F
  <2>1. P({}) = {}
    OBVIOUS
  <2> HIDE DEF P
  <2> QED
    BY <2>1, SumEmpty, FS_EmptySet
<1>2. ASSUME NEW s \in F, NEW x \in L PROVE s \cup {x} \in F
  <2>1. CASE x \in s
    <3>1. s \cup {x} = s
      BY <2>1
    <3> QED
      BY <3>1
  <2>2. CASE x \notin s
    <3>1. IsFiniteSet(s) /\ s \in SUBSET L /\ \A y \in s \cup {x} : y \in L
      BY FS_Subset
    <3>2. P(s \cup {x}) = P(s) \cup ({x} \X D[x])
      OBVIOUS
    <3>3. P(s) \cap ({x} \X D[x]) = {}
      BY <2>2
    <3>4. \A y \in P(s) \cup ({x} \X D[x]) : f[y] \in Int
      <4>1. \A l \in L : \A i \in D[l] : f[<<l, i>>] \in Int
        BY DEF Grouped, Slice
      <4>2. \A y \in P(s) \cup ({x} \X D[x]) :
                \E l \in L : \E i \in D[l] : y = <<l, i>>
        BY <3>1
      <4> QED
        BY <4>1, <4>2
    <3>5. /\ IsFiniteSet(P(s))
          /\ SumFunctionOnSet(f, P(s)) = SumFunctionOnSet(e, s)
      OBVIOUS
    <3>6. SumFunctionOnSet(e, s) \in Int /\ e[x] \in Int
      BY <1>0, <3>1, SumType
    <3>7. SumFunctionOnSet(e, s \cup {x}) = e[x] + SumFunctionOnSet(e, s)
      BY <1>0, <2>2, <3>1, SumAdd
    <3> HIDE DEF P
    <3>8. PICK Q, R : Q = P(s) /\ R = {x} \X D[x]
      OBVIOUS
    <3>9. IsFiniteSet(R) /\ SumFunctionOnSet(f, R) = e[x]
      BY <1>0, <3>8
    <3>10. /\ IsFiniteSet(Q) /\ Q \cap R = {}
           /\ \A y \in Q \cup R : f[y] \in Int
      BY <3>3, <3>4, <3>5, <3>8
    <3> HIDE DEF F
    <3>11. /\ IsFiniteSet(Q \cup R)
           /\ SumFunctionOnSet(f, Q \cup R)
                  = SumFunctionOnSet(f, Q) + SumFunctionOnSet(f, R)
      <4>1. IsFiniteSet(Q \cup R)
        BY <3>9, <3>10, FS_Union
      <4>2. SumFunctionOnSet(f, Q \cup R)
                  = SumFunctionOnSet(f, Q) + SumFunctionOnSet(f, R)
        BY <3>9, <3>10, SumUnion
      <4> QED
        BY <4>1, <4>2
    <3>12. SumFunctionOnSet(f, P(s \cup {x})) = SumFunctionOnSet(e, s \cup {x})
      <4>1. SumFunctionOnSet(f, P(s \cup {x})) = SumFunctionOnSet(f, Q \cup R)
        BY <3>2, <3>8
      <4>2. SumFunctionOnSet(f, Q \cup R) = SumFunctionOnSet(e, s) + e[x]
        BY <3>5, <3>8, <3>9, <3>11
      <4> QED
        BY <3>6, <3>7, <4>1, <4>2
    <3> QED
      BY <3>1, <3>2, <3>8, <3>11, <3>12 DEF F
  <2> QED
    BY <2>1, <2>2
<1>3. L \in F
  <2>1. F \in SUBSET SUBSET L /\ \A s \in F, x \in L : s \cup {x} \in F
    BY <1>2
  <2> HIDE DEF F
  <2> QED
    BY <1>1, <2>1, Growing
<1> QED
  BY <1>3 DEF Pairs

LEMMA FiniteTwo == IsFiniteSet(1..2)
<1>1. IsFiniteSet({1}) /\ IsFiniteSet({2})
  BY FS_Singleton
<1>2. IsFiniteSet({1} \cup {2})
  BY <1>1, FS_Union
<1>3. {1} \cup {2} = 1..2
  OBVIOUS
<1> QED
  BY <1>2, <1>3

LEMMA SumTwo ==
    ASSUME NEW f, f[1] \in Int, f[2] \in Int
    PROVE  SumFunctionOnSet(f, 1..2) = f[1] + f[2]
<1>1. {1} \cup {2} = 1..2 /\ {1} \cap {2} = {}
  OBVIOUS
<1>2. IsFiniteSet({1}) /\ IsFiniteSet({2}) /\ \A x \in {1} \cup {2} : f[x] \in Int
  BY FS_Singleton
<1>3. SumFunctionOnSet(f, {1} \cup {2})
          = SumFunctionOnSet(f, {1}) + SumFunctionOnSet(f, {2})
  BY <1>1, <1>2, SumUnion
<1> QED
  BY <1>1, <1>3, SumOne

-----------------------------------------------------------------------------
(* What a log is decoded to.                                                 *)

Key == [wallet: Nat, token: Nat, id: Nat \cup {NoId}]

Valued(entries) ==
    /\ IsFiniteSet(DOMAIN entries)
    /\ \A i \in DOMAIN entries : entries[i].amount \in Int

\* entries say what moves do.
Decodes(entries, moves) ==
    /\ Valued(entries)
    /\ KeysOf(entries) = RowsOf(moves)
    /\ \A k \in Key : Total(entries, k) = GainOf(k, moves)

LEMMA GainType ==
    ASSUME NEW k, NEW move \in Movement
    PROVE  Gain(k, move) \in Int
BY DEF Gain, Movement

\* One move is two entries.
LEMMA MovedPair ==
    ASSUME NEW log, NEW move \in Movement, move.token = log.emitter,
           NEW e, e = Moved(log, move.from, move.to, move.id, move.value)
    PROVE  /\ DOMAIN e = 1..2 /\ Valued(e)
           /\ KeysOf(e) = {[wallet |-> w, token |-> move.token, id |-> move.id] :
                              w \in {move.from, move.to}}
           /\ \A k \in Key : Total(e, k) = Gain(k, move)
<1>1. /\ DOMAIN e = 1..2
      /\ e[1] = Entry(move.from, log, move.id, -move.value)
      /\ e[2] = Entry(move.to, log, move.id, move.value)
  BY DEF Moved
<1>2. /\ e[1].amount = -move.value /\ e[2].amount = move.value
      /\ move.value \in Int
      /\ balanceKey(e[1]) = [wallet |-> move.from, token |-> move.token,
                             id |-> move.id]
      /\ balanceKey(e[2]) = [wallet |-> move.to, token |-> move.token,
                             id |-> move.id]
  BY <1>1 DEF Entry, balanceKey, Movement
<1>3. Valued(e)
  <2>1. IsFiniteSet(1..2)
    BY FiniteTwo
  <2>2. \A i \in 1..2 : i = 1 \/ i = 2
    OBVIOUS
  <2> QED
    BY <1>1, <1>2, <2>1, <2>2 DEF Valued
<1>4. KeysOf(e) = {[wallet |-> w, token |-> move.token, id |-> move.id] :
                      w \in {move.from, move.to}}
  <2>1. \A i \in 1..2 : i = 1 \/ i = 2
    OBVIOUS
  <2>2. KeysOf(e) = {balanceKey(e[1]), balanceKey(e[2])}
    BY <1>1, <2>1 DEF KeysOf
  <2> QED
    BY <1>2, <2>2
<1>5. ASSUME NEW k \in Key PROVE Total(e, k) = Gain(k, move)
  <2>1. PICK a : a = Amounts(e, k)
    OBVIOUS
  <2>2. /\ DOMAIN a = 1..2
        /\ a[1] = IF balanceKey(e[1]) = k THEN -move.value ELSE 0
        /\ a[2] = IF balanceKey(e[2]) = k THEN move.value ELSE 0
    BY <1>1, <1>2, <2>1 DEF Amounts
  <2>3. a[1] \in Int /\ a[2] \in Int
    BY <1>2, <2>2
  <2>4. Total(e, k) = a[1] + a[2]
    BY <2>1, <2>2, <2>3, SumTwo DEF Total, SumFunction
  <2>5. /\ balanceKey(e[1]) = k <=>
               /\ move.from = k.wallet
               /\ <<move.token, move.id>> = <<k.token, k.id>>
        /\ balanceKey(e[2]) = k <=>
               /\ move.to = k.wallet
               /\ <<move.token, move.id>> = <<k.token, k.id>>
    BY <1>2 DEF Key
  <2> QED
    BY <1>2, <2>2, <2>4, <2>5 DEF Gain
<1> QED
  BY <1>1, <1>3, <1>4, <1>5

\* The three standards whose logs say one move.
LEMMA AloneDecodes ==
    ASSUME NEW log, NEW move \in Movement, move.token = log.emitter,
           NEW e, e = Moved(log, move.from, move.to, move.id, move.value)
    PROVE  Decodes(e, <<move>>)
<1>1. DOMAIN <<move>> = {1} /\ <<move>>[1] = move
  OBVIOUS
<1>2. RowsOf(<<move>>)
          = {[wallet |-> w, token |-> move.token, id |-> move.id] :
                w \in {move.from, move.to}}
  BY <1>1 DEF RowsOf
<1>3. ASSUME NEW k \in Key PROVE GainOf(k, <<move>>) = Gain(k, move)
  <2>1. PICK g : g = [i \in DOMAIN <<move>> |-> Gain(k, <<move>>[i])]
    OBVIOUS
  <2>2. DOMAIN g = {1} /\ g[1] = Gain(k, move) /\ g[1] \in Int
    BY <1>1, <2>1, GainType
  <2>3. SumFunctionOnSet(g, {1}) = g[1]
    BY <2>2, SumOne
  <2> QED
    BY <2>1, <2>2, <2>3 DEF GainOf, SumFunction
<1> QED
  BY <1>2, <1>3, MovedPair DEF Decodes

\* A word is the number it holds.
LEMMA WordBytes ==
    ASSUME NEW value \in Nat
    PROVE  SetBytes(<<value>>) = value /\ SetBytes(<<>>) = 0
<1> DEFINE Horner(words, n) ==
               n = [i \in 0..Len(words) |->
                       IF i = 0 THEN 0 ELSE n[i - 1] * Base + words[i]]
           N(words) == CHOOSE n : Horner(words, n)
<1>0. \A words : SetBytes(words) = N(words)[Len(words)]
  BY Zenon DEF SetBytes
<1>1. N(<<value>>)[1] = value
  <2>0. PICK w : w = <<value>>
    OBVIOUS
  <2>1. w = <<value>> /\ w[1] = value /\ Len(w) = 1
    BY <2>0
  <2>2. PICK h : h = [i \in 0..1 |-> IF i = 0 THEN 0 ELSE value]
    OBVIOUS
  <2>3. Horner(w, h)
    <3>1. h[0] = 0 /\ h[1] = value /\ 0 * Base = 0
      BY <2>2, BalancesAssumption
    <3>2. ASSUME NEW i \in 0..1
          PROVE  h[i] = IF i = 0 THEN 0 ELSE h[i - 1] * Base + w[i]
      <4>1. CASE i = 0
        BY <3>1, <4>1
      <4>2. CASE i = 1
        BY <2>1, <3>1, <4>2
      <4> QED
        BY <4>1, <4>2
    <3>3. h = [i \in 0..1 |-> h[i]]
      BY <2>2
    <3> QED
      BY <2>1, <3>2, <3>3
  <2>4. PICK n : n = N(w) /\ Horner(w, n)
    <3> HIDE DEF Horner
    <3> QED
      BY <2>3
  <2>5. n[0] = 0 /\ n[1] = n[0] * Base + value
    <3>1. n = [i \in 0..1 |-> IF i = 0 THEN 0 ELSE n[i - 1] * Base + w[i]]
      BY <2>1, <2>4
    <3>2. n[0] = 0
      BY <3>1
    <3>3. n[1] = n[1 - 1] * Base + w[1]
      BY <3>1
    <3> QED
      BY <2>1, <3>2, <3>3
  <2> QED
    BY <2>1, <2>4, <2>5, BalancesAssumption
<1>2. N(<<>>)[0] = 0
  <2>1. PICK w : w = <<>> /\ Len(w) = 0
    OBVIOUS
  <2>2. PICK h : h = [i \in 0..0 |-> 0]
    OBVIOUS
  <2>3. Horner(w, h)
    BY <2>1, <2>2
  <2>4. PICK n : n = N(w) /\ Horner(w, n)
    <3> HIDE DEF Horner
    <3> QED
      BY <2>3
  <2>5. n[0] = 0
    BY <2>1, <2>4
  <2> QED
    BY <2>1, <2>4, <2>5
<1>3. Len(<<value>>) = 1 /\ Len(<<>>) = 0
  OBVIOUS
<1> QED
  BY <1>0, <1>1, <1>2, <1>3, Zenon

LEMMA NothingDecodes == Decodes(<<>>, <<>>)
<1>1. PICK e : e = <<>> /\ DOMAIN e = {}
  OBVIOUS
<1>2. Valued(e) /\ KeysOf(e) = {} /\ RowsOf(e) = {}
  BY <1>1, FS_EmptySet DEF Valued, KeysOf, RowsOf
<1>3. ASSUME NEW k PROVE Total(e, k) = GainOf(k, e)
  <2>1. PICK a, g : /\ a = Amounts(e, k)
                    /\ g = [i \in DOMAIN e |-> Gain(k, e[i])]
    OBVIOUS
  <2>2. DOMAIN a = {} /\ DOMAIN g = {}
    BY <1>1, <2>1 DEF Amounts
  <2>3. SumFunction(a) = 0 /\ SumFunction(g) = 0
    BY <2>2, SumEmpty DEF SumFunction
  <2> QED
    BY <2>1, <2>3 DEF Total, GainOf
<1> QED
  BY <1>1, <1>2, <1>3 DEF Decodes

LEMMA AmountsType ==
    ASSUME NEW e, Valued(e), NEW k
    PROVE  /\ DOMAIN Amounts(e, k) = DOMAIN e
           /\ \A i \in DOMAIN e : Amounts(e, k)[i] \in Int
BY DEF Amounts, Valued

LEMMA TotalType ==
    ASSUME NEW e, Valued(e), NEW k
    PROVE  Total(e, k) \in Int
<1>1. PICK a : a = Amounts(e, k)
  OBVIOUS
<1>2. IsFiniteSet(DOMAIN a) /\ \A i \in DOMAIN a : a[i] \in Int
  BY <1>1, AmountsType DEF Valued
<1> QED
  BY <1>1, <1>2, SumType DEF Total, SumFunction

\* A key that no entry has gets nothing.
LEMMA TotalOfNone ==
    ASSUME NEW e, Valued(e), NEW k, k \notin KeysOf(e)
    PROVE  Total(e, k) = 0
<1>1. PICK a : a = Amounts(e, k)
  OBVIOUS
<1>2. IsFiniteSet(DOMAIN a) /\ \A i \in DOMAIN a : a[i] = 0
  BY <1>1 DEF Amounts, KeysOf, Valued
<1> QED
  BY <1>1, <1>2, SumZero DEF Total, SumFunction

\* Slices appended to each other.
AppendAll(L, X) ==
    [p \in UNION {{l} \X DOMAIN X[l] : l \in L} |-> X[p[1]][p[2]]]

TotalOfAll(L, X, k) == SumFunction([l \in L |-> Total(X[l], k)])

LEMMA Appended ==
    ASSUME NEW L, IsFiniteSet(L), NEW X, \A l \in L : Valued(X[l])
    PROVE  /\ Valued(AppendAll(L, X))
           /\ KeysOf(AppendAll(L, X)) = UNION {KeysOf(X[l]) : l \in L}
           /\ \A k : Total(AppendAll(L, X), k) = TotalOfAll(L, X, k)
<1>0. PICK D, e : /\ D = UNION {{l} \X DOMAIN X[l] : l \in L}
                  /\ e = [p \in D |-> X[p[1]][p[2]]]
  OBVIOUS
<1>1. \A l \in L : \A i \in DOMAIN X[l] : <<l, i>> \in D /\ e[<<l, i>>] = X[l][i]
  BY <1>0
<1>2. \A p \in D : \E l \in L : \E i \in DOMAIN X[l] : p = <<l, i>>
  BY <1>0
<1>3. DOMAIN e = D
  BY <1>0
<1>4. KeysOf(e) = UNION {KeysOf(X[l]) : l \in L}
  <2>1. ASSUME NEW q \in KeysOf(e)
        PROVE  q \in UNION {KeysOf(X[l]) : l \in L}
    <3>1. PICK p \in D : q = balanceKey(e[p])
      BY <1>3 DEF KeysOf
    <3>2. PICK l \in L : \E i \in DOMAIN X[l] : p = <<l, i>>
      BY <1>2, <3>1
    <3>3. PICK i \in DOMAIN X[l] : p = <<l, i>>
      BY <3>2
    <3>4. q = balanceKey(X[l][i])
      BY <1>1, <3>1, <3>3
    <3>5. q \in KeysOf(X[l])
      BY <3>4 DEF KeysOf
    <3> QED
      BY <3>5
  <2>2. ASSUME NEW l \in L, NEW q \in KeysOf(X[l])
        PROVE  q \in KeysOf(e)
    <3>1. PICK i \in DOMAIN X[l] : q = balanceKey(X[l][i])
      BY DEF KeysOf
    <3>2. q = balanceKey(e[<<l, i>>]) /\ <<l, i>> \in D
      BY <1>1, <3>1
    <3> QED
      BY <1>3, <3>2 DEF KeysOf
  <2> QED
    BY <2>1, <2>2
<1>5. ASSUME NEW k
      PROVE  /\ IsFiniteSet(D)
             /\ Total(e, k) = TotalOfAll(L, X, k)
  <2>1. PICK E : E = [l \in L |-> DOMAIN X[l]]
    OBVIOUS
  <2>2. PICK f : f = Amounts(e, k)
    OBVIOUS
  <2>3. PICK g : g = [l \in L |-> Amounts(X[l], k)]
    OBVIOUS
  <2>4. PICK h : h = [l \in L |-> Total(X[l], k)]
    OBVIOUS
  <2>5. \A l \in L : IsFiniteSet(E[l])
    BY <2>1 DEF Valued
  <2>6. ASSUME NEW l \in L
        PROVE  /\ Slice(f, l, g[l], E[l])
               /\ h[l] = SumFunctionOnSet(g[l], E[l])
    <3>1. g[l] = Amounts(X[l], k) /\ E[l] = DOMAIN X[l] /\ h[l] = Total(X[l], k)
      BY <2>1, <2>3, <2>4
    <3>2. h[l] = SumFunctionOnSet(g[l], E[l])
      BY <3>1, AmountsType DEF Total, SumFunction
    <3>3. ASSUME NEW i \in E[l]
          PROVE  g[l][i] \in Int /\ f[<<l, i>>] = g[l][i]
      <4>1. i \in DOMAIN X[l] /\ <<l, i>> \in DOMAIN e /\ e[<<l, i>>] = X[l][i]
        BY <1>1, <1>3, <3>1
      <4>2. f[<<l, i>>] = g[l][i]
        BY <2>2, <3>1, <4>1 DEF Amounts
      <4>3. g[l][i] \in Int
        BY <3>1, <4>1, AmountsType
      <4> QED
        BY <4>2, <4>3
    <3> QED
      BY <3>2, <3>3 DEF Slice
  <2>7. D = Pairs(L, E)
    BY <1>0, <2>1 DEF Pairs
  <2>8. IsFiniteSet(D) /\ SumFunctionOnSet(f, D) = SumFunctionOnSet(h, L)
    <3>1. Grouped(L, E, f, g, h)
      BY <2>5, <2>6 DEF Grouped
    <3> QED
      BY <2>7, <3>1, SumGroups
  <2>9. DOMAIN f = D /\ DOMAIN h = L
    BY <1>3, <2>2, <2>4 DEF Amounts
  <2>10. Total(e, k) = SumFunction(h)
    BY <2>2, <2>8, <2>9 DEF Total, SumFunction
  <2> QED
    BY <2>4, <2>8, <2>10 DEF TotalOfAll
<1>6. Valued(e)
  <2>1. IsFiniteSet(D)
    BY <1>5
  <2>2. \A p \in D : e[p].amount \in Int
    BY <1>1, <1>2 DEF Valued
  <2> QED
    BY <1>3, <2>1, <2>2 DEF Valued
<1>7. e = AppendAll(L, X)
  BY <1>0 DEF AppendAll
<1> QED
  BY <1>4, <1>5, <1>6, <1>7

LEMMA BatchDecodes ==
    ASSUME NEW log, NEW moves \in Seq(Movement), log.datas # Undecodable,
           DOMAIN moves = DOMAIN log.datas.ids \cap DOMAIN log.datas.values,
           \A i \in DOMAIN moves :
               moves[i] = [token |-> log.emitter, id |-> log.datas.ids[i],
                           from |-> log.topics[3], to |-> log.topics[4],
                           value |-> log.datas.values[i]]
    PROVE  Decodes(extractBatch(log), moves)
<1>1. PICK L : L = DOMAIN moves
  OBVIOUS
<1>2. /\ IsFiniteSet(L)
      /\ \A i \in L : moves[i] \in Movement
  <2>1. L = 1..Len(moves) /\ Len(moves) \in Nat
    BY <1>1
  <2>2. IsFiniteSet(1..Len(moves))
    BY <2>1, FS_Interval
  <2> QED
    BY <1>1, <2>1, <2>2
<1>3. PICK X : X = [i \in L |-> Moved(log, moves[i].from, moves[i].to,
                                      moves[i].id, moves[i].value)]
  OBVIOUS
<1>4. ASSUME NEW i \in L
      PROVE  /\ DOMAIN X[i] = 1..2 /\ Valued(X[i])
             /\ KeysOf(X[i]) = {[wallet |-> w, token |-> moves[i].token,
                                 id |-> moves[i].id] :
                                   w \in {moves[i].from, moves[i].to}}
             /\ \A k \in Key : Total(X[i], k) = Gain(k, moves[i])
  <2>1. PICK m \in Movement : m = moves[i]
    BY <1>2
  <2>2. moves[i].token = log.emitter
    <3>1. i \in DOMAIN moves
      BY <1>1
    <3>2. moves[i] = [token |-> log.emitter, id |-> log.datas.ids[i],
                      from |-> log.topics[3], to |-> log.topics[4],
                      value |-> log.datas.values[i]]
      BY <3>1
    <3> QED
      BY <3>2
  <2>3. m.token = log.emitter
    BY <2>1, <2>2
  <2>4. X[i] = Moved(log, m.from, m.to, m.id, m.value)
    BY <1>3, <2>1
  <2> QED
    BY <2>1, <2>3, <2>4, MovedPair
<1>5. PICK D : D = UNION {{i} \X DOMAIN X[i] : i \in L}
  OBVIOUS
<1>6. D = L \X (1..2)
  BY <1>4, <1>5
<1>7. extractBatch(log) = [p \in D |-> X[p[1]][p[2]]]
  <2>1. extractBatch(log) =
            [p \in D |-> Moved(log, log.topics[3], log.topics[4],
                               log.datas.ids[p[1]], log.datas.values[p[1]])[p[2]]]
    BY <1>1, <1>6 DEF extractBatch
  <2>2. ASSUME NEW p \in D
        PROVE  Moved(log, log.topics[3], log.topics[4],
                     log.datas.ids[p[1]], log.datas.values[p[1]]) = X[p[1]]
    <3>1. p[1] \in L
      BY <1>6
    <3>2. X[p[1]] = Moved(log, moves[p[1]].from, moves[p[1]].to,
                          moves[p[1]].id, moves[p[1]].value)
      BY <1>3, <3>1
    <3>3. /\ moves[p[1]].from = log.topics[3] /\ moves[p[1]].to = log.topics[4]
          /\ moves[p[1]].id = log.datas.ids[p[1]]
          /\ moves[p[1]].value = log.datas.values[p[1]]
      <4>1. PICK i \in DOMAIN moves : i = p[1]
        BY <1>1, <3>1
      <4>2. moves[i] = [token |-> log.emitter, id |-> log.datas.ids[i],
                        from |-> log.topics[3], to |-> log.topics[4],
                        value |-> log.datas.values[i]]
        OBVIOUS
      <4> QED
        BY <4>1, <4>2
    <3> QED
      BY <3>2, <3>3
  <2> QED
    BY <2>1, <2>2
<1>8. PICK e : e = extractBatch(log)
  OBVIOUS
<1>9. /\ Valued(e)
      /\ KeysOf(e) = UNION {KeysOf(X[i]) : i \in L}
      /\ \A k : Total(e, k) = TotalOfAll(L, X, k)
  <2>1. \A i \in L : Valued(X[i])
    BY <1>4
  <2>2. e = AppendAll(L, X)
    BY <1>5, <1>7, <1>8 DEF AppendAll
  <2> QED
    BY <1>2, <2>1, <2>2, Appended
<1>10. KeysOf(e) = RowsOf(moves)
  BY <1>1, <1>4, <1>9 DEF RowsOf
<1>11. ASSUME NEW k \in Key PROVE Total(e, k) = GainOf(k, moves)
  <2>1. [i \in L |-> Total(X[i], k)] = [i \in DOMAIN moves |-> Gain(k, moves[i])]
    BY <1>1, <1>4
  <2> QED
    BY <1>9, <2>1 DEF GainOf, TotalOfAll
<1> QED
  BY <1>8, <1>9, <1>10, <1>11 DEF Decodes

\* Whatever a log that extraction gets through says, it is decoded to that.
LEMMA LogDecodes ==
    ASSUME NEW log, NEW moves \in Seq(Movement), Says(log, moves)
    PROVE  Decodes(extractBalanceEntriesFromLog(log), moves)
<1> DEFINE topics == log.topics
           datas  == log.datas
           Alone(id, from, to, value) ==
               moves = <<[token |-> log.emitter, id |-> id, from |-> from,
                          to |-> to, value |-> value]>>
<1>1. ASSUME NEW id, NEW from, NEW to, NEW value,
             Alone(id, from, to, value),
             extractBalanceEntriesFromLog(log) = Moved(log, from, to, id, value)
      PROVE  Decodes(extractBalanceEntriesFromLog(log), moves)
  <2>1. PICK m : m = moves[1]
    OBVIOUS
  <2>2. /\ m = [token |-> log.emitter, id |-> id, from |-> from,
                to |-> to, value |-> value]
        /\ moves = <<m>> /\ m \in Movement
    BY <1>1, <2>1
  <2>3. /\ m.token = log.emitter
        /\ extractBalanceEntriesFromLog(log)
               = Moved(log, m.from, m.to, m.id, m.value)
    BY <1>1, <2>2
  <2>4. Decodes(extractBalanceEntriesFromLog(log), <<m>>)
    BY <2>2, <2>3, AloneDecodes
  <2> QED
    BY <2>2, <2>4
<1>2. CASE /\ topics[1] = "Transfer" /\ Len(topics) = 3
           /\ Alone(NoId, topics[2], topics[3], moves[1].value)
           /\ \/ datas = <<moves[1].value>>
              \/ datas = <<>> /\ moves[1].value = 0
  <2>1. findStandard(log) = "ERC20"
    BY <1>2 DEF findStandard
  <2>2. SetBytes(datas) = moves[1].value
    <3>1. moves[1].value \in Nat
      <4>1. moves[1] \in Movement
        <5>1. 1 \in DOMAIN moves
          BY <1>2
        <5> QED
          BY <5>1
      <4> QED
        BY <4>1 DEF Movement
    <3> QED
      BY <1>2, <3>1, WordBytes
  <2>3. extractBalanceEntriesFromLog(log)
            = Moved(log, topics[2], topics[3], NoId, moves[1].value)
    BY <2>1, <2>2 DEF extractBalanceEntriesFromLog
  <2> QED
    BY <1>1, <1>2, <2>3
<1>3. CASE /\ topics[1] = "Transfer" /\ Len(topics) = 4
           /\ Alone(topics[4], topics[2], topics[3], 1)
  <2>1. findStandard(log) = "ERC721"
    BY <1>3 DEF findStandard
  <2>2. extractBalanceEntriesFromLog(log)
            = Moved(log, topics[2], topics[3], topics[4], 1)
    BY <2>1 DEF extractBalanceEntriesFromLog
  <2> QED
    BY <1>1, <1>3, <2>2
<1>4. CASE /\ topics[1] = "TransferSingle" /\ Len(topics) = 4
           /\ Len(datas) = 2
           /\ Alone(datas[1], topics[3], topics[4], datas[2])
  <2>1. findStandard(log) = "ERC1155_SINGLE"
    BY <1>4 DEF findStandard
  <2>2. extractBalanceEntriesFromLog(log)
            = Moved(log, topics[3], topics[4], datas[1], datas[2])
    BY <1>4, <2>1 DEF extractBalanceEntriesFromLog
  <2> QED
    BY <1>1, <1>4, <2>2
<1>5. CASE /\ topics[1] = "TransferSingle" /\ Len(topics) = 4
           /\ Len(datas) < 2 /\ moves = <<>>
  <2>1. findStandard(log) = "ERC1155_SINGLE"
    BY <1>5 DEF findStandard
  <2>2. extractBalanceEntriesFromLog(log) = <<>>
    BY <1>5, <2>1 DEF extractBalanceEntriesFromLog
  <2> QED
    BY <1>5, <2>2, NothingDecodes
<1>6. CASE topics[1] = "TransferBatch"
  <2>1. findStandard(log) = "ERC1155_BATCH"
    BY <1>6 DEF findStandard
  <2>2. extractBalanceEntriesFromLog(log) = extractBatch(log)
    BY <2>1 DEF extractBalanceEntriesFromLog
  <2>3. CASE datas = Undecodable
    <3>1. moves = <<>>
      BY <1>6, <2>3 DEF Says
    <3>2. extractBatch(log) = <<>>
      BY <2>3 DEF extractBatch
    <3> QED
      BY <2>2, <3>1, <3>2, NothingDecodes
  <2>4. CASE datas # Undecodable
    <3>1. /\ DOMAIN moves = DOMAIN datas.ids \cap DOMAIN datas.values
          /\ \A i \in DOMAIN moves :
                moves[i] = [token |-> log.emitter, id |-> datas.ids[i],
                            from |-> topics[3], to |-> topics[4],
                            value |-> datas.values[i]]
      BY <1>6, <2>4 DEF Says
    <3> QED
      BY <2>2, <2>4, <3>1, BatchDecodes
  <2> QED
    BY <2>3, <2>4
<1> QED
  BY <1>2, <1>3, <1>4, <1>5, <1>6 DEF Says

-----------------------------------------------------------------------------
(* What is added to the table.                                               *)

Extractables == Transfer \ ShortTopics

\* The entries of a height say what its logs say.
LEMMA HeightDecodes ==
    ASSUME NEW S \in SUBSET Extractables
    PROVE  /\ Valued(EntriesOf(S))
           /\ KeysOf(EntriesOf(S)) = UNION {RowsOf(Meant[l]) : l \in S}
           /\ \A k \in Key :
                 Total(EntriesOf(S), k)
                     = SumFunction([l \in S |-> GainOf(k, Meant[l])])
<1>1. IsFiniteSet(S)
  BY MeantAssumption, FS_Subset DEF Extractables
<1>2. PICK X : X = [l \in S |-> extractBalanceEntriesFromLog(LogData[l])]
  OBVIOUS
<1>3. \A l \in S : Decodes(X[l], Meant[l])
  <2> SUFFICES ASSUME NEW l \in S PROVE Decodes(X[l], Meant[l])
    OBVIOUS
  <2>1. Says(LogData[l], Meant[l]) /\ Meant[l] \in Seq(Movement)
    BY MeantAssumption DEF Extractables
  <2>2. X[l] = extractBalanceEntriesFromLog(LogData[l])
    BY <1>2
  <2> QED
    BY <2>1, <2>2, LogDecodes
<1>4. EntriesOf(S) = AppendAll(S, X)
  BY <1>2 DEF EntriesOf, AppendAll
<1>5. \A l \in S : Valued(X[l]) /\ KeysOf(X[l]) = RowsOf(Meant[l])
  BY <1>3 DEF Decodes
<1>6. PICK e : e = EntriesOf(S)
  OBVIOUS
<1>7. /\ Valued(e)
      /\ KeysOf(e) = UNION {KeysOf(X[l]) : l \in S}
      /\ \A k : Total(e, k) = TotalOfAll(S, X, k)
  BY <1>1, <1>4, <1>5, <1>6, Appended
<1>8. KeysOf(e) = UNION {RowsOf(Meant[l]) : l \in S}
  BY <1>5, <1>7
<1>9. ASSUME NEW k \in Key
      PROVE  Total(e, k) = SumFunction([l \in S |-> GainOf(k, Meant[l])])
  <2>1. \A l \in S : Total(X[l], k) = GainOf(k, Meant[l])
    BY <1>3 DEF Decodes
  <2>2. [l \in S |-> Total(X[l], k)] = [l \in S |-> GainOf(k, Meant[l])]
    BY <2>1
  <2> QED
    BY <1>7, <2>2 DEF TotalOfAll
<1> QED
  BY <1>6, <1>7, <1>8, <1>9

\* Aggregation changes no total.
LEMMA Aggregated ==
    ASSUME NEW e, Valued(e)
    PROVE  /\ Valued(aggregateSameEntries(e))
           /\ KeysOf(aggregateSameEntries(e)) = KeysOf(e)
           /\ \A k : Total(aggregateSameEntries(e), k) = Total(e, k)
<1>1. PICK rows : rows = aggregateSameEntries(e)
  OBVIOUS
<1>2. PICK K : K = KeysOf(e)
  OBVIOUS
<1>3. IsFiniteSet(K)
  <2>1. IsFiniteSet(DOMAIN e)
    BY DEF Valued
  <2>2. PICK f : f = [i \in DOMAIN e |-> balanceKey(e[i])]
    OBVIOUS
  <2>3. f \in Surjection(DOMAIN e, K)
    BY <1>2, <2>2 DEF KeysOf, Surjection
  <2> QED
    BY <2>1, <2>3, FS_Surjection
<1>4. DOMAIN rows = K
  BY <1>1, <1>2 DEF aggregateSameEntries
<1>5. ASSUME NEW k \in K
      PROVE  balanceKey(rows[k]) = k /\ rows[k].amount = Total(e, k)
  <2>1. rows[k] = [wallet |-> k.wallet, token |-> k.token, id |-> k.id,
                   amount |-> Total(e, k)]
    BY <1>1, <1>2 DEF aggregateSameEntries
  <2>2. PICK i \in DOMAIN e : k = balanceKey(e[i])
    BY <1>2 DEF KeysOf
  <2>3. k = [wallet |-> k.wallet, token |-> k.token, id |-> k.id]
    BY <2>2 DEF balanceKey
  <2> QED
    BY <2>1, <2>3 DEF balanceKey
<1>6. KeysOf(rows) = K
  BY <1>4, <1>5 DEF KeysOf
<1>7. Valued(rows)
  BY <1>3, <1>4, <1>5, TotalType DEF Valued
<1>8. ASSUME NEW k PROVE Total(rows, k) = Total(e, k)
  <2>1. CASE k \notin K
    BY <1>2, <1>6, <1>7, <2>1, TotalOfNone
  <2>2. CASE k \in K
    <3>1. PICK a : a = Amounts(rows, k)
      OBVIOUS
    <3>2. DOMAIN a = K /\ \A q \in K : a[q] = IF q = k THEN Total(e, k) ELSE 0
      BY <1>4, <1>5, <3>1 DEF Amounts
    <3>3. Total(e, k) \in Int
      BY TotalType
    <3>4. /\ {k} \in SUBSET K /\ \A q \in {k} : a[q] \in Int
          /\ \A q \in K \ {k} : a[q] = 0
      BY <2>2, <3>2, <3>3
    <3>5. SumFunctionOnSet(a, K) = SumFunctionOnSet(a, {k})
      BY <1>3, <3>4, SumRestrict
    <3>6. SumFunctionOnSet(a, {k}) = Total(e, k)
      BY <2>2, <3>2, <3>3, SumOne
    <3> QED
      BY <3>1, <3>2, <3>5, <3>6 DEF Total, SumFunction
  <2> QED
    BY <2>1, <2>2
<1> QED
  BY <1>1, <1>2, <1>6, <1>7, <1>8

LEMMA GainOfType ==
    ASSUME NEW moves \in Seq(Movement), NEW k
    PROVE  /\ GainOf(k, moves) \in Int
           /\ k \in Key \ RowsOf(moves) => GainOf(k, moves) = 0
<1>1. PICK f : f = [i \in DOMAIN moves |-> Gain(k, moves[i])]
  OBVIOUS
<1>2. IsFiniteSet(DOMAIN moves) /\ \A i \in DOMAIN moves : moves[i] \in Movement
  <2>1. DOMAIN moves = 1..Len(moves) /\ Len(moves) \in Nat
    OBVIOUS
  <2>2. IsFiniteSet(1..Len(moves))
    BY <2>1, FS_Interval
  <2> QED
    BY <2>1, <2>2
<1>3. \A i \in DOMAIN f : f[i] \in Int
  BY <1>1, <1>2, GainType
<1>4. DOMAIN f = DOMAIN moves /\ GainOf(k, moves) = SumFunctionOnSet(f, DOMAIN f)
  BY <1>1 DEF GainOf, SumFunction
<1>5. ASSUME k \in Key, k \notin RowsOf(moves)
      PROVE  GainOf(k, moves) = 0
  <2>1. ASSUME NEW i \in DOMAIN moves PROVE Gain(k, moves[i]) = 0
    <3>1. \A w \in {moves[i].from, moves[i].to} :
             [wallet |-> w, token |-> moves[i].token, id |-> moves[i].id] # k
      BY <1>5 DEF RowsOf
    <3>2. k = [wallet |-> k.wallet, token |-> k.token, id |-> k.id]
      BY <1>5 DEF Key
    <3>3. <<moves[i].token, moves[i].id>> = <<k.token, k.id>> =>
              moves[i].from # k.wallet /\ moves[i].to # k.wallet
      BY <3>1, <3>2
    <3> QED
      BY <3>3 DEF Gain
  <2>2. \A i \in DOMAIN f : f[i] = 0
    BY <1>1, <2>1
  <2> QED
    BY <1>2, <1>4, <2>2, SumZero
<1> QED
  BY <1>2, <1>3, <1>4, <1>5, SumType

LEMMA RowsAreKeys ==
    ASSUME NEW moves \in Seq(Movement)
    PROVE  RowsOf(moves) \in SUBSET Key
<1>1. \A i \in DOMAIN moves : moves[i] \in Movement
  OBVIOUS
<1> QED
  BY <1>1 DEF RowsOf, Key, Movement

-----------------------------------------------------------------------------
(* The ledger, added up.                                                     *)

Counted(counts, k) ==
    SumFunction([l \in Transfer |-> counts[l] * GainOf(k, Meant[l])])

\* What the table says of k, 0 if it has no row.
Amount(k) == IF k \in DOMAIN wallet_balance THEN wallet_balance[k] ELSE 0

LEMMA CountedNone ==
    ASSUME ledger \in [Transfer -> Nat], NEW k \in Key,
           k \notin UNION {RowsOf(Meant[l]) : l \in {t \in Transfer : ledger[t] > 0}}
    PROVE  Counted(ledger, k) = 0
<1>1. PICK f : f = [l \in Transfer |-> ledger[l] * GainOf(k, Meant[l])]
  OBVIOUS
<1>2. ASSUME NEW l \in Transfer PROVE f[l] = 0
  <2>1. Meant[l] \in Seq(Movement) /\ ledger[l] \in Nat
    BY MeantAssumption
  <2>2. GainOf(k, Meant[l]) \in Int
    BY <2>1, GainOfType
  <2>3. CASE ledger[l] = 0
    BY <1>1, <2>2, <2>3
  <2>4. CASE ledger[l] > 0
    <3>1. k \notin RowsOf(Meant[l])
      BY <2>4
    <3>2. GainOf(k, Meant[l]) = 0
      BY <2>1, <3>1, GainOfType
    <3> QED
      BY <1>1, <2>1, <3>2
  <2> QED
    BY <2>1, <2>3, <2>4
<1>3. SumFunctionOnSet(f, Transfer) = 0
  BY <1>2, SumZero, MeantAssumption
<1> QED
  BY <1>1, <1>3 DEF Counted, SumFunction

LEMMA CountedMore ==
    ASSUME ledger \in [Transfer -> Nat], NEW S \in SUBSET Transfer, NEW more,
           \A l \in Transfer : more[l] = IF l \in S THEN ledger[l] + 1
                                                    ELSE ledger[l],
           NEW k
    PROVE  Counted(more, k)
               = Counted(ledger, k) + SumFunction([l \in S |-> GainOf(k, Meant[l])])
<1>1. PICK f, e, g, h :
          /\ f = [l \in Transfer |-> ledger[l] * GainOf(k, Meant[l])]
          /\ g = [l \in Transfer |-> more[l] * GainOf(k, Meant[l])]
          /\ e = [l \in Transfer |-> IF l \in S THEN GainOf(k, Meant[l]) ELSE 0]
          /\ h = [l \in S |-> GainOf(k, Meant[l])]
  OBVIOUS
<1>2. ASSUME NEW l \in Transfer
      PROVE  f[l] \in Int /\ e[l] \in Int /\ g[l] = f[l] + e[l]
  <2>1. PICK n : n = GainOf(k, Meant[l])
    OBVIOUS
  <2>2. n \in Int /\ ledger[l] \in Nat
    BY <2>1, MeantAssumption, GainOfType
  <2>3. (ledger[l] + 1) * n = ledger[l] * n + n
    BY <2>2
  <2>4. /\ f[l] = ledger[l] * n /\ g[l] = more[l] * n
        /\ e[l] = IF l \in S THEN n ELSE 0
    BY <1>1, <2>1
  <2>5. ledger[l] * n \in Int
    BY <2>2
  <2>6. CASE l \in S
    <3>1. more[l] = ledger[l] + 1
      BY <2>6
    <3> QED
      BY <2>2, <2>3, <2>4, <2>5, <2>6, <3>1
  <2>7. CASE l \notin S
    <3>1. more[l] = ledger[l]
      BY <2>7
    <3> QED
      BY <2>4, <2>5, <2>7, <3>1
  <2> QED
    BY <2>6, <2>7
<1>3. IsFiniteSet(Transfer)
  BY MeantAssumption
<1>4. SumFunctionOnSet(g, Transfer)
          = SumFunctionOnSet(f, Transfer) + SumFunctionOnSet(e, Transfer)
  BY <1>2, <1>3, SumPlus
<1>5. SumFunctionOnSet(e, Transfer) = SumFunctionOnSet(h, S)
  <2>1. /\ \A l \in S : h[l] \in Int /\ e[l] = h[l]
        /\ \A l \in Transfer \ S : e[l] = 0
    BY <1>1, <1>2
  <2> QED
    BY <1>3, <2>1, SumRestrict
<1>6. /\ DOMAIN f = Transfer /\ DOMAIN g = Transfer /\ DOMAIN h = S
      /\ Counted(ledger, k) = SumFunctionOnSet(f, Transfer)
      /\ Counted(more, k) = SumFunctionOnSet(g, Transfer)
      /\ SumFunction([l \in S |-> GainOf(k, Meant[l])]) = SumFunctionOnSet(h, S)
  BY <1>1 DEF Counted, SumFunction
<1> QED
  BY <1>4, <1>5, <1>6

\* Adding the logs of a height to the table adds them to the ledger.
LEMMA UpsertKeepsLedger ==
    ASSUME ledger \in [Transfer -> Nat], logs \in SUBSET Extractables,
           TableIsLedger, Upsert,
           ledger' = [l \in Transfer |-> IF l \in logs THEN ledger[l] + 1
                                                       ELSE ledger[l]]
    PROVE  TableIsLedger'
<1>1. PICK e, rows : e = EntriesOf(logs) /\ rows = aggregateSameEntries(e)
  OBVIOUS
<1>2. wallet_balance' = Upserted(wallet_balance, rows)
  BY <1>1 DEF Upsert
<1>3. /\ KeysOf(rows) = UNION {RowsOf(Meant[l]) : l \in logs}
      /\ \A k \in Key :
            /\ Total(rows, k) = SumFunction([l \in logs |-> GainOf(k, Meant[l])])
            /\ Total(rows, k) \in Int
  <2>1. /\ Valued(e)
        /\ KeysOf(e) = UNION {RowsOf(Meant[l]) : l \in logs}
        /\ \A k \in Key :
              Total(e, k) = SumFunction([l \in logs |-> GainOf(k, Meant[l])])
    BY <1>1, HeightDecodes
  <2>2. /\ Valued(rows) /\ KeysOf(rows) = KeysOf(e)
        /\ \A k : Total(rows, k) = Total(e, k)
    BY <1>1, <2>1, Aggregated
  <2> QED
    BY <2>1, <2>2, TotalType
<1>4. DOMAIN wallet_balance' = DOMAIN wallet_balance \cup KeysOf(rows)
  BY <1>2 DEF Upserted
<1>5. DOMAIN wallet_balance' =
          UNION {RowsOf(Meant[l]) : l \in {t \in Transfer : ledger'[t] > 0}}
  <2>1. \A l \in Transfer : ledger'[l] > 0 <=> ledger[l] > 0 \/ l \in logs
    OBVIOUS
  <2>2. logs \in SUBSET Transfer
    BY DEF Extractables
  <2>3. DOMAIN wallet_balance =
            UNION {RowsOf(Meant[l]) : l \in {t \in Transfer : ledger[t] > 0}}
    BY DEF TableIsLedger
  <2> QED
    BY <1>3, <1>4, <2>1, <2>2, <2>3
<1>6. ASSUME NEW k \in DOMAIN wallet_balance'
      PROVE  wallet_balance'[k] = Counted(ledger', k)
  <2>1. k \in Key
    <3>1. PICK l \in Transfer : k \in RowsOf(Meant[l])
      BY <1>5
    <3> QED
      BY <3>1, MeantAssumption, RowsAreKeys
  <2>2. wallet_balance'[k] = Amount(k) + Total(rows, k)
    BY <1>2, <1>4 DEF Upserted, Amount
  <2>3. Amount(k) = Counted(ledger, k)
    BY <2>1, CountedNone DEF TableIsLedger, Amount, Counted
  <2>4. Counted(ledger', k)
            = Counted(ledger, k) + SumFunction([l \in logs |-> GainOf(k, Meant[l])])
    <3>1. /\ logs \in SUBSET Transfer
          /\ \A l \in Transfer : ledger'[l] = IF l \in logs THEN ledger[l] + 1
                                                            ELSE ledger[l]
      BY DEF Extractables
    <3> QED
      BY <3>1, CountedMore
  <2> QED
    BY <1>3, <2>1, <2>2, <2>3, <2>4
<1> QED
  BY <1>5, <1>6 DEF TableIsLedger, Counted

-----------------------------------------------------------------------------
(* The theorems.                                                             *)

BInv ==
    /\ logs \in SUBSET Transfer
    /\ ledger \in [Transfer -> Nat]
    /\ TableIsLedger

LEMMA BInvInit == BalancesInit => BInv
<1> SUFFICES ASSUME BalancesInit PROVE BInv
  OBVIOUS
<1>1. logs = {} /\ ledger = [l \in Transfer |-> 0]
  BY DEF BalancesInit, BalancefillInit
<1>2. DOMAIN wallet_balance = {}
  BY DEF BalancesInit
<1>3. {t \in Transfer : ledger[t] > 0} = {}
  BY <1>1
<1> QED
  BY <1>1, <1>2, <1>3 DEF BInv, TableIsLedger

LEMMA BInvStep == BInv /\ [BalancesNext]_balanceVars => BInv'
<1> SUFFICES ASSUME BInv, [BalancesNext]_balanceVars PROVE BInv'
  OBVIOUS
<1>1. ASSUME UNCHANGED <<ledger, wallet_balance>>, logs' \in SUBSET Transfer
      PROVE  BInv'
  BY <1>1 DEF BInv, TableIsLedger
<1>2. CASE StoreNext \/ Start \/ BackfillSignal \/ UNCHANGED balanceVars
  BY <1>1, <1>2
     DEF BInv, StoreNext, Start, BackfillSignal, balanceVars, balancefillVars
<1>3. CASE ProcessGone
  BY <1>1, <1>3 DEF ProcessGone, BalancefillStops
<1>4. CASE Goroutine
  <2>1. CASE Booked
    <3>1. BatchUpsertBalance
      BY <1>4, <2>1 DEF Goroutine, Booked, BalancefillStep,
         GetBalancefillCursor, LeaveWait, BalancefillDone, GetLogs,
         UpdateBalancefillCursor, BalancefillFails
    <3>2. /\ Upsert /\ logs \in SUBSET Extractables /\ logs' = {}
          /\ ledger' = [l \in Transfer |-> IF l \in logs THEN ledger[l] + 1
                                                         ELSE ledger[l]]
      BY <1>4, <2>1, <3>1
         DEF Goroutine, BatchUpsertBalance, Extractable, Extractables, BInv
    <3>3. TableIsLedger'
      BY <3>2, UpsertKeepsLedger DEF BInv
    <3>4. ledger' \in [Transfer -> Nat]
      BY <3>2 DEF BInv
    <3> QED
      BY <3>2, <3>3, <3>4 DEF BInv
  <2>2. CASE ~Booked
    <3>1. UNCHANGED <<ledger, wallet_balance>>
      BY <1>4, <2>2 DEF Goroutine, Booked, BalancefillStep,
         GetBalancefillCursor, LeaveWait, BalancefillDone, GetLogs,
         BatchUpsertBalance, UpdateBalancefillCursor, BalancefillFails
    <3>2. logs' \in SUBSET Transfer
      BY <1>4, <2>2 DEF BInv, Goroutine, Booked, BalancefillStep,
         GetBalancefillCursor, LeaveWait, BalancefillDone, GetLogs,
         GetLogsByTopic, BatchUpsertBalance, UpdateBalancefillCursor,
         BalancefillFails
    <3> QED
      BY <1>1, <3>1, <3>2
  <2> QED
    BY <2>1, <2>2
<1> QED
  BY <1>2, <1>3, <1>4 DEF BalancesNext

\* Whatever the transfers mean, however many wallets, tokens and ids they are
\* about, and however often a height is repeated after a crash, the rows of
\* wallet_balance are the sums of the counted transfers.
THEOREM TableIsTheLedger == BalancesSpec => []TableIsLedger
<1>1. BInv => TableIsLedger
  BY DEF BInv
<1> QED
  BY <1>1, BInvInit, BInvStep, PTL DEF BalancesSpec

\* No height has logs that make its upsert fail by themselves: the statement
\* never meets a key twice, so a retry after a fault can succeed.
THEOREM UpsertAccepted ==
    ASSUME NEW S \in SUBSET (Transfer \ ShortTopics)
    PROVE  Accepted(aggregateSameEntries(EntriesOf(S)))
<1>1. PICK e : e = EntriesOf(S)
  OBVIOUS
<1>2. Valued(e)
  BY <1>1, HeightDecodes DEF Extractables
<1>3. /\ KeysOf(aggregateSameEntries(e)) = KeysOf(e)
      /\ DOMAIN aggregateSameEntries(e) = KeysOf(e)
  BY <1>2, Aggregated DEF aggregateSameEntries
<1> QED
  BY <1>1, <1>3 DEF Accepted
=============================================================================
