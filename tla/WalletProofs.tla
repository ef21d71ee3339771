----------------------------- MODULE WalletProofs -----------------------------
(***************************************************************************)
(* The lemmas every proof about the money rests on: what the UPDATEs of    *)
(* Wallet keep, and how a SUM, a COUNT and a least id change when rows do. *)
(*                                                                         *)
(* The provers cannot instantiate an induction rule that takes an operator *)
(* as its parameter.  NatSetInduction and SubsetInduction state induction  *)
(* for a set instead; they follow from the least counterexample.           *)
(***************************************************************************)
EXTENDS Wallet, FiniteSetTheorems, WellFoundedInduction, TLAPS

-----------------------------------------------------------------------------
\* The SET clauses stay inside the row type exactly when their WHERE clause
\* holds: EconomyRepo's guards are what keeps a balance in 0.._MAX_AMOUNT.
THEOREM WalletWrites ==
  ASSUME NEW w \in Wallets, NEW amount \in Nat
  PROVE  /\ CanDebit(w, amount)  => Held(w, amount) \in Wallets
         /\ CanDebit(w, amount)  => Debited(w, amount) \in Wallets
         /\ CanCredit(w, amount) => Released(w, amount) \in Wallets
         /\ CanCredit(w, amount) => Credited(w, amount) \in Wallets
<1>1. /\ w.balance \in 0..MaxAmount /\ w.earned \in Nat /\ w.spent \in Nat
      /\ w = [balance |-> w.balance, earned |-> w.earned, spent |-> w.spent]
  BY DEF Wallets
<1>2. Held(w, amount) = [balance |-> w.balance - amount,
                         earned |-> w.earned, spent |-> w.spent]
  BY <1>1 DEF Held
<1>3. Released(w, amount) = [balance |-> w.balance + amount,
                             earned |-> w.earned, spent |-> w.spent]
  BY <1>1 DEF Released
<1>4. Debited(w, amount) = [balance |-> w.balance - amount,
                            earned |-> w.earned, spent |-> w.spent + amount]
  BY <1>1, <1>2 DEF Debited
<1>5. Credited(w, amount) = [balance |-> w.balance + amount,
                             earned |-> w.earned + amount, spent |-> w.spent]
  BY <1>1, <1>3 DEF Credited
<1>. QED
  BY <1>1, <1>2, <1>3, <1>4, <1>5, MaxAmountAssumption
     DEF Wallets, CanDebit, CanCredit

-----------------------------------------------------------------------------
(* Induction without an operator parameter: over a set of numbers, and     *)
(* over a set of subsets of a finite set.                                  *)

LEMMA NatSetInduction ==
  ASSUME NEW A, 0 \in A, \A n \in Nat : n \in A => n + 1 \in A
  PROVE  \A n \in Nat : n \in A
<1> DEFINE bad == {n \in Nat : n \notin A}
<1> SUFFICES ASSUME bad # {} PROVE FALSE
  OBVIOUS
<1>1. PICK m \in bad : \A n \in bad : ~ (<<n, m>> \in OpToRel(<, Nat))
  <2>1. bad \subseteq Nat
    OBVIOUS
  <2>. HIDE DEF bad
  <2>. QED
    BY <2>1, NatLessThanWellFounded, WFMin, Zenon
<1>2. m \in Nat /\ m - 1 \in Nat
  OBVIOUS
<1>3. m - 1 \in bad
  BY <1>2
<1>4. <<m - 1, m>> \in Nat \X Nat /\ <<m - 1, m>>[1] < <<m - 1, m>>[2]
  BY <1>2
<1>5. <<m - 1, m>> \in OpToRel(<, Nat)
  BY <1>4, Zenon DEF OpToRel
<1>. QED
  BY <1>1, <1>3, <1>5

LEMMA SubsetInduction ==
  ASSUME NEW S, IsFiniteSet(S), NEW A, {} \in A,
         \A s \in SUBSET S, x \in S : s \in A /\ x \notin s => s \cup {x} \in A
  PROVE  \A s \in SUBSET S : s \in A
<1> DEFINE N == {n \in Nat : \A s \in SUBSET S : Cardinality(s) = n => s \in A}
<1>1. \A s \in SUBSET S : IsFiniteSet(s) /\ Cardinality(s) \in Nat
  BY FS_Subset, FS_CardinalityType
<1>2. 0 \in N
  BY <1>1, FS_EmptySet
<1>3. ASSUME NEW n \in Nat, n \in N PROVE n + 1 \in N
  <2> SUFFICES ASSUME NEW s \in SUBSET S, Cardinality(s) = n + 1 PROVE s \in A
    OBVIOUS
  <2>1. PICK x : x \in s
    <3>1. s # {}
      BY FS_EmptySet
    <3>. QED
      BY <3>1
  <2>2. Cardinality(s \ {x}) = n
    <3>1. IsFiniteSet(s) /\ Cardinality(s \ {x}) = Cardinality(s) - 1
      BY <1>1, <2>1, FS_RemoveElement
    <3>. QED
      BY <3>1
  <2>3. s \ {x} \in SUBSET S /\ x \in S /\ (s \ {x}) \cup {x} = s
    BY <2>1
  <2>. QED
    BY <1>3, <2>2, <2>3
<1>4. \A n \in Nat : n \in N
  <2>. HIDE DEF N
  <2>. QED
    BY <1>2, <1>3, NatSetInduction
<1>. QED
  BY <1>1, <1>4

-----------------------------------------------------------------------------
(* ORDER BY ... LIMIT 1 over ids: the least of them is one of them.        *)

LEMMA MinOfNats ==
  ASSUME NEW S \in SUBSET Nat, S # {}
  PROVE  Min(S) \in S /\ \A y \in S : Min(S) <= y
<1>1. PICK x \in S : \A y \in S : ~ (<<y, x>> \in OpToRel(<, Nat))
  BY NatLessThanWellFounded, WFMin, Zenon
<1>2. \A y \in S : x <= y
  <2> SUFFICES ASSUME NEW y \in S, y < x PROVE FALSE
    OBVIOUS
  <2>1. <<y, x>> \in Nat \X Nat /\ <<y, x>>[1] < <<y, x>>[2]
    OBVIOUS
  <2>2. <<y, x>> \in OpToRel(<, Nat)
    BY <2>1, Zenon DEF OpToRel
  <2>. QED
    BY <1>1, <2>2
<1>. QED
  BY <1>2 DEF Min

-----------------------------------------------------------------------------
(* The recursive function of a sum exists, and is the same for every set   *)
(* that contains the summands.                                             *)

Pick(s) == CHOOSE x \in s : TRUE

Unfold(f, g, s) == IF s = {} THEN 0 ELSE f[Pick(s)] + g[s \ {Pick(s)}]

Unfolded(f, S, g) == [s \in SUBSET S |-> Unfold(f, g, s)]

LEMMA SumDef == \A f, S : SumOver(f, S) = (CHOOSE g : g = Unfolded(f, S, g))[S]
  BY Zenon DEF SumOver, FoldFunctionOnSet, MapThenFoldSet, Unfolded, Unfold, Pick

LEMMA PickIn == \A s : s # {} => Pick(s) \in s
  BY DEF Pick

LEMMA PickSmaller ==
  ASSUME NEW s, IsFiniteSet(s), s # {}
  PROVE  /\ Cardinality(s) \in Nat
         /\ Cardinality(s) # 0
         /\ Cardinality(s \ {Pick(s)}) = Cardinality(s) - 1
  BY PickIn, FS_RemoveElement, FS_CardinalityType, FS_EmptySet

LEMMA SumFunctionExists ==
  ASSUME NEW f, NEW S, IsFiniteSet(S)
  PROVE  \E g : g = Unfolded(f, S, g)
<1> DEFINE Fits(g, n) == \A s \in SUBSET S : Cardinality(s) <= n => g[s] = Unfold(f, g, s)
           N == {n \in Nat : \E g : g = [s \in SUBSET S |-> g[s]] /\ Fits(g, n)}
<1>1. \A s \in SUBSET S : IsFiniteSet(s) /\ Cardinality(s) \in Nat
  BY FS_Subset, FS_CardinalityType
<1>2. 0 \in N
  <2> DEFINE g == [s \in SUBSET S |-> 0]
  <2>1. Fits(g, 0)
    BY <1>1, FS_EmptySet DEF Unfold
  <2>. QED
    BY <2>1
<1>3. ASSUME NEW n \in Nat, n \in N PROVE n + 1 \in N
  <2>1. PICK g : Fits(g, n)
    BY <1>3
  <2> DEFINE h == Unfolded(f, S, g)
  <2>2. \A s \in SUBSET S : h[s] = Unfold(f, g, s)
    BY DEF Unfolded
  <2>3. ASSUME NEW s \in SUBSET S, Cardinality(s) <= n + 1
        PROVE  h[s] = Unfold(f, h, s)
    <3>1. CASE s = {}
      BY <2>2, <3>1 DEF Unfold
    <3>2. CASE s # {}
      <4> DEFINE t == s \ {Pick(s)}
      <4>1. t \in SUBSET S /\ Cardinality(t) <= n
        BY <1>1, <2>3, <3>2, PickSmaller
      <4>2. h[t] = g[t]
        BY <2>1, <2>2, <4>1
      <4>. QED
        BY <2>2, <3>2, <4>2 DEF Unfold
    <3>. QED
      BY <3>1, <3>2
  <2>4. h = [s \in SUBSET S |-> h[s]]
    BY DEF Unfolded
  <2>. QED
    <3>. HIDE DEF h
    <3>1. Fits(h, n + 1)
      BY <2>3
    <3>. HIDE DEF Fits
    <3>2. \E k : k = [s \in SUBSET S |-> k[s]] /\ Fits(k, n + 1)
      BY <2>4, <3>1, Zenon
    <3>. QED
      BY <3>2
<1>4. Cardinality(S) \in N
  <2>. HIDE DEF N
  <2>. QED
    BY <1>1, <1>2, <1>3, NatSetInduction
<1>5. PICK g : g = [s \in SUBSET S |-> g[s]] /\ Fits(g, Cardinality(S))
  BY <1>4
<1>6. \A s \in SUBSET S : g[s] = Unfold(f, g, s)
  BY <1>1, <1>5, FS_Subset
<1>. QED
  BY <1>5, <1>6 DEF Unfolded

LEMMA SumFunctionsAgree ==
  ASSUME NEW f, NEW S, IsFiniteSet(S), NEW T \in SUBSET S, NEW g, NEW h,
         g = Unfolded(f, S, g), h = Unfolded(f, T, h)
  PROVE  g[T] = h[T]
<1> DEFINE N == {n \in Nat : \A s \in SUBSET T : Cardinality(s) <= n => g[s] = h[s]}
<1>1. \A s \in SUBSET T : IsFiniteSet(s) /\ Cardinality(s) \in Nat
  BY FS_Subset, FS_CardinalityType
<1>2. \A s \in SUBSET T : g[s] = Unfold(f, g, s) /\ h[s] = Unfold(f, h, s)
  BY DEF Unfolded
<1>3. 0 \in N
  <2> SUFFICES ASSUME NEW s \in SUBSET T, Cardinality(s) <= 0 PROVE g[s] = h[s]
    OBVIOUS
  <2>1. s = {}
    BY <1>1, FS_EmptySet
  <2>. QED
    BY <1>2, <2>1 DEF Unfold
<1>4. ASSUME NEW n \in Nat, n \in N PROVE n + 1 \in N
  <2> SUFFICES ASSUME NEW s \in SUBSET T, Cardinality(s) <= n + 1 PROVE g[s] = h[s]
    OBVIOUS
  <2>1. CASE s = {}
    BY <1>2, <2>1 DEF Unfold
  <2>2. CASE s # {}
    <3> DEFINE t == s \ {Pick(s)}
    <3>1. t \in SUBSET T /\ Cardinality(t) <= n
      BY <1>1, <2>2, PickSmaller
    <3>. QED
      BY <1>2, <1>4, <2>2, <3>1 DEF Unfold
  <2>. QED
    BY <2>1, <2>2
<1>5. Cardinality(T) \in N
  <2>. HIDE DEF N
  <2>. QED
    BY <1>1, <1>3, <1>4, NatSetInduction
<1>. QED
  BY <1>1, <1>5

LEMMA SumUnfold ==
  ASSUME NEW f, NEW S, IsFiniteSet(S)
  PROVE  SumOver(f, S) = IF S = {} THEN 0
                         ELSE f[Pick(S)] + SumOver(f, S \ {Pick(S)})
<1> DEFINE T == S \ {Pick(S)}
           g == CHOOSE k : k = Unfolded(f, S, k)
           h == CHOOSE k : k = Unfolded(f, T, k)
<1>1. IsFiniteSet(T) /\ T \in SUBSET S
  BY FS_Subset
<1>2. g = Unfolded(f, S, g) /\ h = Unfolded(f, T, h)
  BY <1>1, SumFunctionExists
<1>3. SumOver(f, S) = g[S] /\ SumOver(f, T) = h[T]
  BY SumDef
<1>. HIDE DEF g, h
<1>4. g[S] = Unfold(f, g, S)
  BY <1>2 DEF Unfolded
<1>5. g[T] = h[T]
  BY <1>1, <1>2, SumFunctionsAgree
<1>. QED
  BY <1>3, <1>4, <1>5 DEF Unfold

-----------------------------------------------------------------------------
(* What the proofs about the books use.                                    *)

LEMMA SumEmpty == \A f : SumOver(f, {}) = 0
  BY FS_EmptySet, SumUnfold

LEMMA SumInt ==
  ASSUME NEW S, IsFiniteSet(S), NEW f, \A x \in S : f[x] \in Int
  PROVE  \A T \in SUBSET S : SumOver(f, T) \in Int
<1> DEFINE N == {n \in Nat : \A s \in SUBSET S : Cardinality(s) = n => SumOver(f, s) \in Int}
<1>1. \A s \in SUBSET S : IsFiniteSet(s) /\ Cardinality(s) \in Nat
  BY FS_Subset, FS_CardinalityType
<1>2. 0 \in N
  BY <1>1, FS_EmptySet, SumEmpty
<1>3. ASSUME NEW n \in Nat, n \in N PROVE n + 1 \in N
  <2> SUFFICES ASSUME NEW s \in SUBSET S, Cardinality(s) = n + 1 PROVE SumOver(f, s) \in Int
    OBVIOUS
  <2> DEFINE x == Pick(s)
  <2>1. IsFiniteSet(s) /\ s # {}
    BY <1>1, FS_EmptySet
  <2>2. x \in S /\ Cardinality(s \ {x}) = n
    BY <2>1, PickIn, PickSmaller
  <2>3. SumOver(f, s \ {x}) \in Int
    BY <1>3, <2>2
  <2>4. SumOver(f, s) = f[x] + SumOver(f, s \ {x})
    BY <2>1, SumUnfold
  <2>. QED
    BY <2>2, <2>3, <2>4
<1>4. \A n \in Nat : n \in N
  <2>. HIDE DEF N
  <2>. QED
    BY <1>2, <1>3, NatSetInduction
<1>. QED
  BY <1>1, <1>4

\* Any element can be split off, not only the one the definition picks.
LEMMA SumRemove ==
  ASSUME NEW S, IsFiniteSet(S), NEW f, \A y \in S : f[y] \in Int, NEW x \in S
  PROVE  SumOver(f, S) = f[x] + SumOver(f, S \ {x})
<1> DEFINE Splits(s) == \A y \in s : SumOver(f, s) = f[y] + SumOver(f, s \ {y})
           N == {n \in Nat : \A s \in SUBSET S : Cardinality(s) = n => Splits(s)}
<1>1. \A s \in SUBSET S : IsFiniteSet(s) /\ Cardinality(s) \in Nat
  BY FS_Subset, FS_CardinalityType
<1>2. 0 \in N
  BY <1>1, FS_EmptySet
<1>3. ASSUME NEW n \in Nat, n \in N PROVE n + 1 \in N
  <2> SUFFICES ASSUME NEW s \in SUBSET S, Cardinality(s) = n + 1, NEW y \in s
               PROVE  SumOver(f, s) = f[y] + SumOver(f, s \ {y})
    OBVIOUS
  <2> DEFINE p == Pick(s)
  <2>1. IsFiniteSet(s) /\ s # {}
    BY <1>1, FS_EmptySet
  <2>2. p \in s /\ Cardinality(s \ {p}) = n
    BY <2>1, PickIn, PickSmaller
  <2>3. SumOver(f, s) = f[p] + SumOver(f, s \ {p})
    BY <2>1, SumUnfold
  <2>. HIDE DEF p
  <2>4. ASSUME y # p PROVE SumOver(f, s) = f[y] + SumOver(f, s \ {y})
    <3> DEFINE r == s \ {p, y}
    <3>1. r = (s \ {p}) \ {y} /\ r = (s \ {y}) \ {p}
      OBVIOUS
    <3>2. SumOver(f, s \ {p}) = f[y] + SumOver(f, r)
      BY <1>3, <2>2, <2>4, <3>1
    <3>3. Cardinality(s \ {y}) = n
      <4>1. Cardinality(s \ {y}) = Cardinality(s) - 1
        BY <2>1, FS_RemoveElement
      <4>. QED
        BY <4>1
    <3>4. SumOver(f, s \ {y}) = f[p] + SumOver(f, r)
      BY <1>3, <2>2, <2>4, <3>1, <3>3
    <3>5. f[p] \in Int /\ f[y] \in Int /\ SumOver(f, r) \in Int
      BY <2>2, SumInt
    <3>. QED
      BY <2>3, <3>2, <3>4, <3>5
  <2>. QED
    BY <2>3, <2>4
<1>4. \A n \in Nat : n \in N
  <2>. HIDE DEF N
  <2>. QED
    BY <1>2, <1>3, NatSetInduction
<1>. QED
  BY <1>1, <1>4

LEMMA SumAdd ==
  ASSUME NEW S, IsFiniteSet(S), NEW f, NEW x, x \notin S,
         \A y \in S \cup {x} : f[y] \in Int
  PROVE  SumOver(f, S \cup {x}) = SumOver(f, S) + f[x]
<1>1. IsFiniteSet(S \cup {x}) /\ (S \cup {x}) \ {x} = S
  BY FS_AddElement
<1>2. SumOver(f, S) \in Int
  BY SumInt
<1>3. SumOver(f, S \cup {x}) = f[x] + SumOver(f, S)
  BY <1>1, SumRemove
<1>. QED
  BY <1>2, <1>3

LEMMA SumSame ==
  ASSUME NEW S, IsFiniteSet(S), NEW f, NEW g, \A x \in S : f[x] = g[x]
  PROVE  SumOver(f, S) = SumOver(g, S)
<1> DEFINE N == {n \in Nat : \A s \in SUBSET S :
                   Cardinality(s) = n => SumOver(f, s) = SumOver(g, s)}
<1>1. \A s \in SUBSET S : IsFiniteSet(s) /\ Cardinality(s) \in Nat
  BY FS_Subset, FS_CardinalityType
<1>2. 0 \in N
  BY <1>1, FS_EmptySet, SumEmpty
<1>3. ASSUME NEW n \in Nat, n \in N PROVE n + 1 \in N
  <2> SUFFICES ASSUME NEW s \in SUBSET S, Cardinality(s) = n + 1
               PROVE  SumOver(f, s) = SumOver(g, s)
    OBVIOUS
  <2> DEFINE x == Pick(s)
  <2>1. IsFiniteSet(s) /\ s # {}
    BY <1>1, FS_EmptySet
  <2>2. x \in S /\ Cardinality(s \ {x}) = n
    BY <2>1, PickIn, PickSmaller
  <2>3. SumOver(f, s \ {x}) = SumOver(g, s \ {x})
    BY <1>3, <2>2
  <2>4. /\ SumOver(f, s) = f[x] + SumOver(f, s \ {x})
        /\ SumOver(g, s) = g[x] + SumOver(g, s \ {x})
    BY <2>1, SumUnfold
  <2>. QED
    BY <2>2, <2>3, <2>4
<1>4. \A n \in Nat : n \in N
  <2>. HIDE DEF N
  <2>. QED
    BY <1>2, <1>3, NatSetInduction
<1>. QED
  BY <1>1, <1>4

\* One summand changes.
LEMMA SumUpdate ==
  ASSUME NEW S, IsFiniteSet(S), NEW f, NEW g, NEW x \in S,
         \A y \in S : f[y] \in Int, g[x] \in Int,
         \A y \in S : y # x => g[y] = f[y]
  PROVE  SumOver(g, S) = SumOver(f, S) + g[x] - f[x]
<1>1. IsFiniteSet(S \ {x})
  BY FS_RemoveElement
<1>2. SumOver(f, S \ {x}) = SumOver(g, S \ {x}) /\ SumOver(f, S \ {x}) \in Int
  BY <1>1, SumSame, SumInt
<1>3. \A y \in S : g[y] \in Int
  OBVIOUS
<1>4. SumOver(f, S) = f[x] + SumOver(f, S \ {x}) /\ SumOver(g, S) = g[x] + SumOver(g, S \ {x})
  BY <1>3, SumRemove
<1>. QED
  BY <1>2, <1>4

LEMMA SumNat ==
  ASSUME NEW S, IsFiniteSet(S), NEW f, \A x \in S : f[x] \in Nat
  PROVE  /\ SumOver(f, S) \in Nat
         /\ \A x \in S : f[x] <= SumOver(f, S)
<1> DEFINE A == {s \in SUBSET S : SumOver(f, s) \in Nat}
<1>1. \A s \in SUBSET S : IsFiniteSet(s)
  BY FS_Subset
<1>2. {} \in A
  BY SumEmpty
<1>3. ASSUME NEW s \in SUBSET S, NEW x \in S, s \in A, x \notin s
      PROVE  s \cup {x} \in A
  <2>1. IsFiniteSet(s) /\ \A y \in s \cup {x} : f[y] \in Int
    BY <1>1
  <2>2. SumOver(f, s \cup {x}) = SumOver(f, s) + f[x]
    BY <1>3, <2>1, SumAdd
  <2>. QED
    BY <1>3, <2>2
<1>4. \A s \in SUBSET S : s \in A
  <2>. HIDE DEF A
  <2>. QED
    BY <1>2, <1>3, SubsetInduction
<1>5. ASSUME NEW x \in S PROVE f[x] <= SumOver(f, S)
  <2>1. SumOver(f, S) = f[x] + SumOver(f, S \ {x}) /\ SumOver(f, S \ {x}) \in Nat
    BY <1>4, SumRemove
  <2>. QED
    BY <2>1
<1>. QED
  BY <1>4, <1>5

LEMMA SumZero ==
  ASSUME NEW S, IsFiniteSet(S), NEW f, \A x \in S : f[x] = 0
  PROVE  SumOver(f, S) = 0
<1> DEFINE A == {s \in SUBSET S : SumOver(f, s) = 0}
<1>1. \A s \in SUBSET S : IsFiniteSet(s)
  BY FS_Subset
<1>2. {} \in A
  BY SumEmpty
<1>3. ASSUME NEW s \in SUBSET S, NEW x \in S, s \in A, x \notin s
      PROVE  s \cup {x} \in A
  <2>1. IsFiniteSet(s) /\ \A y \in s \cup {x} : f[y] \in Int
    BY <1>1
  <2>2. SumOver(f, s \cup {x}) = SumOver(f, s) + f[x]
    <3>. HIDE DEF A
    <3>. QED
      BY <1>3, <2>1, SumAdd
  <2>. QED
    BY <1>3, <2>2
<1>4. \A s \in SUBSET S : s \in A
  <2>. HIDE DEF A
  <2>. QED
    BY <1>2, <1>3, SubsetInduction
<1>. QED
  BY <1>4

LEMMA SumGrows ==
  ASSUME NEW S, IsFiniteSet(S), NEW f, \A x \in S : f[x] \in Int
  PROVE  \A s \in SUBSET S, x \in S :
           x \notin s => SumOver(f, s \cup {x}) = SumOver(f, s) + f[x]
<1> SUFFICES ASSUME NEW s \in SUBSET S, NEW x \in S, x \notin s
             PROVE  SumOver(f, s \cup {x}) = SumOver(f, s) + f[x]
  OBVIOUS
<1>1. IsFiniteSet(s) /\ \A y \in s \cup {x} : f[y] \in Int
  BY FS_Subset
<1>. QED
  BY <1>1, SumAdd

LEMMA SumPlus ==
  ASSUME NEW S, IsFiniteSet(S), NEW f, NEW g, NEW h,
         \A x \in S : f[x] \in Int /\ g[x] \in Int /\ h[x] = f[x] + g[x]
  PROVE  SumOver(h, S) = SumOver(f, S) + SumOver(g, S)
<1> DEFINE A == {s \in SUBSET S : SumOver(h, s) = SumOver(f, s) + SumOver(g, s)}
<1>1. /\ \A x \in S : f[x] \in Int
      /\ \A x \in S : g[x] \in Int
      /\ \A x \in S : h[x] \in Int
  OBVIOUS
<1>2. {} \in A
  BY SumEmpty
<1>3. /\ \A s \in SUBSET S, x \in S :
           x \notin s => SumOver(f, s \cup {x}) = SumOver(f, s) + f[x]
      /\ \A s \in SUBSET S, x \in S :
           x \notin s => SumOver(g, s \cup {x}) = SumOver(g, s) + g[x]
      /\ \A s \in SUBSET S, x \in S :
           x \notin s => SumOver(h, s \cup {x}) = SumOver(h, s) + h[x]
  BY <1>1, SumGrows
<1>4. ASSUME NEW s \in SUBSET S, NEW x \in S, s \in A, x \notin s
      PROVE  s \cup {x} \in A
  <2>1. SumOver(f, s) \in Int /\ SumOver(g, s) \in Int
    BY <1>1, SumInt
  <2>. QED
    BY <1>1, <1>3, <1>4, <2>1
<1>5. \A s \in SUBSET S : s \in A
  <2>. HIDE DEF A
  <2>. QED
    BY <1>2, <1>4, SubsetInduction
<1>. QED
  BY <1>5

\* A summand that is zero outside T sums over T alone.
LEMMA SumWhere ==
  ASSUME NEW S, IsFiniteSet(S), NEW T \in SUBSET S, NEW f, NEW g,
         \A x \in T : f[x] \in Int, \A x \in S : g[x] = IF x \in T THEN f[x] ELSE 0
  PROVE  SumOver(g, S) = SumOver(f, T)
<1> DEFINE A == {s \in SUBSET S : SumOver(g, s) = SumOver(f, s \cap T)}
<1>1. \A s \in SUBSET S : IsFiniteSet(s) /\ IsFiniteSet(s \cap T)
  <2> SUFFICES ASSUME NEW s \in SUBSET S PROVE IsFiniteSet(s) /\ IsFiniteSet(s \cap T)
    OBVIOUS
  <2>1. s \cap T \in SUBSET S
    OBVIOUS
  <2>. QED
    BY <2>1, FS_Subset
<1>2. {} \in A
  <2>1. {} \cap T = {}
    OBVIOUS
  <2>. QED
    BY <2>1, SumEmpty
<1>3. ASSUME NEW s \in SUBSET S, NEW x \in S, s \in A, x \notin s
      PROVE  s \cup {x} \in A
  <2>1. /\ IsFiniteSet(s) /\ IsFiniteSet(s \cap T)
        /\ \A y \in s \cup {x} : g[y] \in Int
        /\ \A y \in s \cap T : f[y] \in Int
    BY <1>1
  <2>2. SumOver(g, s) = SumOver(f, s \cap T)
    BY <1>3
  <2>3. SumOver(f, s \cap T) \in Int
    BY <2>1, SumInt
  <2> HIDE DEF A
  <2>4. SumOver(g, s \cup {x}) = SumOver(g, s) + g[x]
    BY <1>3, <2>1, SumAdd
  <2>5. CASE x \in T
    <3>1. (s \cup {x}) \cap T = (s \cap T) \cup {x}
      BY <2>5
    <3>2. x \notin s \cap T /\ \A y \in (s \cap T) \cup {x} : f[y] \in Int
      BY <1>3, <2>5
    <3>3. SumOver(f, (s \cap T) \cup {x}) = SumOver(f, s \cap T) + f[x]
      BY <2>1, <3>2, SumAdd
    <3>. QED
      BY <2>2, <2>4, <2>5, <3>1, <3>3 DEF A
  <2>6. CASE x \notin T
    <3>1. (s \cup {x}) \cap T = s \cap T
      BY <2>6
    <3>2. SumOver(f, (s \cup {x}) \cap T) = SumOver(f, s \cap T)
      BY <3>1, Zenon
    <3>3. g[x] = 0
      BY <2>6
    <3>4. SumOver(g, s \cup {x}) = SumOver(f, s \cap T)
      BY <2>2, <2>3, <2>4, <3>3
    <3>. QED
      BY <3>2, <3>4 DEF A
  <2>. QED
    BY <2>5, <2>6
<1>4. \A s \in SUBSET S : s \in A
  <2>. HIDE DEF A
  <2>. QED
    BY <1>2, <1>3, SubsetInduction
<1>5. S \cap T = T
  OBVIOUS
<1>. QED
  BY <1>4, <1>5

\* One row of a table changes: in value, or by entering or leaving the rows summed.
LEMMA SumOfRows ==
  ASSUME NEW S, IsFiniteSet(S), NEW A \in SUBSET S, NEW B \in SUBSET S, NEW f, NEW g,
         \A y \in A : f[y] \in Int, \A y \in B : g[y] \in Int, NEW x \in S,
         \A y \in S : y # x => /\ y \in A <=> y \in B
                               /\ y \in A => g[y] = f[y]
  PROVE  /\ SumOver(f, A) \in Int /\ SumOver(g, B) \in Int
         /\ SumOver(g, B) = SumOver(f, A) + (IF x \in B THEN g[x] ELSE 0)
                                          - (IF x \in A THEN f[x] ELSE 0)
<1> DEFINE rest == A \ {x}
<1>1. IsFiniteSet(A) /\ IsFiniteSet(B) /\ IsFiniteSet(rest)
  BY FS_Subset
<1>2. rest = B \ {x} /\ \A y \in rest : g[y] = f[y]
  OBVIOUS
<1>3. SumOver(g, rest) = SumOver(f, rest)
  BY <1>1, <1>2, SumSame
<1>4. SumOver(f, A) \in Int /\ SumOver(g, B) \in Int /\ SumOver(f, rest) \in Int
  BY <1>1, SumInt
<1>5. SumOver(f, A) = SumOver(f, rest) + (IF x \in A THEN f[x] ELSE 0)
  <2>1. CASE x \in A
    BY <1>1, <1>4, <2>1, SumRemove
  <2>2. CASE x \notin A
    <3>1. rest = A
      BY <2>2
    <3>. HIDE DEF rest
    <3>2. SumOver(f, A) = SumOver(f, rest)
      BY <3>1
    <3>. QED
      BY <1>4, <2>2, <3>2
  <2>. QED
    BY <2>1, <2>2
<1>6. SumOver(g, B) = SumOver(f, rest) + (IF x \in B THEN g[x] ELSE 0)
  <2>1. CASE x \in B
    BY <1>1, <1>2, <1>3, <1>4, <2>1, SumRemove
  <2>2. CASE x \notin B
    <3>1. rest = B
      BY <1>2, <2>2
    <3>. QED
      BY <1>3, <1>4, <2>2, <3>1
  <2>. QED
    BY <2>1, <2>2
<1>. HIDE DEF rest
<1>7. (x \in A => f[x] \in Int) /\ (x \in B => g[x] \in Int)
  OBVIOUS
<1>. QED
  BY <1>4, <1>5, <1>6, <1>7

\* The same for a COUNT.
LEMMA CountOfRows ==
  ASSUME NEW S, IsFiniteSet(S), NEW A \in SUBSET S, NEW B \in SUBSET S, NEW x \in S,
         \A y \in S : y # x => (y \in A <=> y \in B)
  PROVE  /\ Cardinality(A) \in Nat /\ Cardinality(B) \in Nat
         /\ Cardinality(B) = Cardinality(A) + (IF x \in B THEN 1 ELSE 0)
                                            - (IF x \in A THEN 1 ELSE 0)
<1> DEFINE rest == A \ {x}
<1>1. IsFiniteSet(A) /\ IsFiniteSet(B) /\ IsFiniteSet(rest)
  BY FS_Subset
<1>2. rest = B \ {x}
  OBVIOUS
<1>3. Cardinality(A) \in Nat /\ Cardinality(B) \in Nat /\ Cardinality(rest) \in Nat
  BY <1>1, FS_CardinalityType
<1>4. Cardinality(rest) = IF x \in A THEN Cardinality(A) - 1 ELSE Cardinality(A)
  BY <1>1, FS_RemoveElement
<1>5. Cardinality(rest) = IF x \in B THEN Cardinality(B) - 1 ELSE Cardinality(B)
  BY <1>1, <1>2, FS_RemoveElement
<1>. QED
  BY <1>3, <1>4, <1>5

\* Two entries of a sum are written.
LEMMA SumUpdateTwo ==
  ASSUME NEW S, IsFiniteSet(S), NEW f, NEW g, NEW x \in S, NEW y \in S, x # y,
         \A z \in S : f[z] \in Int, g[x] \in Int, g[y] \in Int,
         \A z \in S : z # x /\ z # y => g[z] = f[z]
  PROVE  SumOver(g, S) = SumOver(f, S) + g[x] - f[x] + g[y] - f[y]
<1> DEFINE U == S \ {x}
           V == U \ {y}
<1>1. /\ IsFiniteSet(U) /\ IsFiniteSet(V) /\ y \in U
      /\ \A z \in V : g[z] = f[z]
  BY FS_RemoveElement
<1>2. \A z \in S : g[z] \in Int
  OBVIOUS
<1>3. SumOver(f, S) = f[x] + SumOver(f, U) /\ SumOver(g, S) = g[x] + SumOver(g, U)
  BY <1>2, SumRemove
<1>4. SumOver(f, U) = f[y] + SumOver(f, V) /\ SumOver(g, U) = g[y] + SumOver(g, V)
  <2>1. (\A z \in U : f[z] \in Int) /\ (\A z \in U : g[z] \in Int)
    BY <1>2
  <2>. HIDE DEF U
  <2>. QED
    BY <1>1, <2>1, SumRemove
<1>5. SumOver(f, V) = SumOver(g, V) /\ SumOver(f, V) \in Int
  <2>1. \A z \in V : f[z] \in Int
    OBVIOUS
  <2>. HIDE DEF V
  <2>. QED
    BY <1>1, <2>1, SumSame, SumInt
<1>. HIDE DEF U, V
<1>. QED
  BY <1>3, <1>4, <1>5

\* The same amount for every member of a subset, and nothing for the others.
LEMMA SumConstant ==
  ASSUME NEW S, IsFiniteSet(S), NEW T \in SUBSET S, NEW r \in Nat, NEW f,
         \A x \in S : f[x] = IF x \in T THEN r ELSE 0
  PROVE  SumOver(f, S) = r * Cardinality(T)
<1> DEFINE A == {s \in SUBSET T : SumOver(f, s) = r * Cardinality(s)}
<1>1. IsFiniteSet(T) /\ IsFiniteSet(S \ T) /\ \A s \in SUBSET T : IsFiniteSet(s)
  BY FS_Subset
<1>2. {} \in A
  BY SumEmpty, FS_EmptySet
<1>3. ASSUME NEW s \in SUBSET T, NEW x \in T, s \in A, x \notin s
      PROVE  s \cup {x} \in A
  <2>1. IsFiniteSet(s) /\ Cardinality(s) \in Nat
    BY <1>1, FS_CardinalityType
  <2>2. Cardinality(s \cup {x}) = Cardinality(s) + 1
    BY <1>3, <2>1, FS_AddElement
  <2>3. SumOver(f, s \cup {x}) = SumOver(f, s) + r
    <3>1. f[x] = r /\ \A y \in s \cup {x} : f[y] \in Int
      OBVIOUS
    <3>. HIDE DEF A
    <3>. QED
      BY <1>3, <2>1, <3>1, SumAdd
  <2>4. r * Cardinality(s) + r = r * (Cardinality(s) + 1)
    BY <2>1
  <2>. QED
    BY <1>3, <2>2, <2>3, <2>4
<1>4. \A s \in SUBSET T : s \in A
  <2>. HIDE DEF A
  <2>. QED
    BY <1>1, <1>2, <1>3, SubsetInduction
<1>5. SumOver(f, T) = r * Cardinality(T) /\ SumOver(f, T) \in Int
  BY <1>1, <1>4, SumInt
<1> DEFINE B == {s \in SUBSET (S \ T) : SumOver(f, T \cup s) = SumOver(f, T)}
<1>7. {} \in B
  OBVIOUS
<1>8. ASSUME NEW s \in SUBSET (S \ T), NEW x \in S \ T, s \in B, x \notin s
      PROVE  s \cup {x} \in B
  <2>1. /\ IsFiniteSet(T \cup s) /\ x \notin T \cup s
        /\ (T \cup s) \cup {x} = T \cup (s \cup {x})
        /\ \A y \in (T \cup s) \cup {x} : f[y] \in Int
    BY <1>8, FS_Subset
  <2>2. SumOver(f, (T \cup s) \cup {x}) = SumOver(f, T \cup s) + f[x]
    <3>. HIDE DEF B
    <3>. QED
      BY <2>1, SumAdd
  <2>3. f[x] = 0 /\ SumOver(f, T) \in Int
    BY <1>5
  <2>4. SumOver(f, T \cup s) = SumOver(f, T)
    BY <1>8
  <2>5. SumOver(f, T \cup (s \cup {x})) = SumOver(f, (T \cup s) \cup {x})
    BY <2>1, Zenon
  <2>6. SumOver(f, T \cup (s \cup {x})) = SumOver(f, T)
    <3> DEFINE a == SumOver(f, T \cup (s \cup {x}))
               b == SumOver(f, (T \cup s) \cup {x})
               e == SumOver(f, T \cup s)
               d == SumOver(f, T)
    <3>1. a = b /\ b = e + f[x] /\ f[x] = 0 /\ d \in Int /\ e = d
      BY <2>2, <2>3, <2>4, <2>5, Zenon
    <3>. HIDE DEF a, b, d, e
    <3>2. a = d
      BY <3>1
    <3>. QED
      BY <3>2 DEF a, d
  <2>. QED
    BY <1>8, <2>6
<1>9. \A s \in SUBSET (S \ T) : s \in B
  <2> DEFINE U == S \ T
  <2>1. /\ IsFiniteSet(U) /\ {} \in B
        /\ \A s \in SUBSET U, x \in U : s \in B /\ x \notin s => s \cup {x} \in B
    BY <1>1, <1>7, <1>8
  <2> HIDE DEF U, B
  <2>2. \A s \in SUBSET U : s \in B
    BY <2>1, SubsetInduction
  <2>. QED
    BY <2>2 DEF U
<1>10. S \ T \in B /\ T \cup (S \ T) = S
  BY <1>9
<1>. QED
  BY <1>5, <1>10
=============================================================================
