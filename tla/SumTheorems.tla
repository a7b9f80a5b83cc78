---------------------------- MODULE SumTheorems ----------------------------
(***************************************************************************)
(* Facts about SumFunctionOnSet, the sum of a function's values over a     *)
(* finite set.  They rest on induction over finite sets, in the form of    *)
(* the least counterexample: a family of subsets that contains every       *)
(* subset of which it contains all proper subsets contains them all.       *)
(***************************************************************************)
EXTENDS Functions, FiniteSetTheorems, TLAPS

\* Induction over the subsets of a finite set.
LEMMA SubsetInduction ==
    ASSUME NEW S, IsFiniteSet(S), NEW Good,
           \A T \in SUBSET S : (\A U \in SUBSET T : U # T => U \in Good) => T \in Good
    PROVE  \A T \in SUBSET S : T \in Good
  <1> DEFINE Bad == {T \in SUBSET S : T \notin Good}
  <1>1. SUFFICES ASSUME Bad # {} PROVE FALSE OBVIOUS
  <1>2. FiniteSubsetsOf(S) = SUBSET S BY FS_FiniteSubsetsOfFinite
  <1>3. IsWellFoundedOn(StrictSubsetOrdering(S), SUBSET S)
    BY <1>2, FS_StrictSubsetOrderingWellFounded
  <1>4. Bad \subseteq SUBSET S OBVIOUS
  <1> HIDE DEF Bad
  <1>5. PICK T \in Bad : \A U \in Bad : ~(<<U, T>> \in StrictSubsetOrdering(S))
    BY <1>1, <1>3, <1>4, WFMin
  <1>6. T \in SUBSET S BY <1>4
  <1>7. ASSUME NEW U \in SUBSET T, U # T PROVE U \in Good
    <2>1. U \in SUBSET S BY <1>6
    <2>2. <<U, T>> \in StrictSubsetOrdering(S) BY <1>6, <1>7, <2>1 DEF StrictSubsetOrdering
    <2> QED BY <1>5, <2>1, <2>2 DEF Bad
  <1> QED BY <1>6, <1>7 DEF Bad

-----------------------------------------------------------------------------
(* The recursive function behind the sum exists and is unique.             *)

Pick(T) == CHOOSE x \in T : TRUE

Sums(g, f, S) == g = [T \in SUBSET S |-> IF T = {} THEN 0 ELSE f[Pick(T)] + g[T \ {Pick(T)}]]

\* Two such functions agree where both are defined.
LEMMA SumsUnique ==
    ASSUME NEW f, NEW S, IsFiniteSet(S), NEW A, NEW B, S \subseteq A, S \subseteq B,
           NEW g, Sums(g, f, A), NEW h, Sums(h, f, B)
    PROVE  g[S] = h[S]
  <1> DEFINE Good == {T \in SUBSET S : g[T] = h[T]}
  <1>1. ASSUME NEW T \in SUBSET S, \A U \in SUBSET T : U # T => U \in Good
        PROVE  T \in Good
    <2>1. T \in SUBSET A /\ T \in SUBSET B OBVIOUS
    <2>2. CASE T = {} BY <2>1, <2>2 DEF Sums
    <2>3. CASE T # {}
      <3> DEFINE x == Pick(T)
      <3>1. x \in T BY <2>3 DEF Pick
      <3>2. g[T \ {x}] = h[T \ {x}] BY <1>1, <3>1
      <3>3. g[T] = f[x] + g[T \ {x}] BY <2>1, <2>3 DEF Sums
      <3>4. h[T] = f[x] + h[T \ {x}] BY <2>1, <2>3 DEF Sums
      <3> QED BY <3>2, <3>3, <3>4
    <2> QED BY <2>2, <2>3
  <1> HIDE DEF Good
  <1>2. \A T \in SUBSET S : T \in Good BY <1>1, SubsetInduction
  <1> QED BY <1>2 DEF Good

\* One exists for every finite set.
LEMMA SumsExists ==
    ASSUME NEW f, NEW S, IsFiniteSet(S)
    PROVE  \E g : Sums(g, f, S)
  <1> DEFINE Good == {T \in SUBSET S : \E g : Sums(g, f, T)}
             Some(T) == CHOOSE g : Sums(g, f, T)
  <1>1. ASSUME NEW T \in SUBSET S, \A U \in SUBSET T : U # T => U \in Good
        PROVE  T \in Good
    <2> DEFINE rest == T \ {Pick(T)}
               top == IF T = {} THEN 0 ELSE f[Pick(T)] + Some(rest)[rest]
               g == [U \in SUBSET T |-> IF U = T THEN top ELSE Some(U)[U]]
    <2>1. \A U \in SUBSET T : U # T => Sums(Some(U), f, U) BY <1>1
    <2>2. ASSUME NEW U \in SUBSET T
          PROVE  g[U] = IF U = {} THEN 0 ELSE f[Pick(U)] + g[U \ {Pick(U)}]
      <3>1. U # {} => Pick(U) \in U BY DEF Pick
      <3>2. U # {} => U \ {Pick(U)} \in SUBSET T /\ U \ {Pick(U)} # T BY <3>1
      <3>3. CASE U = T
        <4>1. U # {} => g[U \ {Pick(U)}] = Some(rest)[rest] BY <3>2, <3>3
        <4> QED BY <3>3, <4>1
      <3>4. CASE U # T
        <4>1. Sums(Some(U), f, U) BY <2>1, <3>4
        <4>2. g[U] = Some(U)[U] BY <3>4
        <4>3. U \in SUBSET U OBVIOUS
        <4> HIDE DEF g
        <4>4. g[U] = IF U = {} THEN 0 ELSE f[Pick(U)] + Some(U)[U \ {Pick(U)}]
          <5> HIDE DEF Some
          <5> QED BY <4>1, <4>2, <4>3 DEF Sums
        <4>5. ASSUME U # {} PROVE Some(U)[U \ {Pick(U)}] = g[U \ {Pick(U)}]
          <5> DEFINE V == U \ {Pick(U)}
          <5>1. g[V] = Some(V)[V] BY <3>2, <4>5 DEF g
          <5>2. Sums(Some(V), f, V) BY <2>1, <3>2, <4>5
          <5>3. IsFiniteSet(V) BY FS_Subset
          <5>4. V \subseteq U OBVIOUS
          <5> HIDE DEF Some, V
          <5>5. Some(U)[V] = Some(V)[V] BY <4>1, <5>2, <5>3, <5>4, SumsUnique
          <5> QED BY <5>1, <5>5 DEF V
        <4> QED BY <4>4, <4>5
      <3> QED BY <3>3, <3>4
    <2>3. g = [U \in SUBSET T |-> g[U]] OBVIOUS
    <2> HIDE DEF g
    <2>4. Sums(g, f, T) BY <2>2, <2>3 DEF Sums
    <2> QED BY <2>4
  <1> HIDE DEF Good
  <1>2. \A T \in SUBSET S : T \in Good BY <1>1, SubsetInduction
  <1> QED BY <1>2 DEF Good

\* The sum of a set is that of its subsets' function.
LEMMA SumIsSums ==
    ASSUME NEW f, NEW S, IsFiniteSet(S), NEW A, S \subseteq A, NEW g, Sums(g, f, A)
    PROVE  SumFunctionOnSet(f, S) = g[S]
  <1> DEFINE h == CHOOSE h : Sums(h, f, S)
  <1>1. SumFunctionOnSet(f, S) = h[S]
    BY DEF SumFunctionOnSet, FoldFunctionOnSet, MapThenFoldSet, Sums, Pick
  <1>2. Sums(h, f, S) BY SumsExists
  <1> HIDE DEF h
  <1> QED BY <1>1, <1>2, SumsUnique

-----------------------------------------------------------------------------
(* What the proofs use: the sum of integers over a finite set.             *)

\* Nothing adds up to zero.
LEMMA SumEmpty == ASSUME NEW f PROVE SumFunctionOnSet(f, {}) = 0
  <1>1. IsFiniteSet({}) BY FS_EmptySet
  <1>2. PICK g : Sums(g, f, {}) BY <1>1, SumsExists
  <1>3. SumFunctionOnSet(f, {}) = g[{}] BY <1>1, <1>2, SumIsSums
  <1> QED BY <1>2, <1>3 DEF Sums

\* The sum takes the chosen element first.
LEMMA SumOfPick ==
    ASSUME NEW f, NEW S, IsFiniteSet(S), S # {}
    PROVE  Pick(S) \in S /\ SumFunctionOnSet(f, S) = f[Pick(S)] + SumFunctionOnSet(f, S \ {Pick(S)})
  <1> DEFINE R == S \ {Pick(S)}
  <1>0. Pick(S) \in S BY DEF Pick
  <1>1. PICK g : Sums(g, f, S) BY SumsExists
  <1>2. IsFiniteSet(R) /\ R \subseteq S BY FS_Subset
  <1> HIDE DEF R
  <1>3. SumFunctionOnSet(f, S) = g[S] BY <1>1, SumIsSums
  <1>4. SumFunctionOnSet(f, R) = g[R] BY <1>1, <1>2, SumIsSums
  <1>5. S \in SUBSET S OBVIOUS
  <1>6. g[S] = f[Pick(S)] + g[S \ {Pick(S)}] BY <1>1, <1>5 DEF Sums
  <1> QED BY <1>0, <1>3, <1>4, <1>6 DEF R

\* A sum of integers is an integer.
LEMMA SumInt ==
    ASSUME NEW f, NEW S, IsFiniteSet(S), \A x \in S : f[x] \in Int
    PROVE  SumFunctionOnSet(f, S) \in Int
  <1> DEFINE Good == {T \in SUBSET S : SumFunctionOnSet(f, T) \in Int}
  <1>1. ASSUME NEW T \in SUBSET S, \A U \in SUBSET T : U # T => U \in Good
        PROVE  T \in Good
    <2>1. CASE T = {} BY <2>1, SumEmpty
    <2>2. CASE T # {}
      <3>1. IsFiniteSet(T) BY FS_Subset
      <3>2. Pick(T) \in T /\ SumFunctionOnSet(f, T) = f[Pick(T)] + SumFunctionOnSet(f, T \ {Pick(T)})
        BY <2>2, <3>1, SumOfPick
      <3>3. SumFunctionOnSet(f, T \ {Pick(T)}) \in Int BY <1>1, <3>2
      <3> QED BY <3>2, <3>3
    <2> QED BY <2>1, <2>2
  <1> HIDE DEF Good
  <1>2. \A T \in SUBSET S : T \in Good BY <1>1, SubsetInduction
  <1> QED BY <1>2 DEF Good

\* The order of summation does not matter: any element can be taken out.
LEMMA SumRemove ==
    ASSUME NEW f, NEW S, IsFiniteSet(S), \A x \in S : f[x] \in Int, NEW a \in S
    PROVE  SumFunctionOnSet(f, S) = f[a] + SumFunctionOnSet(f, S \ {a})
  <1> DEFINE Sm(T) == SumFunctionOnSet(f, T)
             Good == {T \in SUBSET S : \A x \in T : Sm(T) = f[x] + Sm(T \ {x})}
  <1>0. \A T \in SUBSET S : IsFiniteSet(T) /\ Sm(T) \in Int BY FS_Subset, SumInt
  <1>1. ASSUME NEW T \in SUBSET S, \A U \in SUBSET T : U # T => U \in Good
        PROVE  T \in Good
    <2> SUFFICES ASSUME NEW x \in T PROVE Sm(T) = f[x] + Sm(T \ {x}) OBVIOUS
    <2> DEFINE p == Pick(T)
    <2>1. p \in T /\ Sm(T) = f[p] + Sm(T \ {p}) BY <1>0, SumOfPick
    <2>2. CASE x = p BY <2>1, <2>2
    <2>3. CASE x # p
      <3>1. T \ {p} \in Good /\ T \ {x} \in Good BY <1>1, <2>1
      <3>2. Sm(T \ {p}) = f[x] + Sm((T \ {p}) \ {x}) BY <2>3, <3>1
      <3>3. Sm(T \ {x}) = f[p] + Sm((T \ {x}) \ {p}) BY <2>1, <2>3, <3>1
      <3>4. (T \ {p}) \ {x} = (T \ {x}) \ {p} OBVIOUS
      <3>5. Sm((T \ {x}) \ {p}) \in Int /\ f[x] \in Int /\ f[p] \in Int BY <1>0, <2>1
      <3>6. \A k \in Int : f[p] + (f[x] + k) = f[x] + (f[p] + k) BY <3>5
      <3> QED BY Zenon, <2>1, <3>2, <3>3, <3>4, <3>5, <3>6
    <2> QED BY <2>2, <2>3
  <1> HIDE DEF Good
  <1>2. \A T \in SUBSET S : T \in Good BY <1>1, SubsetInduction
  <1> QED BY <1>2 DEF Good

\* A new element adds its value.
LEMMA SumAdd ==
    ASSUME NEW f, NEW S, IsFiniteSet(S), NEW a, a \notin S, \A x \in S \cup {a} : f[x] \in Int
    PROVE  /\ IsFiniteSet(S \cup {a})
           /\ SumFunctionOnSet(f, S \cup {a}) = f[a] + SumFunctionOnSet(f, S)
  <1>1. IsFiniteSet(S \cup {a}) BY FS_AddElement
  <1>2. (S \cup {a}) \ {a} = S OBVIOUS
  <1> QED BY <1>1, <1>2, SumRemove

\* The sum looks only at the values on the set.
LEMMA SumSame ==
    ASSUME NEW f, NEW g, NEW S, IsFiniteSet(S), \A x \in S : f[x] = g[x]
    PROVE  SumFunctionOnSet(f, S) = SumFunctionOnSet(g, S)
  <1> DEFINE Good == {T \in SUBSET S : SumFunctionOnSet(f, T) = SumFunctionOnSet(g, T)}
  <1>1. ASSUME NEW T \in SUBSET S, \A U \in SUBSET T : U # T => U \in Good
        PROVE  T \in Good
    <2>1. CASE T = {} BY <2>1, SumEmpty
    <2>2. CASE T # {}
      <3>1. IsFiniteSet(T) BY FS_Subset
      <3>2. /\ Pick(T) \in T
            /\ SumFunctionOnSet(f, T) = f[Pick(T)] + SumFunctionOnSet(f, T \ {Pick(T)})
            /\ SumFunctionOnSet(g, T) = g[Pick(T)] + SumFunctionOnSet(g, T \ {Pick(T)})
        BY <2>2, <3>1, SumOfPick
      <3>3. T \ {Pick(T)} \in Good BY <1>1, <3>2
      <3> QED BY <3>2, <3>3
    <2> QED BY <2>1, <2>2
  <1> HIDE DEF Good
  <1>2. \A T \in SUBSET S : T \in Good BY <1>1, SubsetInduction
  <1> QED BY <1>2 DEF Good

\* Changing one value changes the sum by the difference.
LEMMA SumChange ==
    ASSUME NEW f, NEW g, NEW S, IsFiniteSet(S), NEW a \in S,
           \A x \in S : f[x] \in Int /\ g[x] \in Int, \A x \in S : x # a => f[x] = g[x]
    PROVE  SumFunctionOnSet(g, S) = SumFunctionOnSet(f, S) - f[a] + g[a]
  <1> DEFINE R == S \ {a}
  <1>1. IsFiniteSet(R) /\ \A x \in R : f[x] \in Int /\ f[x] = g[x] BY FS_Subset
  <1>2. SumFunctionOnSet(f, S) = f[a] + SumFunctionOnSet(f, R) BY SumRemove
  <1>3. SumFunctionOnSet(g, S) = g[a] + SumFunctionOnSet(g, R) BY SumRemove
  <1> HIDE DEF R
  <1>4. SumFunctionOnSet(f, R) = SumFunctionOnSet(g, R) BY <1>1, SumSame
  <1>5. SumFunctionOnSet(f, R) \in Int BY <1>1, SumInt
  <1> QED BY <1>2, <1>3, <1>4, <1>5

\* A sum is monotonic.
LEMMA SumMonotonic ==
    ASSUME NEW f, NEW g, NEW S, IsFiniteSet(S),
           \A x \in S : f[x] \in Int /\ g[x] \in Int /\ f[x] <= g[x]
    PROVE  SumFunctionOnSet(f, S) <= SumFunctionOnSet(g, S)
  <1> DEFINE Good == {T \in SUBSET S : SumFunctionOnSet(f, T) <= SumFunctionOnSet(g, T)}
  <1>0. \A T \in SUBSET S : /\ IsFiniteSet(T)
                            /\ SumFunctionOnSet(f, T) \in Int /\ SumFunctionOnSet(g, T) \in Int
    BY FS_Subset, SumInt
  <1>1. ASSUME NEW T \in SUBSET S, \A U \in SUBSET T : U # T => U \in Good
        PROVE  T \in Good
    <2>1. CASE T = {} BY <2>1, SumEmpty
    <2>2. CASE T # {}
      <3>1. IsFiniteSet(T) BY <1>0
      <3>2. /\ Pick(T) \in T
            /\ SumFunctionOnSet(f, T) = f[Pick(T)] + SumFunctionOnSet(f, T \ {Pick(T)})
            /\ SumFunctionOnSet(g, T) = g[Pick(T)] + SumFunctionOnSet(g, T \ {Pick(T)})
        BY <2>2, <3>1, SumOfPick
      <3>3. T \ {Pick(T)} \in Good BY <1>1, <3>2
      <3>4. f[Pick(T)] \in Int /\ g[Pick(T)] \in Int /\ f[Pick(T)] <= g[Pick(T)] BY <3>2
      <3>5. T \ {Pick(T)} \in SUBSET S OBVIOUS
      <3> QED BY <1>0, <3>2, <3>3, <3>4, <3>5
    <2> QED BY <2>1, <2>2
  <1> HIDE DEF Good
  <1>2. \A T \in SUBSET S : T \in Good BY <1>1, SubsetInduction
  <1> QED BY <1>2 DEF Good

\* A sum of natural numbers is one, and no part of it exceeds it.
LEMMA SumNat ==
    ASSUME NEW f, NEW S, IsFiniteSet(S), \A x \in S : f[x] \in Nat
    PROVE  /\ SumFunctionOnSet(f, S) \in Nat
           /\ \A x \in S : f[x] <= SumFunctionOnSet(f, S)
  <1> DEFINE Good == {T \in SUBSET S : SumFunctionOnSet(f, T) \in Nat}
  <1>1. ASSUME NEW T \in SUBSET S, \A U \in SUBSET T : U # T => U \in Good
        PROVE  T \in Good
    <2>1. CASE T = {} BY <2>1, SumEmpty
    <2>2. CASE T # {}
      <3>1. IsFiniteSet(T) BY FS_Subset
      <3>2. Pick(T) \in T /\ SumFunctionOnSet(f, T) = f[Pick(T)] + SumFunctionOnSet(f, T \ {Pick(T)})
        BY <2>2, <3>1, SumOfPick
      <3>3. SumFunctionOnSet(f, T \ {Pick(T)}) \in Nat BY <1>1, <3>2
      <3> QED BY <3>2, <3>3
    <2> QED BY <2>1, <2>2
  <1> HIDE DEF Good
  <1>2. \A T \in SUBSET S : T \in Good BY <1>1, SubsetInduction
  <1>3. \A T \in SUBSET S : SumFunctionOnSet(f, T) \in Nat BY <1>2 DEF Good
  <1>4. ASSUME NEW x \in S PROVE f[x] <= SumFunctionOnSet(f, S)
    <2>1. SumFunctionOnSet(f, S) = f[x] + SumFunctionOnSet(f, S \ {x}) BY SumRemove
    <2>2. SumFunctionOnSet(f, S \ {x}) \in Nat BY <1>3
    <2> QED BY <2>1, <2>2
  <1> QED BY <1>3, <1>4

\* A function that agrees with another but for one more element adds that element.
LEMMA SumExtend ==
    ASSUME NEW f, NEW g, NEW S, IsFiniteSet(S), NEW a, a \notin S,
           \A x \in S \cup {a} : g[x] \in Int, \A x \in S : f[x] = g[x]
    PROVE  /\ SumFunctionOnSet(g, S \cup {a}) = g[a] + SumFunctionOnSet(f, S)
           /\ SumFunctionOnSet(f, S) \in Int
  <1>1. SumFunctionOnSet(g, S \cup {a}) = g[a] + SumFunctionOnSet(g, S) BY SumAdd
  <1>2. SumFunctionOnSet(f, S) = SumFunctionOnSet(g, S) BY SumSame
  <1>3. SumFunctionOnSet(g, S) \in Int BY SumInt
  <1> QED BY <1>1, <1>2, <1>3

\* A sum of nothing but zeros is zero.
LEMMA SumZero ==
    ASSUME NEW f, NEW S, IsFiniteSet(S), \A x \in S : f[x] = 0
    PROVE  SumFunctionOnSet(f, S) = 0
  <1> DEFINE Good == {T \in SUBSET S : SumFunctionOnSet(f, T) = 0}
  <1>1. ASSUME NEW T \in SUBSET S, \A U \in SUBSET T : U # T => U \in Good
        PROVE  T \in Good
    <2>1. CASE T = {} BY <2>1, SumEmpty
    <2>2. CASE T # {}
      <3>1. IsFiniteSet(T) BY FS_Subset
      <3>2. Pick(T) \in T /\ SumFunctionOnSet(f, T) = f[Pick(T)] + SumFunctionOnSet(f, T \ {Pick(T)})
        BY <2>2, <3>1, SumOfPick
      <3>3. T \ {Pick(T)} \in Good BY <1>1, <3>2
      <3> QED BY <3>2, <3>3
    <2> QED BY <2>1, <2>2
  <1> HIDE DEF Good
  <1>2. \A T \in SUBSET S : T \in Good BY <1>1, SubsetInduction
  <1>3. S \in Good BY <1>2
  <1> QED BY <1>3 DEF Good

\* Leaving out elements that are not negative makes a sum no larger.
LEMMA SumSubset ==
    ASSUME NEW f, NEW S, IsFiniteSet(S), \A x \in S : f[x] \in Nat, NEW T \in SUBSET S
    PROVE  SumFunctionOnSet(f, T) <= SumFunctionOnSet(f, S)
  <1> DEFINE Good == {U \in SUBSET S : \A V \in SUBSET U : SumFunctionOnSet(f, V) <= SumFunctionOnSet(f, U)}
  <1>1. \A U \in SUBSET S : IsFiniteSet(U) /\ SumFunctionOnSet(f, U) \in Nat BY FS_Subset, SumNat
  <1>2. ASSUME NEW U \in SUBSET S, \A V \in SUBSET U : V # U => V \in Good
        PROVE  U \in Good
    <2> SUFFICES ASSUME NEW V \in SUBSET U
                 PROVE  SumFunctionOnSet(f, V) <= SumFunctionOnSet(f, U)
      OBVIOUS
    <2>1. CASE V = U BY <1>1, <2>1
    <2>2. CASE V # U
      <3>1. PICK a \in U : a \notin V BY <2>2
      <3>2. SumFunctionOnSet(f, U) = f[a] + SumFunctionOnSet(f, U \ {a}) BY <1>1, SumRemove
      <3>3. U \ {a} \in Good BY <1>2
      <3>4. SumFunctionOnSet(f, V) <= SumFunctionOnSet(f, U \ {a}) BY <3>1, <3>3
      <3>5. f[a] \in Nat /\ SumFunctionOnSet(f, V) \in Nat /\ SumFunctionOnSet(f, U \ {a}) \in Nat BY <1>1
      <3> QED BY <3>2, <3>4, <3>5
    <2> QED BY <2>1, <2>2
  <1> HIDE DEF Good
  <1>3. \A U \in SUBSET S : U \in Good BY <1>2, SubsetInduction
  <1>4. S \in Good BY <1>3
  <1> QED BY <1>4 DEF Good
=============================================================================
