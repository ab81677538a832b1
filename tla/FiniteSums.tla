------------------------------ MODULE FiniteSums ------------------------------
(***************************************************************************)
(* What the proofs need to know of SumFunctionOnSet, the sum of integers   *)
(* over a finite set that the books of the contracts are stated with.      *)
(*                                                                         *)
(* The sum is a fold, defined by recursion over the subsets of the set.    *)
(* The proofs are by induction over these subsets, in the form of          *)
(* FiniteInduction: a family that contains a set as soon as it contains    *)
(* its strict subsets contains every subset of a finite set.  They first   *)
(* show that the recursion has a solution (FoldExists) and only one        *)
(* (FoldUnique), and then how the sum depends on the set and the values.   *)
(* At the end, what these sums are about first: the commission of an order *)
(* and its split over the items (EtaloCommission).                         *)
(***************************************************************************)
EXTENDS EtaloCommission, FiniteSetTheorems, WellFoundedInduction, TLAPS

\* Induction over the subsets of a finite set: the usual argument by a minimal
\* counterexample.

LEMMA FiniteInduction ==
  ASSUME NEW S, IsFiniteSet(S), NEW G,
         \A T \in SUBSET S : (\A U \in SUBSET T : U # T => U \in G) => T \in G
  PROVE  \A T \in SUBSET S : T \in G
<1> DEFINE Bad == {T \in FiniteSubsetsOf(S) : T \notin G}
<1>1. SUBSET S = FiniteSubsetsOf(S)
  BY FS_Subset DEF FiniteSubsetsOf
<1>2. SUFFICES ASSUME Bad # {} PROVE FALSE
  BY <1>1
<1>3. PICK T \in Bad : \A U \in Bad : <<U, T>> \notin StrictSubsetOrdering(S)
  <2>1. IsWellFoundedOn(StrictSubsetOrdering(S), FiniteSubsetsOf(S))
    BY FS_StrictSubsetOrderingWellFounded
  <2>2. Bad \subseteq FiniteSubsetsOf(S)
    OBVIOUS
  <2> HIDE DEF Bad
  <2>3. QED
    BY <1>2, <2>1, <2>2, WFMin
<1>4. ASSUME NEW U \in SUBSET T, U # T PROVE U \in G
  <2>1. U \in SUBSET S /\ T \in SUBSET S
    BY <1>1, <1>3
  <2>2. <<U, T>> \in StrictSubsetOrdering(S)
    BY <1>4, <2>1 DEF StrictSubsetOrdering
  <2>3. QED
    BY <1>1, <1>3, <2>1, <2>2
<1>5. QED
  BY <1>1, <1>3, <1>4

\* The element the fold takes next.
Chosen(s) == CHOOSE x \in s : TRUE

\* g solves the recursion of the sums of f over the subsets of S.
IsFold(g, f, S) ==
  g = [s \in SUBSET S |-> IF s = {} THEN 0 ELSE f[Chosen(s)] + g[s \ {Chosen(s)}]]

\* Two folds of f agree wherever both are defined.
LEMMA FoldUnique ==
  ASSUME NEW f, NEW S, IsFiniteSet(S), NEW g, NEW h, NEW T \in SUBSET S,
         IsFold(g, f, S), IsFold(h, f, T)
  PROVE  \A U \in SUBSET T : g[U] = h[U]
<1> DEFINE G == {U \in SUBSET T : g[U] = h[U]}
<1>1. IsFiniteSet(T)
  BY FS_Subset
<1>2. ASSUME NEW U \in SUBSET T, \A V \in SUBSET U : V # U => V \in G
      PROVE  U \in G
  <2>1. CASE U = {}
    BY <2>1 DEF IsFold
  <2>2. CASE U # {}
    <3>1. Chosen(U) \in U
      BY <2>2 DEF Chosen
    <3>2. U \ {Chosen(U)} \in G
      BY <1>2, <3>1
    <3>3. /\ g[U] = f[Chosen(U)] + g[U \ {Chosen(U)}]
          /\ h[U] = f[Chosen(U)] + h[U \ {Chosen(U)}]
      BY <2>2 DEF IsFold
    <3>4. QED
      BY <3>2, <3>3
  <2>3. QED
    BY <2>1, <2>2
<1> HIDE DEF G
<1>3. \A U \in SUBSET T : U \in G
  BY <1>1, <1>2, FiniteInduction
<1>4. QED
  BY <1>3 DEF G

\* The recursion of the fold over the subsets of a finite set has a solution.
LEMMA FoldExists ==
  ASSUME NEW f, NEW S, IsFiniteSet(S)
  PROVE  \E g : IsFold(g, f, S)
<1> DEFINE fold(U) == CHOOSE g : IsFold(g, f, U)
           G == {U \in SUBSET S : \E g : IsFold(g, f, U)}
<1>1. ASSUME NEW T \in SUBSET S, \A U \in SUBSET T : U # T => U \in G
      PROVE  T \in G
  <2> DEFINE rest(U) == U \ {Chosen(U)}
             h == [U \in SUBSET T |-> IF U = {} THEN 0
                                       ELSE f[Chosen(U)] + fold(rest(U))[rest(U)]]
  <2>1. ASSUME NEW U \in SUBSET T, U # {}
        PROVE  /\ rest(U) \in SUBSET U /\ rest(U) # U
               /\ IsFold(fold(rest(U)), f, rest(U))
    <3>1. Chosen(U) \in U
      BY <2>1 DEF Chosen
    <3>2. rest(U) \in SUBSET U /\ rest(U) # U /\ rest(U) # T /\ rest(U) \in SUBSET T
      BY <3>1
    <3>3. \E g : IsFold(g, f, rest(U))
      BY <1>1, <3>2
    <3>4. QED
      BY <3>2, <3>3
  <2>2. ASSUME NEW U \in SUBSET T, U # {}
        PROVE  fold(rest(U))[rest(U)] = h[rest(U)]
    <3> DEFINE V == rest(U)
    <3>1. V \in SUBSET T /\ IsFold(fold(V), f, V) /\ IsFiniteSet(V)
      <4>1. V \in SUBSET T /\ IsFold(fold(V), f, V)
        BY <2>1, <2>2
      <4>2. QED
        BY <4>1, FS_Subset
    <3> HIDE DEF V, fold
    <3>2. fold(V)[V] = h[V]
      <4>1. CASE V = {}
        BY <3>1, <4>1 DEF IsFold
      <4>2. CASE V # {}
        <5>1. rest(V) \in SUBSET V /\ IsFold(fold(rest(V)), f, rest(V))
          BY <2>1, <3>1, <4>2
        <5>2. fold(V)[V] = f[Chosen(V)] + fold(V)[rest(V)]
          BY <3>1, <4>2 DEF IsFold
        <5> HIDE DEF rest
        <5>3. fold(V)[rest(V)] = fold(rest(V))[rest(V)]
          BY <3>1, <5>1, FoldUnique
        <5>4. h[V] = f[Chosen(V)] + fold(rest(V))[rest(V)]
          BY <3>1, <4>2
        <5>5. QED
          BY <5>2, <5>3, <5>4
      <4>3. QED
        BY <4>1, <4>2
    <3>3. QED
      BY <3>2 DEF V
  <2>3. h = [U \in SUBSET T |-> IF U = {} THEN 0 ELSE f[Chosen(U)] + h[rest(U)]]
    <3> HIDE DEF fold, rest
    <3>1. \A U \in SUBSET T : h[U] = IF U = {} THEN 0 ELSE f[Chosen(U)] + h[rest(U)]
      BY <2>2
    <3>2. h = [U \in SUBSET T |-> h[U]]
      OBVIOUS
    <3> HIDE DEF h
    <3>3. QED
      BY <3>1, <3>2
  <2> HIDE DEF h
  <2>4. IsFold(h, f, T)
    BY <2>3 DEF IsFold
  <2>5. QED
    BY <2>4
<1> HIDE DEF G
<1>2. S \in G
  BY <1>1, FiniteInduction
<1>3. QED
  BY <1>2 DEF G

\* The sum of no values is 0; any other sum is that of one value and of the others.
LEMMA SumChosen ==
  ASSUME NEW f, NEW S, IsFiniteSet(S)
  PROVE  SumFunctionOnSet(f, S) =
             IF S = {} THEN 0 ELSE f[Chosen(S)] + SumFunctionOnSet(f, S \ {Chosen(S)})
<1> DEFINE fold(U) == CHOOSE g : IsFold(g, f, U)
<1>1. \A U : SumFunctionOnSet(f, U) = fold(U)[U]
  BY DEF SumFunctionOnSet, FoldFunctionOnSet, MapThenFoldSet, IsFold, Chosen
<1>2. IsFold(fold(S), f, S)
  BY FoldExists
<1> HIDE DEF fold
<1>3. CASE S = {}
  BY <1>1, <1>2, <1>3 DEF IsFold
<1>4. CASE S # {}
  <2> DEFINE U == S \ {Chosen(S)}
  <2>1. U \in SUBSET S
    OBVIOUS
  <2>2. IsFold(fold(U), f, U)
    <3>1. IsFiniteSet(U)
      BY <2>1, FS_Subset
    <3>2. QED
      BY <3>1, FoldExists DEF fold
  <2>3. fold(S)[S] = f[Chosen(S)] + fold(S)[U]
    BY <1>2, <1>4 DEF IsFold
  <2> HIDE DEF U
  <2>4. fold(S)[U] = fold(U)[U]
    BY <1>2, <2>1, <2>2, FoldUnique
  <2>5. QED
    BY <1>1, <1>4, <2>3, <2>4 DEF U
<1>5. QED
  BY <1>3, <1>4

\* The sum of no values.
LEMMA SumEmpty == ASSUME NEW f PROVE SumFunctionOnSet(f, {}) = 0
BY SumChosen, FS_EmptySet

\* A sum of integers is an integer.
LEMMA SumInt ==
  ASSUME NEW f, NEW S, IsFiniteSet(S), \A x \in S : f[x] \in Int
  PROVE  SumFunctionOnSet(f, S) \in Int
<1> DEFINE G == {T \in SUBSET S : SumFunctionOnSet(f, T) \in Int}
<1>1. ASSUME NEW T \in SUBSET S, \A U \in SUBSET T : U # T => U \in G
      PROVE  T \in G
  <2>1. IsFiniteSet(T)
    BY FS_Subset
  <2>2. CASE T = {}
    BY <2>2, SumEmpty
  <2>3. CASE T # {}
    <3>1. Chosen(T) \in T
      BY <2>3 DEF Chosen
    <3>2. f[Chosen(T)] \in Int /\ SumFunctionOnSet(f, T \ {Chosen(T)}) \in Int
      BY <1>1, <3>1
    <3>3. SumFunctionOnSet(f, T) = f[Chosen(T)] + SumFunctionOnSet(f, T \ {Chosen(T)})
      BY <2>1, <2>3, SumChosen
    <3>4. QED
      BY <3>2, <3>3
  <2>4. QED
    BY <2>2, <2>3
<1> HIDE DEF G
<1>2. S \in G
  BY <1>1, FiniteInduction
<1>3. QED
  BY <1>2 DEF G

\* Any value may be taken out first.
LEMMA SumSplit ==
  ASSUME NEW f, NEW S, IsFiniteSet(S), \A x \in S : f[x] \in Int, NEW x \in S
  PROVE  SumFunctionOnSet(f, S) = f[x] + SumFunctionOnSet(f, S \ {x})
<1> DEFINE G == {T \in SUBSET S :
                   \A y \in T : SumFunctionOnSet(f, T) = f[y] + SumFunctionOnSet(f, T \ {y})}
<1>1. ASSUME NEW T \in SUBSET S, \A U \in SUBSET T : U # T => U \in G,
             NEW y \in T
      PROVE  SumFunctionOnSet(f, T) = f[y] + SumFunctionOnSet(f, T \ {y})
  <2>1. \A U \in SUBSET S : IsFiniteSet(U) /\ SumFunctionOnSet(f, U) \in Int
    <3> SUFFICES ASSUME NEW U \in SUBSET S
                 PROVE  IsFiniteSet(U) /\ SumFunctionOnSet(f, U) \in Int
      OBVIOUS
    <3>1. IsFiniteSet(U)
      BY FS_Subset
    <3>2. QED
      BY <3>1, SumInt
  <2>2. PICK c \in T : SumFunctionOnSet(f, T) = f[c] + SumFunctionOnSet(f, T \ {c})
    <3>1. Chosen(T) \in T
      BY DEF Chosen
    <3>2. QED
      BY <2>1, <3>1, SumChosen
  <2>3. CASE c # y
    <3>1. T \ {c} \in G /\ T \ {y} \in G
      BY <1>1
    <3>2. SumFunctionOnSet(f, T \ {c}) = f[y] + SumFunctionOnSet(f, (T \ {c}) \ {y})
      BY <2>3, <3>1
    <3>3. SumFunctionOnSet(f, T \ {y}) = f[c] + SumFunctionOnSet(f, (T \ {c}) \ {y})
      <4>1. SumFunctionOnSet(f, T \ {y}) = f[c] + SumFunctionOnSet(f, (T \ {y}) \ {c})
        BY <2>3, <3>1
      <4>2. (T \ {c}) \ {y} = (T \ {y}) \ {c}
        OBVIOUS
      <4> HIDE DEF G
      <4>3. QED
        BY ONLY <4>1, <4>2, Zenon
    <3>4. (T \ {c}) \ {y} \in SUBSET S
      OBVIOUS
    <3>5. f[c] \in Int /\ f[y] \in Int /\ SumFunctionOnSet(f, (T \ {c}) \ {y}) \in Int
      BY <2>1, <3>4
    <3>6. QED
      BY ONLY <2>2, <3>2, <3>3, <3>5
  <2>4. QED
    BY <2>2, <2>3
<1>2. \A T \in SUBSET S : (\A U \in SUBSET T : U # T => U \in G) => T \in G
  BY <1>1
<1> HIDE DEF G
<1>3. S \in G
  BY <1>2, FiniteInduction
<1>4. QED
  BY <1>3 DEF G

\* Equal values have equal sums.
LEMMA SumEqual ==
  ASSUME NEW S, IsFiniteSet(S), NEW f, NEW g, \A x \in S : f[x] = g[x]
  PROVE  SumFunctionOnSet(f, S) = SumFunctionOnSet(g, S)
<1> DEFINE G == {T \in SUBSET S : SumFunctionOnSet(f, T) = SumFunctionOnSet(g, T)}
<1>1. ASSUME NEW T \in SUBSET S, \A U \in SUBSET T : U # T => U \in G
      PROVE  T \in G
  <2>1. IsFiniteSet(T)
    BY FS_Subset
  <2>2. CASE T = {}
    BY <2>2, SumEmpty
  <2>3. CASE T # {}
    <3>1. Chosen(T) \in T
      BY <2>3 DEF Chosen
    <3>2. /\ f[Chosen(T)] = g[Chosen(T)]
          /\ SumFunctionOnSet(f, T \ {Chosen(T)}) = SumFunctionOnSet(g, T \ {Chosen(T)})
      BY <1>1, <3>1
    <3>3. /\ SumFunctionOnSet(f, T) = f[Chosen(T)] + SumFunctionOnSet(f, T \ {Chosen(T)})
          /\ SumFunctionOnSet(g, T) = g[Chosen(T)] + SumFunctionOnSet(g, T \ {Chosen(T)})
      BY <2>1, <2>3, SumChosen
    <3>4. QED
      BY <3>2, <3>3
  <2>4. QED
    BY <2>2, <2>3
<1> HIDE DEF G
<1>2. S \in G
  BY <1>1, FiniteInduction
<1>3. QED
  BY <1>2 DEF G

\* A sum over two parts is the sum of their sums.
LEMMA SumUnion ==
  ASSUME NEW f, NEW S, IsFiniteSet(S), \A x \in S : f[x] \in Int, NEW R \in SUBSET S
  PROVE  SumFunctionOnSet(f, S) = SumFunctionOnSet(f, R) + SumFunctionOnSet(f, S \ R)
<1> DEFINE G == {T \in SUBSET R : SumFunctionOnSet(f, S)
                    = SumFunctionOnSet(f, T) + SumFunctionOnSet(f, S \ T)}
<1>0. \A U \in SUBSET S : IsFiniteSet(U) /\ SumFunctionOnSet(f, U) \in Int
  <2> SUFFICES ASSUME NEW U \in SUBSET S
               PROVE  IsFiniteSet(U) /\ SumFunctionOnSet(f, U) \in Int
    OBVIOUS
  <2>1. IsFiniteSet(U)
    BY FS_Subset
  <2>2. QED
    BY <2>1, SumInt
<1>1. ASSUME NEW T \in SUBSET R, \A U \in SUBSET T : U # T => U \in G
      PROVE  T \in G
  <2>1. CASE T = {}
    <3>1. SumFunctionOnSet(f, {}) = 0 /\ S \ {} = S /\ SumFunctionOnSet(f, S) \in Int
      BY <1>0, SumEmpty
    <3>2. SumFunctionOnSet(f, S) = 0 + SumFunctionOnSet(f, S)
      BY <3>1
    <3>3. QED
      BY <2>1, <3>1, <3>2
  <2>2. CASE T # {}
    <3>1. PICK x \in T : TRUE
      BY <2>2
    <3> DEFINE U == T \ {x}
               rest == S \ T
    <3>2. SumFunctionOnSet(f, S) = SumFunctionOnSet(f, U) + SumFunctionOnSet(f, S \ U)
      BY <1>1
    <3>3. SumFunctionOnSet(f, T) = f[x] + SumFunctionOnSet(f, U)
      BY <1>0, SumSplit
    <3>4. SumFunctionOnSet(f, S \ U) = f[x] + SumFunctionOnSet(f, rest)
      <4>1. x \in S \ U /\ (S \ U) \ {x} = rest /\ IsFiniteSet(S \ U)
        BY <1>0
      <4>2. SumFunctionOnSet(f, S \ U) = f[x] + SumFunctionOnSet(f, (S \ U) \ {x})
        BY <4>1, SumSplit
      <4>3. QED
        BY ONLY <4>1, <4>2, Zenon
    <3>5. f[x] \in Int /\ SumFunctionOnSet(f, U) \in Int /\ SumFunctionOnSet(f, rest) \in Int
      BY <1>0
    <3> HIDE DEF U
    <3>6. SumFunctionOnSet(f, S) = SumFunctionOnSet(f, T) + SumFunctionOnSet(f, rest)
      BY ONLY <3>2, <3>3, <3>4, <3>5
    <3>7. QED
      BY <3>6
  <2>3. QED
    BY <2>1, <2>2
<1>2. IsFiniteSet(R)
  BY <1>0
<1> HIDE DEF G
<1>3. R \in G
  BY <1>1, <1>2, FiniteInduction
<1>4. QED
  BY <1>3 DEF G

\* The order of sums follows that of the values.
LEMMA SumMonotone ==
  ASSUME NEW S, IsFiniteSet(S), NEW f, NEW g,
         \A x \in S : f[x] \in Int /\ g[x] \in Int /\ f[x] <= g[x]
  PROVE  SumFunctionOnSet(f, S) <= SumFunctionOnSet(g, S)
<1> DEFINE G == {T \in SUBSET S : SumFunctionOnSet(f, T) <= SumFunctionOnSet(g, T)}
<1>1. ASSUME NEW T \in SUBSET S, \A U \in SUBSET T : U # T => U \in G
      PROVE  T \in G
  <2>1. IsFiniteSet(T)
    BY FS_Subset
  <2>2. CASE T = {}
    BY <2>2, SumEmpty
  <2>3. CASE T # {}
    <3> DEFINE c == Chosen(T)
               U == T \ {c}
    <3>1. c \in T
      BY <2>3 DEF Chosen
    <3>2. f[c] <= g[c] /\ SumFunctionOnSet(f, U) <= SumFunctionOnSet(g, U)
      BY <1>1, <3>1
    <3>3. /\ SumFunctionOnSet(f, T) = f[c] + SumFunctionOnSet(f, U)
          /\ SumFunctionOnSet(g, T) = g[c] + SumFunctionOnSet(g, U)
      BY <2>1, <2>3, SumChosen
    <3>4. f[c] \in Int /\ g[c] \in Int
      BY <3>1
    <3>5. SumFunctionOnSet(f, U) \in Int /\ SumFunctionOnSet(g, U) \in Int
      <4>1. IsFiniteSet(U)
        BY <2>1, FS_Subset
      <4>2. QED
        BY <4>1, SumInt
    <3> HIDE DEF c, U
    <3>6. SumFunctionOnSet(f, T) <= SumFunctionOnSet(g, T)
      BY ONLY <3>2, <3>3, <3>4, <3>5
    <3>7. QED
      BY <3>6
  <2>4. QED
    BY <2>2, <2>3
<1> HIDE DEF G
<1>2. S \in G
  BY <1>1, FiniteInduction
<1>3. QED
  BY <1>2 DEF G

\* A sum of naturals is a natural.
LEMMA SumNat ==
  ASSUME NEW f, NEW S, IsFiniteSet(S), \A x \in S : f[x] \in Nat
  PROVE  SumFunctionOnSet(f, S) \in Nat
<1> DEFINE G == {T \in SUBSET S : SumFunctionOnSet(f, T) \in Nat}
<1>1. ASSUME NEW T \in SUBSET S, \A U \in SUBSET T : U # T => U \in G
      PROVE  T \in G
  <2>1. IsFiniteSet(T)
    BY FS_Subset
  <2>2. CASE T = {}
    BY <2>2, SumEmpty
  <2>3. CASE T # {}
    <3>1. Chosen(T) \in T
      BY <2>3 DEF Chosen
    <3>2. f[Chosen(T)] \in Nat /\ SumFunctionOnSet(f, T \ {Chosen(T)}) \in Nat
      BY <1>1, <3>1
    <3>3. SumFunctionOnSet(f, T) = f[Chosen(T)] + SumFunctionOnSet(f, T \ {Chosen(T)})
      BY <2>1, <2>3, SumChosen
    <3>4. QED
      BY <3>2, <3>3
  <2>4. QED
    BY <2>2, <2>3
<1> HIDE DEF G
<1>2. S \in G
  BY <1>1, FiniteInduction
<1>3. QED
  BY <1>2 DEF G

\* A change of the values of R changes the sum by as much.
LEMMA SumChange ==
  ASSUME NEW S, IsFiniteSet(S), NEW f, NEW g, NEW R \in SUBSET S,
         \A x \in S : f[x] \in Int /\ g[x] \in Int,
         \A x \in S \ R : g[x] = f[x]
  PROVE  SumFunctionOnSet(g, S)
           = SumFunctionOnSet(f, S) - SumFunctionOnSet(f, R) + SumFunctionOnSet(g, R)
<1>1. /\ SumFunctionOnSet(f, S) = SumFunctionOnSet(f, R) + SumFunctionOnSet(f, S \ R)
      /\ SumFunctionOnSet(g, S) = SumFunctionOnSet(g, R) + SumFunctionOnSet(g, S \ R)
  BY SumUnion
<1>2. IsFiniteSet(R) /\ IsFiniteSet(S \ R)
  BY FS_Subset
<1>3. SumFunctionOnSet(f, S \ R) = SumFunctionOnSet(g, S \ R)
  BY <1>2, SumEqual
<1>4. /\ SumFunctionOnSet(f, R) \in Int /\ SumFunctionOnSet(g, R) \in Int
      /\ SumFunctionOnSet(f, S \ R) \in Int
  BY <1>2, SumInt
<1>5. QED
  BY ONLY <1>1, <1>3, <1>4

\* The sum of one value.
LEMMA SumSingleton ==
  ASSUME NEW f, NEW x, f[x] \in Int
  PROVE  SumFunctionOnSet(f, {x}) = f[x]
<1>1. IsFiniteSet({x})
  BY FS_Singleton
<1>2. SumFunctionOnSet(f, {x}) = f[x] + SumFunctionOnSet(f, {x} \ {x})
  BY <1>1, SumSplit
<1>3. {x} \ {x} = {}
  OBVIOUS
<1>4. QED
  BY ONLY <1>2, <1>3, SumEmpty, f[x] \in Int

\* A sum of zeros.
LEMMA SumZero ==
  ASSUME NEW f, NEW S, IsFiniteSet(S), \A x \in S : f[x] = 0
  PROVE  SumFunctionOnSet(f, S) = 0
<1> DEFINE G == {T \in SUBSET S : SumFunctionOnSet(f, T) = 0}
<1>1. ASSUME NEW T \in SUBSET S, \A U \in SUBSET T : U # T => U \in G
      PROVE  T \in G
  <2>1. IsFiniteSet(T)
    BY FS_Subset
  <2>2. CASE T = {}
    BY <2>2, SumEmpty
  <2>3. CASE T # {}
    <3>1. Chosen(T) \in T
      BY <2>3 DEF Chosen
    <3>2. f[Chosen(T)] = 0 /\ SumFunctionOnSet(f, T \ {Chosen(T)}) = 0
      BY <1>1, <3>1
    <3>3. SumFunctionOnSet(f, T) = f[Chosen(T)] + SumFunctionOnSet(f, T \ {Chosen(T)})
      BY <2>1, <2>3, SumChosen
    <3>4. QED
      BY <3>2, <3>3
  <2>4. QED
    BY <2>2, <2>3
<1> HIDE DEF G
<1>2. S \in G
  BY <1>1, FiniteInduction
<1>3. QED
  BY <1>2 DEF G

\* No natural is more than the sum it is part of.
LEMMA SumTerm ==
  ASSUME NEW f, NEW S, IsFiniteSet(S), \A x \in S : f[x] \in Nat, NEW x \in S
  PROVE  f[x] <= SumFunctionOnSet(f, S)
<1>1. SumFunctionOnSet(f, S) = f[x] + SumFunctionOnSet(f, S \ {x})
  BY SumSplit
<1>2. IsFiniteSet(S \ {x})
  BY FS_RemoveElement
<1>3. SumFunctionOnSet(f, S \ {x}) \in Nat
  BY <1>2, SumNat
<1>4. f[x] \in Nat
  OBVIOUS
<1>5. QED
  BY ONLY <1>1, <1>3, <1>4

\* On S, g is a times f, and b more.
IsAffine(g, f, a, b, S) ==
    /\ a \in Int /\ b \in Int
    /\ \A x \in S : f[x] \in Int /\ g[x] = a * f[x] + b

LEMMA SumAffine ==
  ASSUME NEW S, IsFiniteSet(S), NEW f, NEW g, NEW a, NEW b, IsAffine(g, f, a, b, S)
  PROVE  SumFunctionOnSet(g, S) = a * SumFunctionOnSet(f, S) + b * Cardinality(S)
<1>0. /\ a \in Int /\ b \in Int
      /\ \A x \in S : f[x] \in Int /\ g[x] = a * f[x] + b
  BY DEF IsAffine
<1> DEFINE G == {T \in SUBSET S : SumFunctionOnSet(g, T)
                                    = a * SumFunctionOnSet(f, T) + b * Cardinality(T)}
<1>1. ASSUME NEW T \in SUBSET S, \A U \in SUBSET T : U # T => U \in G
      PROVE  T \in G
  <2>1. IsFiniteSet(T)
    BY FS_Subset
  <2>2. CASE T = {}
    <3>1. a * 0 + b * 0 = 0
      BY <1>0
    <3>2. QED
      BY <2>2, <3>1, SumEmpty, FS_EmptySet
  <2>3. CASE T # {}
    <3> DEFINE c == Chosen(T)
               U == T \ {c}
               sum == SumFunctionOnSet(f, U)
               n == Cardinality(U)
    <3>1. c \in T
      BY <2>3 DEF Chosen
    <3>2. SumFunctionOnSet(g, U) = a * sum + b * n
      BY <1>1, <3>1
    <3>3. /\ SumFunctionOnSet(f, T) = f[c] + sum
          /\ SumFunctionOnSet(g, T) = g[c] + SumFunctionOnSet(g, U)
      BY <2>1, <2>3, SumChosen
    <3>4. Cardinality(T) = n + 1 /\ n \in Nat /\ IsFiniteSet(U)
      <4>1. IsFiniteSet(U) /\ Cardinality(U) = Cardinality(T) - 1
        BY <2>1, <3>1, FS_RemoveElement
      <4>2. Cardinality(T) \in Nat /\ Cardinality(U) \in Nat
        BY <2>1, <4>1, FS_CardinalityType
      <4>3. QED
        BY <4>1, <4>2
    <3>5. f[c] \in Int /\ g[c] = a * f[c] + b /\ sum \in Int
      BY <1>0, <3>1, <3>4, SumInt
    <3> HIDE DEF c, U, sum, n
    <3>6. SumFunctionOnSet(g, T) = (a * f[c] + b) + (a * sum + b * n)
      BY ONLY <3>2, <3>3, <3>5
    <3>7. (a * f[c] + b) + (a * sum + b * n) = a * (f[c] + sum) + b * (n + 1)
      BY ONLY <1>0, <3>4, <3>5
    <3>8. SumFunctionOnSet(g, T) = a * SumFunctionOnSet(f, T) + b * Cardinality(T)
      BY ONLY <3>3, <3>4, <3>6, <3>7
    <3>9. QED
      BY <3>8
  <2>4. QED
    BY <2>2, <2>3
<1> HIDE DEF G
<1>2. S \in G
  BY <1>1, FiniteInduction
<1>3. QED
  BY <1>2 DEF G

\* The values of h on K.
Values(h, K) == {h[k] : k \in K}

\* The sum over the values of an injective function is the sum over its domain.
LEMMA SumImage ==
  ASSUME NEW K, IsFiniteSet(K), NEW h, NEW S, IsFiniteSet(S), \A k \in K : h[k] \in S,
         \A j, k \in K : h[j] = h[k] => j = k,
         NEW f, NEW g, \A x \in S : f[x] \in Int, \A k \in K : g[k] = f[h[k]]
  PROVE  SumFunctionOnSet(g, K) = SumFunctionOnSet(f, Values(h, K))
<1> DEFINE image(T) == Values(h, T)
           G == {T \in SUBSET K : SumFunctionOnSet(g, T) = SumFunctionOnSet(f, image(T))}
<1>1. ASSUME NEW T \in SUBSET K, \A U \in SUBSET T : U # T => U \in G
      PROVE  T \in G
  <2>1. IsFiniteSet(T) /\ image(T) \subseteq S /\ IsFiniteSet(image(T))
    <3>1. image(T) \subseteq S
      BY DEF Values
    <3>2. QED
      BY <3>1, FS_Subset
  <2>2. CASE T = {}
    <3>1. image(T) = {}
      BY <2>2 DEF Values
    <3>2. QED
      BY <2>2, <3>1, SumEmpty
  <2>3. CASE T # {}
    <3> DEFINE c == Chosen(T)
               U == T \ {c}
    <3>1. c \in T
      BY <2>3 DEF Chosen
    <3>2. SumFunctionOnSet(g, U) = SumFunctionOnSet(f, image(U))
      BY <1>1, <3>1
    <3>3. SumFunctionOnSet(g, T) = g[c] + SumFunctionOnSet(g, U)
      BY <2>1, <2>3, SumChosen
    <3>4. h[c] \in image(T) /\ image(T) \ {h[c]} = image(U)
      BY <3>1 DEF Values
    <3>5. SumFunctionOnSet(f, image(T)) = f[h[c]] + SumFunctionOnSet(f, image(U))
      <4>1. \A x \in image(T) : f[x] \in Int
        BY <2>1
      <4> HIDE DEF image, U, c
      <4>2. SumFunctionOnSet(f, image(T)) = f[h[c]] + SumFunctionOnSet(f, image(T) \ {h[c]})
        BY <2>1, <3>4, <4>1, SumSplit
      <4>3. QED
        BY <3>4, <4>2
    <3>6. g[c] = f[h[c]]
      BY <3>1
    <3>7. QED
      BY <3>2, <3>3, <3>5, <3>6
  <2>4. QED
    BY <2>2, <2>3
<1> HIDE DEF G
<1>2. K \in G
  BY <1>1, FiniteInduction
<1>3. QED
  BY <1>2 DEF G

\* The elements of S of one key.
Keyed(S, key, c) == {x \in S : key[x] = c}

\* A sum may be taken group by group.
LEMMA SumGroups ==
  ASSUME NEW S, IsFiniteSet(S), NEW C, IsFiniteSet(C), NEW key, \A x \in S : key[x] \in C,
         NEW f, \A x \in S : f[x] \in Int,
         NEW g, \A c \in C : g[c] = SumFunctionOnSet(f, Keyed(S, key, c))
  PROVE  SumFunctionOnSet(g, C) = SumFunctionOnSet(f, S)
<1> DEFINE part(T) == {x \in S : key[x] \in T}
           G == {T \in SUBSET C : SumFunctionOnSet(g, T) = SumFunctionOnSet(f, part(T))}
<1>1. ASSUME NEW T \in SUBSET C, \A U \in SUBSET T : U # T => U \in G
      PROVE  T \in G
  <2>1. IsFiniteSet(T) /\ IsFiniteSet(part(T))
    BY FS_Subset
  <2>2. CASE T = {}
    <3>1. part(T) = {}
      BY <2>2
    <3>2. QED
      BY <2>2, <3>1, SumEmpty
  <2>3. CASE T # {}
    <3> DEFINE c == Chosen(T)
               U == T \ {c}
               own == Keyed(S, key, c)
    <3>1. c \in T
      BY <2>3 DEF Chosen
    <3>2. SumFunctionOnSet(g, U) = SumFunctionOnSet(f, part(U))
      BY <1>1, <3>1
    <3>3. SumFunctionOnSet(g, T) = g[c] + SumFunctionOnSet(g, U)
      BY <2>1, <2>3, SumChosen
    <3>4. own \in SUBSET part(T) /\ part(T) \ own = part(U)
      BY <3>1 DEF Keyed
    <3>5. \A x \in part(T) : f[x] \in Int
      OBVIOUS
    <3>6. g[c] = SumFunctionOnSet(f, own)
      BY <3>1
    <3> HIDE DEF own, part, U, c
    <3>7. SumFunctionOnSet(f, part(T))
            = SumFunctionOnSet(f, own) + SumFunctionOnSet(f, part(T) \ own)
      BY <2>1, <3>4, <3>5, SumUnion
    <3>8. QED
      BY <3>2, <3>3, <3>4, <3>6, <3>7 DEF G
  <2>4. QED
    BY <2>2, <2>3
<1>2. C \in G
  <2> HIDE DEF G
  <2>1. QED
    BY <1>1, FiniteInduction
<1>3. part(C) = S
  OBVIOUS
<1> HIDE DEF part
<1>4. QED
  BY <1>2, <1>3

\* A part of naturals comes to no more than the whole.
LEMMA SumOfPart ==
  ASSUME NEW f, NEW S, IsFiniteSet(S), \A x \in S : f[x] \in Nat, NEW R \in SUBSET S
  PROVE  SumFunctionOnSet(f, R) <= SumFunctionOnSet(f, S)
<1>1. SumFunctionOnSet(f, S) = SumFunctionOnSet(f, R) + SumFunctionOnSet(f, S \ R)
  BY SumUnion
<1>2. IsFiniteSet(R) /\ IsFiniteSet(S \ R)
  BY FS_Subset
<1>3. SumFunctionOnSet(f, R) \in Nat /\ SumFunctionOnSet(f, S \ R) \in Nat
  BY <1>2, SumNat
<1>4. QED
  BY ONLY <1>1, <1>3
-------------------------------------------------------------------------------
(***************************************************************************)
(* The quotient of naturals, and products that compare: for the shares and *)
(* the rates of the contracts.                                             *)
(***************************************************************************)
LEMMA DivBounds ==
  ASSUME NEW a \in Nat, NEW t \in Nat, t > 0
  PROVE  /\ a \div t \in Nat
         /\ t * (a \div t) <= a
         /\ a < t * (a \div t) + t
OBVIOUS

LEMMA TimesMonotone ==
  ASSUME NEW a \in Int, NEW b \in Int, NEW t \in Nat, a <= b
  PROVE  t * a <= t * b
OBVIOUS

LEMMA TimesCancels ==
  ASSUME NEW a \in Int, NEW b \in Int, NEW t \in Nat \ {0}, t * a <= t * b
  PROVE  a <= b
OBVIOUS
-------------------------------------------------------------------------------
(***************************************************************************)
(* The commission of an order and its split over the items, for any number *)
(* of items at any prices.                                                 *)
(***************************************************************************)
\* A share of `whole' is within `whole', and misses the exact share by less than a unit.
LEMMA ProRataBounds ==
  ASSUME NEW total \in Nat \ {0}, NEW part \in 0..total, NEW whole \in Nat
  PROVE  /\ ProRata(part, whole, total) \in 0..whole
         /\ total * ProRata(part, whole, total) <= part * whole
         /\ part * whole <= total * ProRata(part, whole, total) + (total - 1)
<1> DEFINE share == ProRata(part, whole, total)
<1>1. part * whole \in Nat /\ part * whole <= total * whole
  OBVIOUS
<1>2. share \in Nat /\ total * share <= part * whole /\ part * whole < total * share + total
  BY <1>1, DivBounds DEF ProRata
<1> HIDE DEF share
<1>3. total * share <= total * whole
  BY <1>1, <1>2
<1>4. share <= whole
  BY <1>2, <1>3, TimesCancels
<1>5. total * share \in Nat
  BY <1>2
<1>6. part * whole <= total * share + (total - 1)
  BY <1>1, <1>2, <1>5
<1>7. QED
  BY <1>2, <1>4, <1>6 DEF share

\* A part of a price pays at most that part of a commission within the price.
LEMMA DisputeShares ==
  ASSUME NEW price \in Nat \ {0}, NEW commission \in 0..price
  PROVE  DisputeSharesWithinItem(price, commission)
<1> SUFFICES ASSUME NEW refund \in 0..price
             PROVE  LET share == ProRata(price - refund, commission, price)
                    IN  /\ share \in 0..commission
                        /\ share <= price - refund
                        /\ refund = 0 => share = commission
  BY DEF DisputeSharesWithinItem
<1> DEFINE left == price - refund
           share == ProRata(left, commission, price)
<1>1. left \in 0..price /\ commission \in Nat
  OBVIOUS
<1>2. /\ share \in 0..commission
      /\ price * share <= left * commission
      /\ left * commission <= price * share + (price - 1)
  BY <1>1, ProRataBounds
<1> HIDE DEF share, left
<1>3. share <= left
  <2>1. left * commission <= left * price
    BY <1>1, TimesMonotone
  <2>2. price * share <= price * left
    BY <1>1, <1>2, <2>1
  <2>3. QED
    BY <1>1, <1>2, <2>2, TimesCancels
<1>4. left = price => share = commission
  <2> SUFFICES ASSUME left = price, share <= commission - 1 PROVE FALSE
    BY <1>2
  <2>1. price * share <= price * (commission - 1)
    BY <1>2, TimesMonotone
  <2>2. price * (commission - 1) = price * commission - price
    OBVIOUS
  <2>3. QED
    BY <1>2, <2>1, <2>2
<1>5. QED
  BY <1>2, <1>3, <1>4 DEF share, left

\* Of any number of items at any prices, the split of a commission that is no more than
\* the order's value is sound: every item can pay its share, and the dust the cap waives is
\* at most a unit for each item but the last two.
THEOREM CommissionSplitSound ==
  ASSUME NEW S, IsFiniteSet(S), NEW price, \A i \in S : price[i] \in Nat \ {0},
         NEW last \in S, NEW commission \in 0..SumFunctionOnSet(price, S)
  PROVE  SoundSplit(S, price, SplitCommission(S, price, last, commission), commission)
<1> DEFINE total  == SumFunctionOnSet(price, S)
           share  == [i \in S |-> ProRata(price[i], commission, total)]
           rest   == S \ {last}
           shared == SumFunctionOnSet(share, rest)
           dust   == commission - shared
           split  == [share EXCEPT ![last] = LastItemCommission(dust, price[last])]
           n      == Cardinality(S)
<1>1. SplitCommission(S, price, last, commission) = split
  BY DEF SplitCommission
<1>2. \A i \in S : price[i] \in Nat
  OBVIOUS
<1>3. /\ total \in Nat \ {0} /\ \A i \in S : price[i] \in 1..total
  <2>1. total \in Nat
    BY <1>2, SumNat
  <2>2. \A i \in S : price[i] <= total
    BY <1>2, SumTerm
  <2> HIDE DEF total
  <2>3. QED
    BY <2>1, <2>2
<1>4. commission \in Nat /\ commission <= total
  BY <1>3
<1>5. /\ rest \in SUBSET S /\ IsFiniteSet(rest) /\ last \notin rest
      /\ n \in Nat /\ Cardinality(rest) = n - 1
  BY FS_RemoveElement, FS_CardinalityType
<1>6. SumFunctionOnSet(price, rest) = total - price[last]
      /\ SumFunctionOnSet(price, rest) \in Nat
  <2>1. total = price[last] + SumFunctionOnSet(price, rest)
    BY <1>2, SumSplit
  <2>2. SumFunctionOnSet(price, rest) \in Nat
    BY <1>2, <1>5, SumNat
  <2>3. QED
    BY <1>3, <2>1, <2>2
<1> HIDE DEF total, n
<1>7. \A i \in S : /\ share[i] \in Nat /\ share[i] <= price[i]
                   /\ total * share[i] <= commission * price[i]
                   /\ commission * price[i] <= total * share[i] + (total - 1)
  <2> SUFFICES ASSUME NEW i \in S
               PROVE  /\ share[i] \in Nat /\ share[i] <= price[i]
                      /\ total * share[i] <= commission * price[i]
                      /\ commission * price[i] <= total * share[i] + (total - 1)
    OBVIOUS
  <2>1. /\ share[i] \in Nat
        /\ total * share[i] <= price[i] * commission
        /\ price[i] * commission <= total * share[i] + (total - 1)
    <3>1. share[i] = ProRata(price[i], commission, total)
      OBVIOUS
    <3>2. price[i] \in 0..total
      BY <1>3
    <3> HIDE DEF share
    <3>3. /\ ProRata(price[i], commission, total) \in 0..commission
          /\ total * ProRata(price[i], commission, total) <= price[i] * commission
          /\ price[i] * commission <= total * ProRata(price[i], commission, total) + (total - 1)
      BY ONLY <1>3, <1>4, <3>2, ProRataBounds
    <3>4. share[i] \in Nat
      BY <1>4, <3>1, <3>3
    <3>5. QED
      BY <3>1, <3>3, <3>4
  <2> HIDE DEF share
  <2>2. price[i] * commission = commission * price[i]
    BY <1>3, <1>4
  <2>3. commission * price[i] <= total * price[i]
    BY <1>3, <1>4
  <2>4. share[i] <= price[i]
    <3>1. total * share[i] <= total * price[i]
      BY <1>3, <1>4, <2>1, <2>2, <2>3
    <3>2. QED
      BY <1>3, <2>1, <3>1, TimesCancels
  <2>5. QED
    BY <2>1, <2>2, <2>4
<1> HIDE DEF share, rest
<1>8. shared \in Nat
  BY <1>5, <1>7, SumNat
<1> DEFINE scaled == [i \in S |-> total * share[i] + 0]
           exact  == [i \in S |-> commission * price[i] + 0]
           roundedUp == [i \in S |-> total * share[i] + (total - 1)]
<1>9. /\ SumFunctionOnSet(scaled, rest) = total * shared
      /\ SumFunctionOnSet(exact, rest) = commission * (total - price[last])
      /\ SumFunctionOnSet(roundedUp, rest) = total * shared + (total - 1) * (n - 1)
  <2>1. /\ IsAffine(scaled, share, total, 0, rest)
        /\ IsAffine(exact, price, commission, 0, rest)
        /\ IsAffine(roundedUp, share, total, total - 1, rest)
    BY <1>2, <1>3, <1>4, <1>5, <1>7 DEF IsAffine
  <2> HIDE DEF scaled, exact, roundedUp
  <2>2. /\ SumFunctionOnSet(scaled, rest) = total * shared + 0 * Cardinality(rest)
        /\ SumFunctionOnSet(exact, rest)
              = commission * SumFunctionOnSet(price, rest) + 0 * Cardinality(rest)
        /\ SumFunctionOnSet(roundedUp, rest)
              = total * shared + (total - 1) * Cardinality(rest)
    BY <1>5, <2>1, SumAffine
  <2>3. total * shared \in Int /\ commission * SumFunctionOnSet(price, rest) \in Int
        /\ Cardinality(rest) \in Int /\ 0 * Cardinality(rest) = 0
    BY <1>3, <1>4, <1>5, <1>6, <1>8
  <2> HIDE DEF shared
  <2>4. QED
    BY <1>5, <1>6, <2>2, <2>3
<1>10. /\ total * shared <= commission * (total - price[last])
       /\ commission * (total - price[last]) <= total * shared + (total - 1) * (n - 1)
  <2>1. /\ \A i \in rest : /\ scaled[i] \in Int /\ exact[i] \in Int /\ roundedUp[i] \in Int
                           /\ scaled[i] <= exact[i] /\ exact[i] <= roundedUp[i]
    <3> SUFFICES ASSUME NEW i \in rest
                 PROVE  /\ scaled[i] \in Int /\ exact[i] \in Int /\ roundedUp[i] \in Int
                        /\ scaled[i] <= exact[i] /\ exact[i] <= roundedUp[i]
      OBVIOUS
    <3>1. i \in S /\ total * share[i] \in Int /\ commission * price[i] \in Int
      BY <1>2, <1>3, <1>4, <1>5, <1>7
    <3>2. QED
      BY <1>3, <1>7, <3>1
  <2> HIDE DEF scaled, exact, roundedUp, shared
  <2>2. QED
    BY <1>5, <1>9, <2>1, SumMonotone
<1> HIDE DEF scaled, exact, roundedUp
<1>11. shared <= commission
  <2>1. commission * (total - price[last]) <= commission * total
    BY <1>3, <1>4, TimesMonotone
  <2>2. total * shared <= total * commission
    BY <1>3, <1>4, <1>8, <1>10, <2>1
  <2>3. QED
    BY <1>3, <1>4, <1>8, <2>2, TimesCancels
<1>12. dust <= price[last] \/ dust - price[last] \in 1..(n - 2)
  <2>1. /\ dust \in Nat /\ dust = commission - shared
    BY <1>4, <1>8, <1>11
  <2> HIDE DEF dust, shared
  <2>2. total * dust <= total * price[last] + (total - 1) * (n - 1)
    <3>1. total * dust = total * commission - total * shared
      BY <1>3, <1>4, <1>8, <2>1
    <3>2. commission * (total - price[last]) = total * commission - commission * price[last]
      BY <1>3, <1>4
    <3>3. commission * price[last] <= total * price[last]
      BY <1>3, <1>4
    <3>4. /\ total * commission \in Int /\ total * shared \in Int
          /\ commission * price[last] \in Int /\ total * price[last] \in Int
          /\ (total - 1) * (n - 1) \in Int
      BY <1>3, <1>4, <1>5, <1>8
    <3>5. QED
      BY <1>10, <3>1, <3>2, <3>3, <3>4
  <2>3. CASE n = 1
    <3>1. total * dust <= total * price[last]
      BY <1>3, <2>2, <2>3
    <3>2. QED
      BY <1>3, <2>1, <3>1, TimesCancels
  <2>4. CASE n >= 2
    <3>1. (total - 1) * (n - 1) <= total * (n - 1) - 1
      <4>1. (total - 1) * (n - 1) = total * (n - 1) - (n - 1)
        BY <1>3, <1>5
      <4>2. total * (n - 1) \in Int
        BY <1>3, <1>5
      <4>3. QED
        BY <1>5, <2>4, <4>1, <4>2
    <3>2. total * (price[last] + (n - 1)) = total * price[last] + total * (n - 1)
      BY <1>3, <1>5
    <3>3. total * dust < total * (price[last] + (n - 1))
      <4>1. /\ total * dust \in Int /\ total * price[last] \in Int /\ total * (n - 1) \in Int
            /\ (total - 1) * (n - 1) \in Int
        BY <1>3, <1>5, <2>1
      <4>2. QED
        BY <2>2, <3>1, <3>2, <4>1
    <3>4. dust < price[last] + (n - 1)
      <4>1. ASSUME price[last] + (n - 1) <= dust PROVE FALSE
        <5>1. total * (price[last] + (n - 1)) <= total * dust
          BY <1>3, <1>5, <2>1, <4>1, TimesMonotone
        <5>2. total * dust \in Int /\ total * (price[last] + (n - 1)) \in Int
          BY <1>3, <1>5, <2>1
        <5>3. QED
          BY <3>3, <5>1, <5>2
      <4>2. QED
        BY <1>3, <1>5, <2>1, <4>1
    <3>5. QED
      BY <1>3, <1>5, <2>1, <3>4
  <2>5. n # 0
    <3>1. n = 0 => S = {}
      BY FS_EmptySet DEF n
    <3>2. QED
      BY <3>1
  <2>6. QED
    BY <1>5, <2>3, <2>4, <2>5
<1>13. /\ \A i \in rest : split[i] = share[i]
       /\ split[last] = IF dust > price[last] THEN price[last] ELSE dust
  BY <1>5 DEF LastItemCommission, share
<1>14. dust = commission - shared /\ dust \in Nat
  BY <1>4, <1>8, <1>11
<1> HIDE DEF dust, split
<1>15. \A i \in S : split[i] \in 0..price[i]
  <2>1. split[last] \in 0..price[last]
    BY <1>3, <1>13, <1>14
  <2>2. \A i \in rest : split[i] \in 0..price[i]
    BY <1>2, <1>5, <1>7, <1>13
  <2>3. QED
    BY <2>1, <2>2 DEF rest
<1>16. SumFunctionOnSet(split, S) = shared + split[last]
  <2>1. \A i \in S : split[i] \in Int
    BY <1>3, <1>15
  <2>2. SumFunctionOnSet(split, S) = split[last] + SumFunctionOnSet(split, rest)
    BY <2>1, SumSplit DEF rest
  <2>3. SumFunctionOnSet(split, rest) = shared
    BY <1>5, <1>13, SumEqual
  <2>4. QED
    BY <1>8, <2>1, <2>2, <2>3
<1>17. SplitAddsUp(S, split, commission)
  <2>1. SumFunctionOnSet(split, S) = commission
        \/ SumFunctionOnSet(split, S) \in (commission - (n - 2))..commission
    <3>1. CASE dust <= price[last]
      <4>1. split[last] = dust
        BY <1>3, <1>13, <1>14, <3>1
      <4>2. QED
        BY ONLY <1>4, <1>8, <1>14, <1>16, <4>1
    <3>2. CASE dust - price[last] \in 1..(n - 2)
      <4>1. split[last] = price[last]
        BY <1>3, <1>13, <1>14, <3>2
      <4>2. price[last] \in Nat
        BY <1>2
      <4>3. QED
        BY ONLY <1>4, <1>5, <1>8, <1>14, <1>16, <3>2, <4>1, <4>2
    <3>3. QED
      BY <1>12, <3>1, <3>2
  <2>2. QED
    BY <2>1 DEF SplitAddsUp, n
<1>18. \A i \in S : DisputeSharesWithinItem(price[i], split[i])
  BY <1>15, DisputeShares
<1>19. QED
  BY <1>1, <1>15, <1>17, <1>18 DEF SoundSplit, CommissionWithinPrice

\* At a rate of at most one, the commission of an amount is within it.
LEMMA CommissionOfOrder ==
  ASSUME NEW amount \in Nat, NEW bps \in 0..BPS_DENOMINATOR
  PROVE  CalculateCommission(amount, bps) \in 0..amount
<1> DEFINE commission == CalculateCommission(amount, bps)
<1>1. amount * bps \in Nat /\ amount * bps <= amount * BPS_DENOMINATOR
  BY BpsAssumption, TimesMonotone
<1>2. commission \in Nat /\ BPS_DENOMINATOR * commission <= amount * bps
  BY <1>1, BpsAssumption, DivBounds DEF CalculateCommission
<1> HIDE DEF commission
<1>3. BPS_DENOMINATOR * commission <= BPS_DENOMINATOR * amount
  BY <1>1, <1>2, BpsAssumption
<1>4. QED
  BY <1>2, <1>3, BpsAssumption, TimesCancels DEF commission
===============================================================================
