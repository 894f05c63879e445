----------------------------- MODULE Sums_proofs -----------------------------
(* Induction over a finite set and what it gives of sums: the library states induction
   for a predicate, here it is stated for the set of the subsets that satisfy it. A sum
   is the library's fold, which takes the elements in an order of its own choice; the
   lemmas say what does not depend on that order.                              *)
EXTENDS FiniteSetsExt, FiniteSetTheorems, TLAPS

\* A set that has a subset of S whenever it has all the smaller ones has them all.
LEMMA SubsetInduction ==
  ASSUME NEW S, IsFiniteSet(S), NEW G,
         \A T \in SUBSET S : (\A U \in SUBSET T : U # T => U \in G) => T \in G
  PROVE  \A T \in SUBSET S : T \in G
<1> DEFINE bad == {T \in SUBSET S : T \notin G}
<1> SUFFICES ASSUME bad # {} PROVE FALSE
  OBVIOUS
<1>1. IsWellFoundedOn(StrictSubsetOrdering(S), SUBSET S)
  <2>1. FiniteSubsetsOf(S) = SUBSET S
    BY FS_FiniteSubsetsOfFinite
  <2>2. IsWellFoundedOn(StrictSubsetOrdering(S), FiniteSubsetsOf(S))
    BY FS_StrictSubsetOrderingWellFounded
  <2> QED BY <2>1, <2>2, Zenon
<1>2. bad \subseteq SUBSET S
  OBVIOUS
<1> HIDE DEF bad
<1>3. PICK T \in bad : \A U \in bad : <<U, T>> \notin StrictSubsetOrdering(S)
  BY <1>1, <1>2, WFMin
<1> USE DEF bad
<1>4. ASSUME NEW U \in SUBSET T, U # T PROVE U \in G
  <2>1. <<U, T>> \in StrictSubsetOrdering(S)
    BY <1>2, <1>3, <1>4 DEF StrictSubsetOrdering
  <2> QED BY <1>3, <2>1
<1> QED BY <1>3, <1>4

\* A set that has the empty set, and with a set each that has one element more, has S.
LEMMA ElementInduction ==
  ASSUME NEW S, IsFiniteSet(S), NEW G, {} \in G,
         \A T \in SUBSET S : \A x \in S \ T : T \in G => T \cup {x} \in G
  PROVE  S \in G
<1>1. ASSUME NEW T \in SUBSET S, \A U \in SUBSET T : U # T => U \in G PROVE T \in G
  <2>1. CASE T = {}
    BY <2>1
  <2>2. ASSUME NEW x \in T PROVE T \in G
    <3>1. T \ {x} \in G /\ T = (T \ {x}) \cup {x}
      BY <1>1
    <3> QED BY <3>1
  <2> QED BY <2>1, <2>2
<1> QED BY <1>1, SubsetInduction

-----------------------------------------------------------------------------
(* The fold *)

Chosen(s) == CHOOSE x \in s : TRUE

Folds(it, f, S) ==
  it = [s \in SUBSET S |-> IF s = {} THEN 0 ELSE f[Chosen(s)] + it[s \ {Chosen(s)}]]

Fold(f, S) == CHOOSE it : Folds(it, f, S)

\* The library's two sums are this fold.
LEMMA SumIsFold == ASSUME NEW f, NEW S PROVE SumFunctionOnSet(f, S) = Fold(f, S)[S]
  BY Zenon DEF SumFunctionOnSet, FoldFunctionOnSet, MapThenFoldSet, Fold, Folds, Chosen

\* Two folds of one function agree where both are defined.
LEMMA FoldsAgree ==
  ASSUME NEW f, NEW S, IsFiniteSet(S), NEW it, NEW S1, Folds(it, f, S1), NEW it2, NEW S2,
         Folds(it2, f, S2), S \subseteq S1, S \subseteq S2
  PROVE  it[S] = it2[S]
<1> DEFINE G == {T \in SUBSET S : it[T] = it2[T]}
<1>1. ASSUME NEW T \in SUBSET S, \A U \in SUBSET T : U # T => U \in G PROVE T \in G
  <2>1. CASE T = {}
    BY <2>1 DEF Folds
  <2>2. CASE T # {}
    <3>1. Chosen(T) \in T
      BY <2>2 DEF Chosen
    <3>2. T \ {Chosen(T)} \in G
      BY <1>1, <3>1
    <3>3. it[T] = f[Chosen(T)] + it[T \ {Chosen(T)}]
      BY <2>2 DEF Folds
    <3>4. it2[T] = f[Chosen(T)] + it2[T \ {Chosen(T)}]
      BY <2>2 DEF Folds
    <3> QED BY <3>2, <3>3, <3>4
  <2> QED BY <2>1, <2>2
<1> HIDE DEF G
<1>2. S \in G
  BY <1>1, SubsetInduction
<1> QED BY <1>2 DEF G

\* A finite set has a fold.
LEMMA FoldExists == ASSUME NEW f, NEW S, IsFiniteSet(S) PROVE Folds(Fold(f, S), f, S)
<1> DEFINE G == {T \in SUBSET S : Folds(Fold(f, T), f, T)}
<1>1. ASSUME NEW T \in SUBSET S, \A U \in SUBSET T : U # T => U \in G PROVE T \in G
  <2> DEFINE rest == T \ {Chosen(T)}
             it == [s \in SUBSET T |-> IF s = {} THEN 0
                      ELSE IF s = T THEN f[Chosen(T)] + Fold(f, rest)[rest]
                      ELSE Fold(f, s)[s]]
  <2>1. ASSUME NEW s \in SUBSET T, s # {}
        PROVE  it[s] = f[Chosen(s)] + Fold(f, s \ {Chosen(s)})[s \ {Chosen(s)}]
    <3>1. CASE s = T
      BY <2>1, <3>1
    <3>2. CASE s # T
      <4> DEFINE less == s \ {Chosen(s)}
      <4>1. Chosen(s) \in s
        BY <2>1 DEF Chosen
      <4>2. s \in G /\ less \in G
        BY <1>1, <3>2, <4>1
      <4>3. Fold(f, s)[s] = f[Chosen(s)] + Fold(f, s)[less]
        BY <2>1, <4>2 DEF Folds
      <4>4. IsFiniteSet(less)
        BY FS_Subset
      <4>5. Fold(f, s)[less] = Fold(f, less)[less]
        <5>1. Folds(Fold(f, s), f, s) /\ Folds(Fold(f, less), f, less)
          BY <4>2
        <5> HIDE DEF less
        <5>2. less \subseteq s
          BY DEF less
        <5> QED BY <4>4, <5>1, <5>2, FoldsAgree
      <4> QED BY <2>1, <3>2, <4>3, <4>5
    <3> QED BY <3>1, <3>2
  <2>2. ASSUME NEW s \in SUBSET T, s # {}
        PROVE  Fold(f, s \ {Chosen(s)})[s \ {Chosen(s)}] = it[s \ {Chosen(s)}]
    <3> DEFINE less == s \ {Chosen(s)}
    <3>1. Chosen(s) \in s
      BY <2>2 DEF Chosen
    <3>2. less \in SUBSET T /\ less # T
      BY <3>1
    <3>3. CASE less = {}
      <4>1. {} \in G
        BY <1>1, <3>2, <3>3
      <4> QED BY <3>3, <4>1 DEF Folds
    <3>4. CASE less # {}
      BY <3>2, <3>4
    <3> QED BY <3>3, <3>4
  <2>3. Folds(it, f, T)
    <3>1. \A s \in SUBSET T : it[s] = IF s = {} THEN 0 ELSE f[Chosen(s)] + it[s \ {Chosen(s)}]
      BY <2>1, <2>2
    <3> QED BY <3>1 DEF Folds
  <2> HIDE DEF it
  <2>4. Folds(Fold(f, T), f, T)
    BY <2>3 DEF Fold
  <2> QED BY <2>4
<1> HIDE DEF G
<1>2. S \in G
  BY <1>1, SubsetInduction
<1> QED BY <1>2 DEF G

-----------------------------------------------------------------------------
(* Sums *)

\* The sum over no elements is 0.
LEMMA SumEmpty == ASSUME NEW f PROVE SumFunctionOnSet(f, {}) = 0
<1>1. Folds(Fold(f, {}), f, {})
  BY FS_EmptySet, FoldExists
<1>2. Fold(f, {})[{}] = 0
  BY <1>1 DEF Folds
<1> QED BY <1>2, SumIsFold

\* A sum of integers is an integer.
LEMMA SumType ==
  ASSUME NEW f, NEW S, IsFiniteSet(S), \A x \in S : f[x] \in Int
  PROVE  SumFunctionOnSet(f, S) \in Int
<1> DEFINE G == {T \in SUBSET S : Fold(f, S)[T] \in Int}
<1>0. Folds(Fold(f, S), f, S)
  BY FoldExists
<1>1. ASSUME NEW T \in SUBSET S, \A U \in SUBSET T : U # T => U \in G PROVE T \in G
  <2>1. CASE T = {}
    BY <1>0, <2>1 DEF Folds
  <2>2. CASE T # {}
    <3>1. Chosen(T) \in T
      BY <2>2 DEF Chosen
    <3>2. T \ {Chosen(T)} \in G
      BY <1>1, <3>1
    <3>3. Fold(f, S)[T] = f[Chosen(T)] + Fold(f, S)[T \ {Chosen(T)}]
      BY <1>0, <2>2 DEF Folds
    <3> QED BY <3>1, <3>2, <3>3
  <2> QED BY <2>1, <2>2
<1> HIDE DEF G
<1>2. S \in G
  BY <1>1, SubsetInduction
<1> QED BY <1>2, SumIsFold DEF G

\* Any element can be taken out first.
LEMMA SumTake ==
  ASSUME NEW f, NEW S, IsFiniteSet(S), \A x \in S : f[x] \in Int, NEW x \in S
  PROVE  SumFunctionOnSet(f, S) = f[x] + SumFunctionOnSet(f, S \ {x})
<1> DEFINE F(s) == SumFunctionOnSet(f, s)
<1> DEFINE G == {T \in SUBSET S : \A y \in T : F(T) = f[y] + F(T \ {y})}
<1>0. ASSUME NEW T \in SUBSET S, T # {}
      PROVE  Chosen(T) \in T /\ F(T) = f[Chosen(T)] + F(T \ {Chosen(T)})
  <2> DEFINE less == T \ {Chosen(T)}
  <2>1. IsFiniteSet(T) /\ IsFiniteSet(less)
    BY FS_Subset
  <2>2. Folds(Fold(f, T), f, T) /\ Folds(Fold(f, less), f, less)
    BY <2>1, FoldExists
  <2>3. Fold(f, T)[T] = f[Chosen(T)] + Fold(f, T)[less]
    BY <1>0, <2>2 DEF Folds
  <2>4. Fold(f, T)[less] = Fold(f, less)[less]
    <3>1. less \subseteq T
      OBVIOUS
    <3>2. PICK it, it2, part : it = Fold(f, T) /\ it2 = Fold(f, less) /\ part = less
      OBVIOUS
    <3>3. IsFiniteSet(part) /\ Folds(it, f, T) /\ Folds(it2, f, part) /\ part \subseteq T
      BY <2>1, <2>2, <3>1, <3>2, Zenon
    <3>4. it[part] = it2[part]
      BY <3>3, FoldsAgree
    <3> QED BY <3>2, <3>4, Zenon
  <2>5. Chosen(T) \in T
    BY <1>0 DEF Chosen
  <2> QED BY <2>3, <2>4, <2>5, SumIsFold
<1>1. ASSUME NEW T \in SUBSET S, \A U \in SUBSET T : U # T => U \in G PROVE T \in G
  <2> SUFFICES ASSUME NEW y \in T PROVE F(T) = f[y] + F(T \ {y})
    OBVIOUS
  <2> DEFINE c == Chosen(T)
  <2>1. c \in T /\ F(T) = f[c] + F(T \ {c})
    BY <1>0
  <2>2. CASE y = c
    BY <2>1, <2>2
  <2>3. CASE y # c
    <3>1. T \ {c} \in G /\ T \ {y} \in G
      BY <1>1, <2>1
    <3>2. F(T \ {c}) = f[y] + F((T \ {c}) \ {y})
      BY <2>3, <3>1
    <3>3. F(T \ {y}) = f[c] + F((T \ {y}) \ {c})
      BY <2>1, <2>3, <3>1
    <3>4. (T \ {c}) \ {y} = (T \ {y}) \ {c}
      OBVIOUS
    <3>5. IsFiniteSet((T \ {c}) \ {y})
      BY FS_Subset
    <3>6. F((T \ {c}) \ {y}) \in Int
      BY <3>5, SumType
    <3>7. f[c] \in Int /\ f[y] \in Int
      BY <2>1
    <3> HIDE DEF F, c
    <3>8. F((T \ {y}) \ {c}) = F((T \ {c}) \ {y})
      BY <3>4
    <3> QED BY <2>1, <3>2, <3>3, <3>6, <3>7, <3>8
  <2> QED BY <2>2, <2>3
<1> HIDE DEF G
<1>2. S \in G
  BY <1>1, SubsetInduction
<1> QED BY <1>2 DEF G

\* An element that is new is added.
LEMMA SumAdd ==
  ASSUME NEW f, NEW S, IsFiniteSet(S), NEW x, x \notin S, \A y \in S \cup {x} : f[y] \in Int
  PROVE  SumFunctionOnSet(f, S \cup {x}) = SumFunctionOnSet(f, S) + f[x]
<1>1. IsFiniteSet(S \cup {x}) /\ x \in S \cup {x} /\ (S \cup {x}) \ {x} = S
  BY FS_AddElement
<1>2. SumFunctionOnSet(f, S \cup {x}) = f[x] + SumFunctionOnSet(f, (S \cup {x}) \ {x})
  BY <1>1, SumTake
<1>3. SumFunctionOnSet(f, S) \in Int /\ f[x] \in Int
  BY SumType
<1>4. SumFunctionOnSet(f, S \cup {x}) = f[x] + SumFunctionOnSet(f, S)
  BY <1>1, <1>2, Zenon
<1> QED BY <1>3, <1>4

\* Where no element is larger, the sum is not.
LEMMA SumGrows ==
  ASSUME NEW f, NEW g, NEW S, IsFiniteSet(S),
         \A x \in S : f[x] \in Int /\ g[x] \in Int /\ f[x] <= g[x]
  PROVE  SumFunctionOnSet(f, S) <= SumFunctionOnSet(g, S)
<1> DEFINE G == {T \in SUBSET S : SumFunctionOnSet(f, T) <= SumFunctionOnSet(g, T)}
<1>1. {} \in G
  BY SumEmpty
<1>2. ASSUME NEW T \in SUBSET S, NEW x \in S \ T, T \in G PROVE T \cup {x} \in G
  <2>1. IsFiniteSet(T)
    BY FS_Subset
  <2>2. SumFunctionOnSet(f, T \cup {x}) = SumFunctionOnSet(f, T) + f[x]
    BY <2>1, SumAdd
  <2>3. SumFunctionOnSet(g, T \cup {x}) = SumFunctionOnSet(g, T) + g[x]
    BY <2>1, SumAdd
  <2>4. SumFunctionOnSet(f, T) \in Int /\ SumFunctionOnSet(g, T) \in Int
    BY <2>1, SumType
  <2> QED BY <1>2, <2>2, <2>3, <2>4
<1> HIDE DEF G
<1>3. S \in G
  BY <1>1, <1>2, ElementInduction
<1> QED BY <1>3 DEF G

\* A sum depends on the elements it is taken over, and on nothing else of the function.
LEMMA SumSame ==
  ASSUME NEW f, NEW g, NEW S, IsFiniteSet(S), \A x \in S : f[x] \in Int /\ f[x] = g[x]
  PROVE  SumFunctionOnSet(f, S) = SumFunctionOnSet(g, S)
<1>1. SumFunctionOnSet(f, S) <= SumFunctionOnSet(g, S)
  BY SumGrows
<1>2. SumFunctionOnSet(g, S) <= SumFunctionOnSet(f, S)
  BY SumGrows
<1>3. SumFunctionOnSet(f, S) \in Int /\ SumFunctionOnSet(g, S) \in Int
  BY SumType
<1> QED BY <1>1, <1>2, <1>3

\* A sum of natural numbers is one, and no less than what it is taken of.
LEMMA SumNat ==
  ASSUME NEW f, NEW S, IsFiniteSet(S), \A x \in S : f[x] \in Nat
  PROVE  /\ SumFunctionOnSet(f, S) \in Nat
         /\ \A T \in SUBSET S : SumFunctionOnSet(f, T) <= SumFunctionOnSet(f, S)
         /\ \A x \in S : f[x] <= SumFunctionOnSet(f, S)
<1> DEFINE F(T) == SumFunctionOnSet(f, T)
<1>1. \A T \in SUBSET S : F(T) \in Nat
  <2> DEFINE G == {T \in SUBSET S : F(T) \in Nat}
  <2>1. ASSUME NEW T \in SUBSET S, \A U \in SUBSET T : U # T => U \in G PROVE T \in G
    <3>1. CASE T = {}
      BY <3>1, SumEmpty
    <3>2. ASSUME NEW x \in T PROVE F(T) \in Nat
      <4>1. F(T) = f[x] + F(T \ {x})
        BY FS_Subset, SumTake
      <4>2. T \ {x} \in G
        BY <2>1
      <4> QED BY <4>1, <4>2
    <3> QED BY <3>1, <3>2
  <2> HIDE DEF G
  <2>2. \A T \in SUBSET S : T \in G
    BY <2>1, SubsetInduction
  <2> QED BY <2>2 DEF G
<1>2. ASSUME NEW x \in S PROVE f[x] <= F(S) /\ F(S \ {x}) <= F(S)
  <2>1. F(S) = f[x] + F(S \ {x})
    BY SumTake
  <2>2. F(S \ {x}) \in Nat
    BY <1>1
  <2> QED BY <2>1, <2>2
<1>3. \A T \in SUBSET S : F(T) <= F(S)
  <2> DEFINE G == {T \in SUBSET S : \A U \in SUBSET T : F(U) <= F(T)}
  <2>1. ASSUME NEW T \in SUBSET S, \A U \in SUBSET T : U # T => U \in G PROVE T \in G
    <3> SUFFICES ASSUME NEW U \in SUBSET T, U # T PROVE F(U) <= F(T)
      BY <1>1
    <3>1. PICK x \in T : x \notin U
      OBVIOUS
    <3>2. F(U) <= F(T \ {x})
      BY <2>1, <3>1
    <3>3. F(T) = f[x] + F(T \ {x})
      BY FS_Subset, SumTake
    <3>4. F(U) \in Nat /\ F(T \ {x}) \in Nat /\ f[x] \in Nat
      BY <1>1
    <3> HIDE DEF F
    <3> QED BY <3>2, <3>3, <3>4
  <2> HIDE DEF G
  <2>2. S \in G
    BY <2>1, SubsetInduction
  <2> QED BY <2>2 DEF G
<1> QED BY <1>1, <1>2, <1>3

\* A sum whose one element changes, changes by as much.
LEMMA SumChange ==
  ASSUME NEW f, NEW g, NEW S, IsFiniteSet(S), NEW x \in S,
         \A y \in S : f[y] \in Int /\ g[y] \in Int,
         \A y \in S \ {x} : g[y] = f[y]
  PROVE  SumFunctionOnSet(g, S) = SumFunctionOnSet(f, S) + (g[x] - f[x])
<1>1. IsFiniteSet(S \ {x})
  BY FS_RemoveElement
<1>2. SumFunctionOnSet(f, S) = f[x] + SumFunctionOnSet(f, S \ {x})
  BY SumTake
<1>3. SumFunctionOnSet(g, S) = g[x] + SumFunctionOnSet(g, S \ {x})
  BY SumTake
<1>4. SumFunctionOnSet(f, S \ {x}) = SumFunctionOnSet(g, S \ {x})
  BY <1>1, SumSame
<1>5. SumFunctionOnSet(f, S \ {x}) \in Int
  BY <1>1, SumType
<1> QED BY <1>2, <1>3, <1>4, <1>5

\* What is counted as 0 may be left out.
LEMMA SumWhere ==
  ASSUME NEW f, NEW g, NEW S, IsFiniteSet(S), NEW T \in SUBSET S,
         \A x \in T : f[x] \in Int /\ g[x] = f[x],
         \A x \in S \ T : g[x] = 0
  PROVE  SumFunctionOnSet(g, S) = SumFunctionOnSet(f, T)
<1> DEFINE G == {U \in SUBSET S : SumFunctionOnSet(g, U) = SumFunctionOnSet(f, U \cap T)}
<1>1. {} \in G
  <2>1. {} \cap T = {}
    OBVIOUS
  <2> QED BY <2>1, SumEmpty
<1>2. ASSUME NEW U \in SUBSET S, NEW x \in S \ U, U \in G PROVE U \cup {x} \in G
  <2>1. IsFiniteSet(U) /\ IsFiniteSet(U \cap T)
    BY FS_Subset
  <2>2. SumFunctionOnSet(g, U \cup {x}) = SumFunctionOnSet(g, U) + g[x]
    BY <2>1, SumAdd
  <2>3. SumFunctionOnSet(f, (U \cup {x}) \cap T) = SumFunctionOnSet(f, U \cap T) + g[x]
    <3>1. CASE x \in T
      <4>1. SumFunctionOnSet(f, (U \cap T) \cup {x}) = SumFunctionOnSet(f, U \cap T) + f[x]
        BY <1>2, <2>1, <3>1, SumAdd
      <4>2. (U \cup {x}) \cap T = (U \cap T) \cup {x}
        BY <3>1
      <4> QED BY <3>1, <4>1, <4>2
    <3>2. CASE x \notin T
      <4>1. (U \cup {x}) \cap T = U \cap T /\ g[x] = 0
        BY <3>2
      <4>2. SumFunctionOnSet(f, U \cap T) \in Int
        BY <2>1, SumType
      <4>3. SumFunctionOnSet(f, (U \cup {x}) \cap T) = SumFunctionOnSet(f, U \cap T)
        BY <4>1, Zenon
      <4> QED BY <4>1, <4>2, <4>3
    <3> QED BY <3>1, <3>2
  <2> QED BY <1>2, <2>2, <2>3
<1> HIDE DEF G
<1>3. S \in G
  BY <1>1, <1>2, ElementInduction
<1>4. S \cap T = T
  OBVIOUS
<1> QED BY <1>3, <1>4 DEF G

\* A number that is no larger, c times, for each element is no larger, c times, in sum.
LEMMA SumScaled ==
  ASSUME NEW f, NEW g, NEW S, IsFiniteSet(S), NEW c \in Int,
         \A x \in S : f[x] \in Int /\ g[x] \in Int /\ c * f[x] <= g[x]
  PROVE  c * SumFunctionOnSet(f, S) <= SumFunctionOnSet(g, S)
<1> DEFINE G == {T \in SUBSET S : c * SumFunctionOnSet(f, T) <= SumFunctionOnSet(g, T)}
<1>1. {} \in G
  BY SumEmpty
<1>2. ASSUME NEW T \in SUBSET S, NEW x \in S \ T, T \in G PROVE T \cup {x} \in G
  <2>1. IsFiniteSet(T)
    BY FS_Subset
  <2>2. PICK u \in Int : u = SumFunctionOnSet(f, T)
    BY <2>1, SumType
  <2>3. PICK v \in Int : v = SumFunctionOnSet(g, T)
    BY <2>1, SumType
  <2>4. PICK y \in Int : y = f[x]
    OBVIOUS
  <2>5. SumFunctionOnSet(f, T \cup {x}) = u + y
    BY <2>1, <2>2, <2>4, SumAdd
  <2>6. SumFunctionOnSet(g, T \cup {x}) = v + g[x]
    BY <2>1, <2>3, SumAdd
  <2>7. c * u <= v /\ c * y <= g[x] /\ c * (u + y) = c * u + c * y
    BY <1>2, <2>2, <2>3, <2>4
  <2>8. c * u \in Int /\ c * y \in Int /\ g[x] \in Int
    OBVIOUS
  <2>9. c * (u + y) <= v + g[x]
    BY <2>7, <2>8
  <2> QED BY <2>5, <2>6, <2>9
<1> HIDE DEF G
<1>3. S \in G
  BY <1>1, <1>2, ElementInduction
<1> QED BY <1>3 DEF G

\* What each element of a part is counted higher by, the sum is higher by.
LEMMA SumRaised ==
  ASSUME NEW f, NEW S, IsFiniteSet(S), NEW c \in Int, \A x \in S : f[x] \in Int, NEW up \in SUBSET S
  PROVE  SumFunctionOnSet([x \in S |-> f[x] + (IF x \in up THEN c ELSE 0)], S)
           = SumFunctionOnSet(f, S) + c * Cardinality(up)
<1> DEFINE F(T) == [x \in S |-> f[x] + (IF x \in T THEN c ELSE 0)]
           G == {T \in SUBSET up :
                   SumFunctionOnSet(F(T), S) = SumFunctionOnSet(f, S) + c * Cardinality(T)}
<1>1. SumFunctionOnSet(f, S) \in Int
  BY SumType
<1>2. {} \in G
  <2>1. SumFunctionOnSet(f, S) = SumFunctionOnSet(F({}), S)
    BY SumSame
  <2> QED BY <1>1, <2>1, FS_EmptySet
<1>3. ASSUME NEW T \in SUBSET up, NEW x \in up \ T, T \in G PROVE T \cup {x} \in G
  <2>1. IsFiniteSet(T)
    BY FS_Subset
  <2>2. Cardinality(T \cup {x}) = Cardinality(T) + 1 /\ Cardinality(T) \in Nat
    BY <2>1, FS_AddElement, FS_CardinalityType
  <2>3. SumFunctionOnSet(F(T \cup {x}), S)
          = SumFunctionOnSet(F(T), S) + (F(T \cup {x})[x] - F(T)[x])
    BY SumChange
  <2>4. F(T \cup {x})[x] - F(T)[x] = c
    OBVIOUS
  <2>5. SumFunctionOnSet(F(T), S) = SumFunctionOnSet(f, S) + c * Cardinality(T)
    BY <1>3
  <2> HIDE DEF F
  <2>6. c * (Cardinality(T) + 1) = c * Cardinality(T) + c /\ c * Cardinality(T) \in Int
    <3>1. PICK n \in Nat : n = Cardinality(T)
      BY <2>2
    <3>2. c * (n + 1) = c * n + c /\ c * n \in Int
      OBVIOUS
    <3> QED BY <3>1, <3>2
  <2>7. SumFunctionOnSet(F(T \cup {x}), S) = SumFunctionOnSet(f, S) + c * Cardinality(T \cup {x})
    BY <1>1, <2>2, <2>3, <2>4, <2>5, <2>6
  <2> QED BY <2>7
<1> HIDE DEF G
<1>4. IsFiniteSet(up)
  BY FS_Subset
<1>5. up \in G
  BY <1>2, <1>3, <1>4, ElementInduction
<1> QED BY <1>5 DEF G

-----------------------------------------------------------------------------
(* Numbers *)

\* The smaller of two numbers.
LEMMA MinOfTwo ==
  ASSUME NEW a \in Int, NEW b \in Int
  PROVE  /\ Min({a, b}) \in Int /\ Min({a, b}) <= a /\ Min({a, b}) <= b
         /\ Min({a, b}) \in {a, b}
<1>1. \E x \in {a, b} : \A y \in {a, b} : x <= y
  OBVIOUS
<1> QED BY <1>1 DEF Min

\* A finite set of numbers has a largest one.
LEMMA MaxExists ==
  ASSUME NEW S \in SUBSET Int, IsFiniteSet(S), S # {}
  PROVE  Max(S) \in S /\ \A y \in S : y <= Max(S)
<1> DEFINE G == {T \in SUBSET S : T # {} => \E x \in T : \A y \in T : x >= y}
<1>1. {} \in G
  OBVIOUS
<1>2. ASSUME NEW T \in SUBSET S, NEW x \in S \ T, T \in G PROVE T \cup {x} \in G
  <2>1. CASE T = {}
    BY <2>1
  <2>2. CASE T # {}
    <3>1. PICK z \in T : \A y \in T : z >= y
      BY <1>2, <2>2
    <3>2. CASE x >= z
      BY <3>1, <3>2
    <3>3. CASE ~ (x >= z)
      BY <3>1, <3>3
    <3> QED BY <3>2, <3>3
  <2> QED BY <2>1, <2>2
<1> HIDE DEF G
<1>3. S \in G
  BY <1>1, <1>2, ElementInduction
<1>4. \E x \in S : \A y \in S : x >= y
  BY <1>3 DEF G
<1> QED BY <1>4 DEF Max

\* The whole packs in a number of units.
LEMMA WholePacks ==
  ASSUME NEW x \in Nat, NEW m \in Nat \ {0}
  PROVE  /\ x \div m \in Nat /\ (x \div m) * m \in Nat
         /\ (x \div m) * m <= x /\ x < (x \div m) * m + m
  OBVIOUS

\* A set that has 0, and with a number the next one, has every number.
LEMMA NumberInduction ==
  ASSUME NEW A, 0 \in A, \A n \in Nat : n \in A => n + 1 \in A
  PROVE  \A n \in Nat : n \in A
<1> SUFFICES ASSUME NEW n \in Nat PROVE n \in A
  OBVIOUS
<1> DEFINE S == {m \in 0 .. n : m \in A /\ \A k \in 0 .. m : k \in A}
<1>1. S \in SUBSET Int /\ IsFiniteSet(S) /\ 0 \in S
  <2>1. IsFiniteSet(0 .. n) /\ S \in SUBSET (0 .. n)
    BY FS_Interval
  <2> QED BY <2>1, FS_Subset
<1>2. PICK m \in S : \A y \in S : y <= m
  <2> HIDE DEF S
  <2> QED BY <1>1, MaxExists
<1>3. CASE m < n
  <2>1. m + 1 \in 0 .. n /\ m + 1 \in A
    BY <1>2, <1>3
  <2>2. \A k \in 0 .. m + 1 : k \in A
    <3>1. \A k \in 0 .. m + 1 : k \in 0 .. m \/ k = m + 1
      BY <1>2
    <3> QED BY <1>2, <2>1, <3>1
  <2>3. m + 1 \in S
    BY <2>1, <2>2
  <2> QED BY <1>2, <2>3
<1>4. CASE m = n
  BY <1>2, <1>4
<1> QED BY <1>2, <1>3, <1>4
=============================================================================
