--------------------------- MODULE FiniteAlgebra ---------------------------
(***************************************************************************)
(* What the proofs take from mathematics.  First, facts about the sums and *)
(* the folds of the community modules over finite sets: the library        *)
(* defines them by recursion over the set, an element chosen at a time,    *)
(* and here the recursion is shown to have a solution and to be            *)
(* independent of the choices.  Then what the SDK's secret sharing rests   *)
(* on: fields given by the tables of their operations, interpolation at    *)
(* zero, the integers modulo a prime, and Fermat's little theorem.  Each   *)
(* argument by induction looks for a smallest counterexample among the     *)
(* natural numbers or the subsets of a finite set.                         *)
(***************************************************************************)
EXTENDS Integers, FiniteSets, Functions, FiniteSetTheorems, WellFoundedInduction, TLAPS

----------------------------------------------------------------------------
(* Sums.                                                                   *)

LEMMA SmallestSubset ==
  ASSUME NEW S, IsFiniteSet(S), NEW Bad \in SUBSET SUBSET S, Bad # {}
  PROVE  \E T \in Bad : \A U \in Bad : U \subseteq T => U = T
  <1>1. Bad \subseteq FiniteSubsetsOf(S)
    BY FS_FiniteSubsetsOfFinite
  <1>2. \E T \in Bad : \A U \in Bad : ~(<<U, T>> \in StrictSubsetOrdering(S))
    BY <1>1, FS_StrictSubsetOrderingWellFounded, WFMin
  <1>3. \A T, U \in Bad : U \subseteq T /\ U # T => <<U, T>> \in StrictSubsetOrdering(S)
    BY DEF StrictSubsetOrdering
  <1> QED
    BY <1>2, <1>3

----------------------------------------------------------------------------
(* The recursion of the library.                                           *)

Chosen(T) == CHOOSE x \in T : TRUE

\* it maps each subset of S to its sum.
IsSum(f, S, it) == it = [T \in SUBSET S |-> IF T = {} THEN 0
                                            ELSE f[Chosen(T)] + it[T \ {Chosen(T)}]]

TheSums(f, S) == CHOOSE it : IsSum(f, S, it)

\* Two solutions, of sets that overlap, agree where they do.
LEMMA SumsAgree ==
  ASSUME NEW f, NEW S, NEW T, IsFiniteSet(S), IsFiniteSet(T),
         NEW it, NEW jt, IsSum(f, S, it), IsSum(f, T, jt),
         NEW R \in SUBSET (S \cap T)
  PROVE  it[R] = jt[R]
  <1> DEFINE Bad == {U \in SUBSET (S \cap T) : it[U] # jt[U]}
  <1>1. SUFFICES ASSUME Bad # {} PROVE FALSE
    OBVIOUS
  <1>2. IsFiniteSet(S \cap T)
    BY FS_Intersection
  <1>3. \E U \in Bad : \A V \in Bad : V \subseteq U => V = U
    <2>1. Bad \in SUBSET SUBSET (S \cap T)
      OBVIOUS
    <2> HIDE DEF Bad
    <2> QED
      BY <1>1, <1>2, <2>1, SmallestSubset
  <1>4. PICK U \in Bad : \A V \in Bad : V \subseteq U => V = U
    BY <1>3
  <1>5. CASE U = {}
    <2>1. {} \in SUBSET S /\ {} \in SUBSET T
      OBVIOUS
    <2>2. it[{}] = 0 /\ jt[{}] = 0
      BY <2>1 DEF IsSum
    <2> QED
      BY <1>5, <2>2
  <1>6. CASE U # {}
    <2>1. Chosen(U) \in U
      BY <1>6 DEF Chosen
    <2> DEFINE V == U \ {Chosen(U)}
    <2>2. V \in SUBSET (S \cap T) /\ V # U
      BY <2>1
    <2>3. it[V] = jt[V]
      BY <1>4, <2>2
    <2>4. it[U] = f[Chosen(U)] + it[V]
      BY <1>6 DEF IsSum
    <2>5. jt[U] = f[Chosen(U)] + jt[V]
      BY <1>6 DEF IsSum
    <2> QED
      BY <2>3, <2>4, <2>5
  <1> QED
    BY <1>5, <1>6

LEMMA SumsExist ==
  ASSUME NEW f, NEW S, IsFiniteSet(S)
  PROVE  IsSum(f, S, TheSums(f, S))
  <1> DEFINE Bad == {T \in SUBSET S : ~ \E it : IsSum(f, T, it)}
  <1>1. SUFFICES Bad = {}
    <2>1. S \notin Bad
      OBVIOUS
    <2> QED
      BY <2>1 DEF TheSums
  <1>2. SUFFICES ASSUME Bad # {} PROVE FALSE
    OBVIOUS
  <1>3. \E T \in Bad : \A U \in Bad : U \subseteq T => U = T
    <2>1. Bad \in SUBSET SUBSET S
      OBVIOUS
    <2> HIDE DEF Bad
    <2> QED
      BY <1>2, <2>1, SmallestSubset
  <1>4. PICK T \in Bad : \A U \in Bad : U \subseteq T => U = T
    BY <1>3
  <1>5. \A U \in SUBSET T : IsFiniteSet(U) /\ (U # T => IsSum(f, U, TheSums(f, U)))
    <2> TAKE U \in SUBSET T
    <2>1. IsFiniteSet(U)
      BY FS_Subset
    <2>2. U # T => U \notin Bad
      BY <1>4
    <2>3. U # T => \E it : IsSum(f, U, it)
      BY <2>2
    <2> QED
      BY <2>1, <2>3 DEF TheSums
  <1> DEFINE sum(U) == TheSums(f, U)[U]
             it == [U \in SUBSET T |-> IF U = {} THEN 0
                                       ELSE f[Chosen(U)] + sum(U \ {Chosen(U)})]
  <1>6. ASSUME NEW U \in SUBSET T, U # T
        PROVE  it[U] = sum(U)
    <2>1. IsSum(f, U, TheSums(f, U))
      BY <1>5, <1>6
    <2>2. CASE U = {}
      BY <2>1, <2>2 DEF IsSum
    <2>3. CASE U # {}
      <3> DEFINE V == U \ {Chosen(U)}
      <3>1. V \in SUBSET T /\ V # T /\ V \in SUBSET U
        BY <1>6
      <3>2. IsSum(f, V, TheSums(f, V)) /\ IsFiniteSet(V) /\ IsFiniteSet(U)
        BY <1>5, <3>1
      <3>3. TheSums(f, U)[V] = TheSums(f, V)[V]
        BY <2>1, <3>1, <3>2, SumsAgree
      <3>4. TheSums(f, U)[U] = f[Chosen(U)] + TheSums(f, U)[V]
        BY <2>1, <2>3 DEF IsSum
      <3> QED
        BY <2>3, <3>3, <3>4
    <2> QED
      BY <2>2, <2>3
  <1>7. \A U \in SUBSET T : U # {} => it[U \ {Chosen(U)}] = sum(U \ {Chosen(U)})
    <2> SUFFICES ASSUME NEW U \in SUBSET T, U # {}
                 PROVE  it[U \ {Chosen(U)}] = sum(U \ {Chosen(U)})
      OBVIOUS
    <2>1. Chosen(U) \in U
      BY DEF Chosen
    <2>2. U \ {Chosen(U)} \in SUBSET T /\ U \ {Chosen(U)} # T
      BY <2>1
    <2> HIDE DEF it, sum
    <2> QED
      BY <1>6, <2>2
  <1>8. IsSum(f, T, it)
    BY <1>7 DEF IsSum
  <1> QED
    BY <1>8

\* The library's sum, an element at a time.
LEMMA SumIsTheSum ==
  ASSUME NEW f, NEW S
  PROVE  SumFunctionOnSet(f, S) = TheSums(f, S)[S]
  BY DEF SumFunctionOnSet, FoldFunctionOnSet, MapThenFoldSet, TheSums, IsSum, Chosen

LEMMA SumEmpty ==
  ASSUME NEW f
  PROVE  SumFunctionOnSet(f, {}) = 0
  <1>1. IsSum(f, {}, TheSums(f, {}))
    BY FS_EmptySet, SumsExist
  <1> QED
    BY <1>1, SumIsTheSum DEF IsSum

LEMMA SumChosen ==
  ASSUME NEW f, NEW S, IsFiniteSet(S), S # {}
  PROVE  /\ Chosen(S) \in S
         /\ SumFunctionOnSet(f, S) = f[Chosen(S)] + SumFunctionOnSet(f, S \ {Chosen(S)})
  <1> DEFINE V == S \ {Chosen(S)}
  <1>1. Chosen(S) \in S
    BY DEF Chosen
  <1>2. IsFiniteSet(V)
    BY FS_RemoveElement
  <1>3. IsSum(f, S, TheSums(f, S)) /\ IsSum(f, V, TheSums(f, V))
    BY <1>2, SumsExist
  <1>4. TheSums(f, S)[V] = TheSums(f, V)[V]
    <2>1. V \in SUBSET (S \cap V)
      OBVIOUS
    <2> QED
      BY <1>2, <1>3, <2>1, SumsAgree
  <1>5. TheSums(f, S)[S] = f[Chosen(S)] + TheSums(f, S)[V]
    BY <1>3 DEF IsSum
  <1> QED
    BY <1>1, <1>4, <1>5, SumIsTheSum

----------------------------------------------------------------------------
(* Facts that do not depend on the order of the elements.                  *)

IsIntOn(f, S) == \A x \in S : f[x] \in Int

LEMMA SumRemove ==
  ASSUME NEW f, NEW S, IsFiniteSet(S), IsIntOn(f, S)
  PROVE  /\ SumFunctionOnSet(f, S) \in Int
         /\ \A x \in S : SumFunctionOnSet(f, S) = f[x] + SumFunctionOnSet(f, S \ {x})
  <1> DEFINE Sum(T) == SumFunctionOnSet(f, T)
             Good(T) == /\ Sum(T) \in Int
                        /\ \A x \in T : Sum(T) = f[x] + Sum(T \ {x})
             Bad == {T \in SUBSET S : ~Good(T)}
  <1>1. SUFFICES ASSUME Bad # {} PROVE FALSE
    OBVIOUS
  <1>2. \E T \in Bad : \A U \in Bad : U \subseteq T => U = T
    <2>1. Bad \in SUBSET SUBSET S
      OBVIOUS
    <2> HIDE DEF Bad
    <2> QED
      BY <1>1, <2>1, SmallestSubset
  <1>3. PICK T \in Bad : \A U \in Bad : U \subseteq T => U = T
    BY <1>2
  <1>4. \A U \in SUBSET T : IsFiniteSet(U) /\ (U # T => Good(U))
    BY <1>3, FS_Subset
  <1>5. CASE T = {}
    <2>1. Sum({}) = 0
      BY SumEmpty
    <2> QED
      BY <1>3, <1>5, <2>1
  <1>6. CASE T # {}
    <2> DEFINE c == Chosen(T)
    <2>1. c \in T /\ Sum(T) = f[c] + Sum(T \ {c})
      BY <1>4, <1>6, SumChosen
    <2> HIDE DEF c, Sum
    <2>2. Good(T \ {c})
      BY <1>4, <2>1
    <2>3. Sum(T) \in Int
      BY <2>1, <2>2 DEF IsIntOn
    <2>4. ASSUME NEW x \in T, x # c
          PROVE  Sum(T) = f[x] + Sum(T \ {x})
      <3>1. /\ T \ {x} \in SUBSET T
            /\ T \ {x} # T
            /\ (T \ {c}) \ {x} = (T \ {x}) \ {c}
            /\ (T \ {c}) \ {x} \in SUBSET T
            /\ (T \ {c}) \ {x} # T
        BY <2>1
      <3>2. Sum(T \ {c}) = f[x] + Sum((T \ {c}) \ {x})
        BY <2>2, <2>4
      <3>3. Sum(T \ {x}) = f[c] + Sum((T \ {x}) \ {c})
        BY <1>4, <2>1, <2>4, <3>1
      <3>4. Sum((T \ {c}) \ {x}) \in Int
        BY <1>4, <3>1
      <3>5. f[x] \in Int /\ f[c] \in Int
        BY <2>1, <2>4 DEF IsIntOn
      <3>6. Sum(T) = f[c] + (f[x] + Sum((T \ {c}) \ {x}))
        BY <2>1, <3>2
      <3>7. Sum(T \ {x}) = f[c] + Sum((T \ {c}) \ {x})
        BY <3>1, <3>3
      <3> QED
        BY <3>4, <3>5, <3>6, <3>7
    <2>5. Good(T)
      BY <2>1, <2>3, <2>4
    <2> QED
      BY <1>3, <2>5
  <1> QED
    BY <1>5, <1>6

\* A sum is one of the values that are summed, and of nothing else.
LEMMA SumCongruence ==
  ASSUME NEW S, IsFiniteSet(S), NEW f, NEW g, IsIntOn(f, S), \A x \in S : f[x] = g[x]
  PROVE  SumFunctionOnSet(f, S) = SumFunctionOnSet(g, S)
  <1> DEFINE Bad == {T \in SUBSET S : SumFunctionOnSet(f, T) # SumFunctionOnSet(g, T)}
  <1>1. SUFFICES ASSUME Bad # {} PROVE FALSE
    OBVIOUS
  <1>2. \E T \in Bad : \A U \in Bad : U \subseteq T => U = T
    <2>1. Bad \in SUBSET SUBSET S
      OBVIOUS
    <2> HIDE DEF Bad
    <2> QED
      BY <1>1, <2>1, SmallestSubset
  <1>3. PICK T \in Bad : \A U \in Bad : U \subseteq T => U = T
    BY <1>2
  <1>4. IsFiniteSet(T)
    BY FS_Subset
  <1>5. CASE T = {}
    BY <1>3, <1>5, SumEmpty
  <1>6. CASE T # {}
    <2>1. PICK x \in T : TRUE
      BY <1>6
    <2>2. IsIntOn(f, T) /\ IsIntOn(g, T)
      BY <1>3 DEF IsIntOn
    <2>3. /\ SumFunctionOnSet(f, T) = f[x] + SumFunctionOnSet(f, T \ {x})
          /\ SumFunctionOnSet(g, T) = g[x] + SumFunctionOnSet(g, T \ {x})
      BY <1>4, <2>2, SumRemove
    <2>4. SumFunctionOnSet(f, T \ {x}) = SumFunctionOnSet(g, T \ {x})
      BY <1>3, <2>1
    <2> QED
      BY <1>3, <2>3, <2>4
  <1> QED
    BY <1>5, <1>6

\* One value changes.
LEMMA SumUpdate ==
  ASSUME NEW S, IsFiniteSet(S), NEW f, NEW g, IsIntOn(f, S), IsIntOn(g, S),
         NEW x \in S, \A y \in S \ {x} : f[y] = g[y]
  PROVE  SumFunctionOnSet(g, S) = SumFunctionOnSet(f, S) - f[x] + g[x]
  <1>1. IsFiniteSet(S \ {x}) /\ IsIntOn(f, S \ {x})
    BY FS_RemoveElement DEF IsIntOn
  <1>2. SumFunctionOnSet(f, S \ {x}) = SumFunctionOnSet(g, S \ {x})
    BY <1>1, SumCongruence
  <1>3. /\ SumFunctionOnSet(f, S) = f[x] + SumFunctionOnSet(f, S \ {x})
        /\ SumFunctionOnSet(g, S) = g[x] + SumFunctionOnSet(g, S \ {x})
        /\ SumFunctionOnSet(f, S \ {x}) \in Int
    BY <1>1, SumRemove
  <1> QED
    BY <1>2, <1>3 DEF IsIntOn

\* Sums of sums.
LEMMA SumOfBoth ==
  ASSUME NEW S, IsFiniteSet(S), NEW f, NEW g, NEW h, IsIntOn(f, S), IsIntOn(g, S),
         \A x \in S : h[x] = f[x] + g[x]
  PROVE  SumFunctionOnSet(h, S) = SumFunctionOnSet(f, S) + SumFunctionOnSet(g, S)
  <1> DEFINE Bad == {T \in SUBSET S : SumFunctionOnSet(h, T)
                                        # SumFunctionOnSet(f, T) + SumFunctionOnSet(g, T)}
  <1>1. SUFFICES ASSUME Bad # {} PROVE FALSE
    OBVIOUS
  <1>2. \E T \in Bad : \A U \in Bad : U \subseteq T => U = T
    <2>1. Bad \in SUBSET SUBSET S
      OBVIOUS
    <2> HIDE DEF Bad
    <2> QED
      BY <1>1, <2>1, SmallestSubset
  <1>3. PICK T \in Bad : \A U \in Bad : U \subseteq T => U = T
    BY <1>2
  <1>4. IsFiniteSet(T)
    BY FS_Subset
  <1>5. CASE T = {}
    BY <1>3, <1>5, SumEmpty
  <1>6. CASE T # {}
    <2>1. PICK x \in T : TRUE
      BY <1>6
    <2>2. IsIntOn(f, T) /\ IsIntOn(g, T) /\ IsIntOn(h, T)
      BY <1>3 DEF IsIntOn
    <2>3. /\ SumFunctionOnSet(f, T) = f[x] + SumFunctionOnSet(f, T \ {x})
          /\ SumFunctionOnSet(g, T) = g[x] + SumFunctionOnSet(g, T \ {x})
          /\ SumFunctionOnSet(h, T) = h[x] + SumFunctionOnSet(h, T \ {x})
      BY <1>4, <2>2, SumRemove
    <2>4. SumFunctionOnSet(h, T \ {x})
            = SumFunctionOnSet(f, T \ {x}) + SumFunctionOnSet(g, T \ {x})
      BY <1>3, <2>1
    <2>5. /\ SumFunctionOnSet(f, T \ {x}) \in Int
          /\ SumFunctionOnSet(g, T \ {x}) \in Int
      <3>1. IsFiniteSet(T \ {x}) /\ IsIntOn(f, T \ {x}) /\ IsIntOn(g, T \ {x})
        BY <1>4, <2>2, FS_RemoveElement DEF IsIntOn
      <3> QED
        BY <3>1, SumRemove
    <2>6. h[x] = f[x] + g[x] /\ f[x] \in Int /\ g[x] \in Int
      BY <1>3, <2>1, <2>2 DEF IsIntOn
    <2> QED
      BY <1>3, <2>3, <2>4, <2>5, <2>6
  <1> QED
    BY <1>5, <1>6

\* c for each element of A, and nothing for the others.
LEMMA SumIndicator ==
  ASSUME NEW S, IsFiniteSet(S), NEW A \in SUBSET S, NEW c \in Int,
         NEW f, \A x \in S : f[x] = IF x \in A THEN c ELSE 0
  PROVE  SumFunctionOnSet(f, S) = c * Cardinality(A)
  <1> DEFINE Bad == {T \in SUBSET S : SumFunctionOnSet(f, T) # c * Cardinality(A \cap T)}
  <1>1. SUFFICES ASSUME Bad # {} PROVE FALSE
    <2>1. A \cap S = A
      OBVIOUS
    <2> QED
      BY <2>1
  <1>2. \E T \in Bad : \A U \in Bad : U \subseteq T => U = T
    <2>1. Bad \in SUBSET SUBSET S
      OBVIOUS
    <2> HIDE DEF Bad
    <2> QED
      BY <1>1, <2>1, SmallestSubset
  <1>3. PICK T \in Bad : \A U \in Bad : U \subseteq T => U = T
    BY <1>2
  <1>4. IsFiniteSet(T)
    BY FS_Subset
  <1>5. CASE T = {}
    <2>1. A \cap T = {}
      BY <1>5
    <2>2. SumFunctionOnSet(f, T) = 0 /\ Cardinality(A \cap T) = 0
      BY <1>5, <2>1, SumEmpty, FS_EmptySet
    <2> QED
      BY <1>3, <2>2
  <1>6. CASE T # {}
    <2>1. PICK x \in T : TRUE
      BY <1>6
    <2>2. IsIntOn(f, T)
      BY <1>3 DEF IsIntOn
    <2>3. SumFunctionOnSet(f, T) = f[x] + SumFunctionOnSet(f, T \ {x})
      BY <1>4, <2>2, SumRemove
    <2>4. SumFunctionOnSet(f, T \ {x}) = c * Cardinality(A \cap (T \ {x}))
      BY <1>3, <2>1
    <2>5. IsFiniteSet(A \cap T) /\ Cardinality(A \cap T) \in Nat
      BY <1>4, FS_Intersection, FS_CardinalityType
    <2>6. A \cap (T \ {x}) = (A \cap T) \ {x}
      OBVIOUS
    <2>7. Cardinality((A \cap T) \ {x}) =
            IF x \in A THEN Cardinality(A \cap T) - 1 ELSE Cardinality(A \cap T)
      BY <2>1, <2>5, FS_RemoveElement
    <2>8. SumFunctionOnSet(f, T) = c * Cardinality(A \cap T)
      <3>1. CASE x \in A
        <4>1. \A n \in Nat : c + c * (n - 1) = c * n
          OBVIOUS
        <4> QED
          BY <1>3, <2>1, <2>3, <2>4, <2>5, <2>6, <2>7, <3>1, <4>1
      <3>2. CASE x \notin A
        <4>1. \A n \in Nat : 0 + c * n = c * n
          OBVIOUS
        <4> QED
          BY <1>3, <2>1, <2>3, <2>4, <2>5, <2>6, <2>7, <3>2, <4>1
      <3> QED
        BY <3>1, <3>2
    <2> QED
      BY <1>3, <2>8
  <1> QED
    BY <1>5, <1>6

\* Sums of what is not negative.
LEMMA SumNat ==
  ASSUME NEW S, IsFiniteSet(S), NEW f, \A x \in S : f[x] \in Nat
  PROVE  /\ SumFunctionOnSet(f, S) \in Nat
         /\ \A x \in S : f[x] <= SumFunctionOnSet(f, S)
  <1> DEFINE Bad == {T \in SUBSET S : SumFunctionOnSet(f, T) \notin Nat}
  <1>1. Bad = {}
    <2>1. SUFFICES ASSUME Bad # {} PROVE FALSE
      OBVIOUS
    <2>2. \E T \in Bad : \A U \in Bad : U \subseteq T => U = T
      <3>1. Bad \in SUBSET SUBSET S
        OBVIOUS
      <3> HIDE DEF Bad
      <3> QED
        BY <2>1, <3>1, SmallestSubset
    <2>3. PICK T \in Bad : \A U \in Bad : U \subseteq T => U = T
      BY <2>2
    <2>4. CASE T = {}
      BY <2>3, <2>4, SumEmpty
    <2>5. CASE T # {}
      <3>1. PICK x \in T : TRUE
        BY <2>5
      <3>2. IsFiniteSet(T) /\ IsIntOn(f, T)
        BY <2>3, FS_Subset DEF IsIntOn
      <3>3. SumFunctionOnSet(f, T) = f[x] + SumFunctionOnSet(f, T \ {x})
        BY <3>2, SumRemove
      <3>4. SumFunctionOnSet(f, T \ {x}) \in Nat /\ f[x] \in Nat
        BY <2>3, <3>1
      <3> QED
        BY <2>3, <3>3, <3>4
    <2> QED
      BY <2>4, <2>5
  <1>2. \A T \in SUBSET S : SumFunctionOnSet(f, T) \in Nat
    BY <1>1
  <1>3. IsIntOn(f, S)
    BY DEF IsIntOn
  <1>4. ASSUME NEW x \in S
        PROVE  f[x] <= SumFunctionOnSet(f, S)
    <2>1. SumFunctionOnSet(f, S) = f[x] + SumFunctionOnSet(f, S \ {x})
      BY <1>3, SumRemove
    <2>2. SumFunctionOnSet(f, S \ {x}) \in Nat
      BY <1>2
    <2> QED
      BY <2>1, <2>2
  <1>5. SumFunctionOnSet(f, S) \in Nat
    BY <1>2
  <1> QED
    BY <1>4, <1>5

\* A set and the rest.
LEMMA SumSplit ==
  ASSUME NEW S, IsFiniteSet(S), NEW T \in SUBSET S, NEW f, IsIntOn(f, S)
  PROVE  SumFunctionOnSet(f, S) = SumFunctionOnSet(f, T) + SumFunctionOnSet(f, S \ T)
  <1> DEFINE Bad == {U \in SUBSET (S \ T) : SumFunctionOnSet(f, T \cup U)
                                    # SumFunctionOnSet(f, T) + SumFunctionOnSet(f, U)}
  <1>1. SUFFICES ASSUME Bad # {} PROVE FALSE
    <2>1. T \cup (S \ T) = S
      OBVIOUS
    <2>2. S \ T \notin Bad
      BY <1>1
    <2> QED
      BY <2>1, <2>2
  <1>2. IsFiniteSet(S \ T) /\ IsFiniteSet(T)
    BY FS_Difference, FS_Subset
  <1>3. \E U \in Bad : \A V \in Bad : V \subseteq U => V = U
    <2>1. Bad \in SUBSET SUBSET (S \ T)
      OBVIOUS
    <2> HIDE DEF Bad
    <2> QED
      BY <1>1, <1>2, <2>1, SmallestSubset
  <1>4. PICK U \in Bad : \A V \in Bad : V \subseteq U => V = U
    BY <1>3
  <1>5. \A V \in SUBSET S : /\ IsFiniteSet(V)
                            /\ IsIntOn(f, V)
                            /\ SumFunctionOnSet(f, V) \in Int
    <2> SUFFICES ASSUME NEW V \in SUBSET S
                 PROVE  IsFiniteSet(V) /\ IsIntOn(f, V) /\ SumFunctionOnSet(f, V) \in Int
      OBVIOUS
    <2>1. IsFiniteSet(V) /\ IsIntOn(f, V)
      BY FS_Subset DEF IsIntOn
    <2> QED
      BY <2>1, SumRemove
  <1>6. CASE U = {}
    <2>1. T \cup U = T
      BY <1>6
    <2>2. SumFunctionOnSet(f, U) = 0
      BY <1>6, SumEmpty
    <2>3. SumFunctionOnSet(f, T) \in Int
      BY <1>5
    <2>4. SumFunctionOnSet(f, T \cup U) # SumFunctionOnSet(f, T) + SumFunctionOnSet(f, U)
      BY <1>4
    <2>5. SumFunctionOnSet(f, T) # SumFunctionOnSet(f, T) + 0
      BY <2>1, <2>2, <2>4
    <2> QED
      BY <2>3, <2>5
  <1>7. CASE U # {}
    <2>1. PICK x \in U : TRUE
      BY <1>7
    <2>2. /\ T \cup U \in SUBSET S
          /\ U \in SUBSET S
          /\ U \ {x} \in SUBSET S
          /\ x \in T \cup U
          /\ (T \cup U) \ {x} = T \cup (U \ {x})
      BY <1>4, <2>1
    <2>3. SumFunctionOnSet(f, T \cup U) = f[x] + SumFunctionOnSet(f, (T \cup U) \ {x})
      BY <1>5, <2>2, SumRemove
    <2>4. SumFunctionOnSet(f, U) = f[x] + SumFunctionOnSet(f, U \ {x})
      BY <1>5, <2>1, <2>2, SumRemove
    <2>5. SumFunctionOnSet(f, T \cup (U \ {x}))
            = SumFunctionOnSet(f, T) + SumFunctionOnSet(f, U \ {x})
      BY <1>4, <2>1
    <2>6. /\ f[x] \in Int
          /\ SumFunctionOnSet(f, T) \in Int
          /\ SumFunctionOnSet(f, U \ {x}) \in Int
      BY <1>5, <2>1, <2>2 DEF IsIntOn
    <2> QED
      BY <1>4, <2>2, <2>3, <2>4, <2>5, <2>6
  <1> QED
    BY <1>6, <1>7

\* A part of what is not negative is not more than the whole.
LEMMA SumSubset ==
  ASSUME NEW S, IsFiniteSet(S), NEW T \in SUBSET S, NEW f, \A x \in S : f[x] \in Nat
  PROVE  SumFunctionOnSet(f, T) <= SumFunctionOnSet(f, S)
  <1>1. IsFiniteSet(T) /\ IsFiniteSet(S \ T) /\ IsIntOn(f, S)
    BY FS_Subset, FS_Difference DEF IsIntOn
  <1>2. SumFunctionOnSet(f, T) \in Nat /\ SumFunctionOnSet(f, S \ T) \in Nat
    BY <1>1, SumNat
  <1>3. SumFunctionOnSet(f, S) = SumFunctionOnSet(f, T) + SumFunctionOnSet(f, S \ T)
    BY <1>1, SumSplit
  <1> QED
    BY <1>2, <1>3

----------------------------------------------------------------------------
(* The sum of a whole function, one of whose values changes.               *)

LEMMA SumType ==
  ASSUME NEW S, IsFiniteSet(S), NEW f \in [S -> Int]
  PROVE  SumFunction(f) = SumFunctionOnSet(f, S) /\ SumFunction(f) \in Int
  BY SumRemove DEF SumFunction, IsIntOn

LEMMA SumChangesOne ==
  ASSUME NEW S, IsFiniteSet(S), NEW f \in [S -> Int], NEW g \in [S -> Int], NEW p \in S,
         \A y \in S \ {p} : g[y] = f[y]
  PROVE  SumFunction(g) = SumFunction(f) - f[p] + g[p]
  <1>1. SumFunctionOnSet(g, S) = SumFunctionOnSet(f, S) - f[p] + g[p]
    BY SumUpdate DEF IsIntOn
  <1> QED
    BY <1>1, SumType

LEMMA SumCredit ==
  ASSUME NEW S, IsFiniteSet(S), NEW f \in [S -> Int], NEW p \in S, NEW n \in Int
  PROVE  SumFunction([f EXCEPT ![p] = @ + n]) = SumFunction(f) + n
  <1> DEFINE g == [f EXCEPT ![p] = @ + n]
  <1>1. /\ g \in [S -> Int]
        /\ g[p] = f[p] + n /\ f[p] \in Int
        /\ \A q \in S \ {p} : g[q] = f[q]
    OBVIOUS
  <1> HIDE DEF g
  <1>2. SumFunction(g) = SumFunction(f) - f[p] + g[p] /\ SumFunction(f) \in Int
    BY <1>1, SumChangesOne, SumType
  <1>3. SumFunction(g) = SumFunction(f) + n
    BY <1>1, <1>2
  <1> QED
    BY <1>3 DEF g

LEMMA SumDebit ==
  ASSUME NEW S, IsFiniteSet(S), NEW f \in [S -> Int], NEW p \in S, NEW n \in Int
  PROVE  SumFunction([f EXCEPT ![p] = @ - n]) = SumFunction(f) - n
  <1> DEFINE g == [f EXCEPT ![p] = @ - n]
  <1>1. /\ g \in [S -> Int]
        /\ g[p] = f[p] - n /\ f[p] \in Int
        /\ \A q \in S \ {p} : g[q] = f[q]
    OBVIOUS
  <1> HIDE DEF g
  <1>2. SumFunction(g) = SumFunction(f) - f[p] + g[p] /\ SumFunction(f) \in Int
    BY <1>1, SumChangesOne, SumType
  <1>3. SumFunction(g) = SumFunction(f) - n
    BY <1>1, <1>2
  <1> QED
    BY <1>3 DEF g

LEMMA SumConstant ==
  ASSUME NEW S, IsFiniteSet(S), NEW c \in Int, NEW f \in [S -> Int], \A x \in S : f[x] = c
  PROVE  SumFunction(f) = c * Cardinality(S)
  <1>1. SumFunctionOnSet(f, S) = c * Cardinality(S)
    BY SumIndicator
  <1> QED
    BY <1>1, SumType

\* Everyone in A receives n.
LEMMA SumPayout ==
  ASSUME NEW S, IsFiniteSet(S), NEW f \in [S -> Int], NEW A \in SUBSET S, NEW n \in Int,
         NEW g \in [S -> Int], \A x \in S : g[x] = f[x] + (IF x \in A THEN n ELSE 0)
  PROVE  SumFunction(g) = SumFunction(f) + n * Cardinality(A)
  <1> DEFINE paid == [x \in S |-> IF x \in A THEN n ELSE 0]
  <1>1. /\ \A x \in S : paid[x] = IF x \in A THEN n ELSE 0
        /\ \A x \in S : paid[x] \in Int
        /\ \A x \in S : g[x] = f[x] + paid[x]
    OBVIOUS
  <1> HIDE DEF paid
  <1>2. SumFunctionOnSet(paid, S) = n * Cardinality(A)
    BY <1>1, SumIndicator
  <1>3. SumFunctionOnSet(g, S) = SumFunctionOnSet(f, S) + SumFunctionOnSet(paid, S)
    BY <1>1, SumOfBoth DEF IsIntOn
  <1> QED
    BY <1>2, <1>3, SumType

----------------------------------------------------------------------------
\* A set of n elements has 2 ^ n subsets, a number.
LEMMA PowersOfTwo == \A n \in Nat : 2 ^ n \in Nat
  <1> SUFFICES ASSUME NEW n \in Nat PROVE 2 ^ n \in Nat
    OBVIOUS
  <1>1. IsFiniteSet(1 .. n) /\ Cardinality(1 .. n) = n
    BY FS_Interval
  <1> DEFINE S == 1 .. n
  <1> HIDE DEF S
  <1>2. IsFiniteSet(S) /\ Cardinality(S) = n
    BY <1>1 DEF S
  <1>3. IsFiniteSet(SUBSET S) /\ Cardinality(SUBSET S) = 2 ^ n
    BY <1>2, FS_SUBSET
  <1>4. Cardinality(SUBSET S) \in Nat
    BY <1>3, FS_CardinalityType
  <1> QED
    BY <1>3, <1>4

----------------------------------------------------------------------------
\* A function with integer values on a finite set has a least and a greatest value.
LEMMA Extremes ==
  ASSUME NEW S, IsFiniteSet(S), S # {}, NEW f, \A x \in S : f[x] \in Int
  PROVE  /\ \E x \in S : \A y \in S : f[x] <= f[y]
         /\ \E x \in S : \A y \in S : f[x] >= f[y]
  <1> DEFINE Has(T) == /\ \E x \in T : \A y \in T : f[x] <= f[y]
                       /\ \E x \in T : \A y \in T : f[x] >= f[y]
             Bad == {T \in SUBSET S : T # {} /\ ~Has(T)}
  <1>1. SUFFICES ASSUME Bad # {} PROVE FALSE
    OBVIOUS
  <1>2. \E T \in Bad : \A U \in Bad : U \subseteq T => U = T
    <2>1. Bad \in SUBSET SUBSET S
      OBVIOUS
    <2> HIDE DEF Bad
    <2> QED
      BY <1>1, <2>1, SmallestSubset
  <1>3. PICK T \in Bad : \A U \in Bad : U \subseteq T => U = T
    BY <1>2
  <1>4. T \in SUBSET S /\ T # {} /\ ~Has(T)
    BY <1>3
  <1>5. PICK x \in T : TRUE
    BY <1>4
  <1>6. CASE T \ {x} = {}
    <2>1. \A y \in T : y = x
      BY <1>6
    <2>2. f[x] <= f[x] /\ f[x] >= f[x]
      BY <1>4, <1>5
    <2> QED
      BY <1>4, <2>1, <2>2
  <1>7. CASE T \ {x} # {}
    <2>1. Has(T \ {x})
      <3>1. T \ {x} \notin Bad
        BY <1>3, <1>5
      <3> QED
        BY <1>4, <1>7, <3>1
    <2>2. PICK low \in T \ {x} : \A y \in T \ {x} : f[low] <= f[y]
      BY <2>1
    <2>3. PICK high \in T \ {x} : \A y \in T \ {x} : f[high] >= f[y]
      BY <2>1
    <2>4. \A y \in T : f[y] \in Int
      BY <1>4
    <2>5. \A y \in T : y = x \/ y \in T \ {x}
      OBVIOUS
    <2>6. \E z \in T : \A y \in T : f[z] <= f[y]
      BY <2>2, <2>4, <2>5
    <2>7. \E z \in T : \A y \in T : f[z] >= f[y]
      BY <2>3, <2>4, <2>5
    <2> QED
      BY <1>4, <2>6, <2>7
  <1> QED
    BY <1>6, <1>7

----------------------------------------------------------------------------
(* Recursive functions.                                                    *)

\* A set of natural numbers has a least element.
LEMMA LeastNumber ==
  ASSUME NEW B \in SUBSET Nat, B # {}
  PROVE  \E n \in B : \A m \in B : n <= m
  <1> DEFINE R == OpToRel(<, Nat)
  <1>1. IsWellFoundedOn(R, Nat)
    BY NatLessThanWellFounded
  <1>2. \A m, n \in B : m < n => <<m, n>> \in R
    BY DEF OpToRel
  <1> HIDE DEF R
  <1>3. \E n \in B : \A m \in B : ~(<<m, n>> \in R)
    <2>1. B \subseteq Nat
      OBVIOUS
    <2> QED
      BY <1>1, <2>1, WFMin
  <1>4. \E n \in B : \A m \in B : ~(m < n)
    BY <1>2, <1>3
  <1> QED
    BY <1>4

\* Rank falls from every index outside base to the one before it.
Founded(I, base, rank, before) ==
  \A i \in I \ base : before[i] \in I /\ rank[before[i]] < rank[i]

\* What holds at the base, and at each index if it does before it, holds throughout.
LEMMA AlongTheRanks ==
  ASSUME NEW I, NEW base, NEW rank \in [I -> Nat], NEW before, Founded(I, base, rank, before),
         NEW Good, I \cap base \subseteq Good,
         \A i \in I \ base : before[i] \in Good => i \in Good
  PROVE  I \subseteq Good
  <1> DEFINE B == {rank[i] : i \in I \ Good}
  <1>1. SUFFICES ASSUME I \ Good # {} PROVE FALSE
    OBVIOUS
  <1>2. PICK n \in B : \A m \in B : n <= m
    <2>1. B \in SUBSET Nat /\ B # {}
      BY <1>1
    <2> HIDE DEF B
    <2> QED
      BY <2>1, LeastNumber
  <1>3. PICK i \in I \ Good : n = rank[i]
    BY <1>2
  <1>4. before[i] \in I /\ rank[before[i]] < rank[i] /\ before[i] \notin Good
    BY <1>3 DEF Founded
  <1>5. rank[before[i]] \in B
    BY <1>4
  <1>6. n <= rank[before[i]]
    BY <1>2, <1>5
  <1>7. rank[before[i]] \in Nat /\ rank[i] \in Nat
    BY <1>3, <1>4
  <1> QED
    BY <1>3, <1>4, <1>6, <1>7

\* The equation of a function that is start on base, and elsewhere one step on from
\* the index before.
Recurs(it, I, base, before, start, step) ==
  it = [i \in I |-> IF i \in base THEN start[i] ELSE step[i][it[before[i]]]]

\* The part of I up to a rank.
UpTo(I, rank, n) == {i \in I : rank[i] <= n}

\* It exists.
LEMMA RecursionExists ==
  ASSUME NEW I, NEW base, NEW rank \in [I -> Nat], NEW before, Founded(I, base, rank, before),
         NEW V, NEW start, \A i \in I \cap base : start[i] \in V,
         NEW step, \A i \in I \ base : step[i] \in [V -> V]
  PROVE  \E it \in [I -> V] : Recurs(it, I, base, before, start, step)
  <1> DEFINE Part(n) == UpTo(I, rank, n)
             Has(n, it) == it \in [Part(n) -> V] /\ Recurs(it, Part(n), base, before, start, step)
             Bad == {n \in Nat : ~ \E it : Has(n, it)}
  <1>1. \A n \in Nat : Part(n) \subseteq I
        /\ \A i \in Part(n) \ base : before[i] \in Part(n) /\ rank[before[i]] < rank[i]
    BY DEF UpTo, Founded
  <1>2. ASSUME NEW n \in Nat, NEW m \in Nat, NEW it, NEW jt, Has(n, it), Has(m, jt)
        PROVE  \A i \in Part(n) \cap Part(m) : it[i] = jt[i]
    <2> DEFINE J == Part(n) \cap Part(m)
               Good == {i \in J : it[i] = jt[i]}
               r == [i \in J |-> rank[i]]
    <2>1. r \in [J -> Nat]
      BY DEF UpTo
    <2>2. Founded(J, base, r, before)
      BY <1>1 DEF Founded
    <2>3. J \cap base \subseteq Good
      BY <1>2 DEF Recurs
    <2>4. \A i \in J \ base : before[i] \in Good => i \in Good
      BY <1>2 DEF Recurs
    <2> HIDE DEF J, Good, r
    <2>5. J \subseteq Good
      BY <2>1, <2>2, <2>3, <2>4, AlongTheRanks
    <2> QED
      BY <2>5 DEF J, Good
  <1>3. Bad = {}
    <2>1. SUFFICES ASSUME Bad # {} PROVE FALSE
      OBVIOUS
    <2>2. PICK n \in Bad : \A m \in Bad : n <= m
      <3>1. Bad \in SUBSET Nat
        OBVIOUS
      <3> HIDE DEF Bad
      <3> QED
        BY <2>1, <3>1, LeastNumber
    <2>3. n \in Nat /\ ~ \E it : Has(n, it)
      BY <2>2
    <2> DEFINE Lower == UNION {Part(m) : m \in 0 .. n - 1}
    <2>4. \A m \in 0 .. n - 1 : \E it : Has(m, it)
      BY <2>2
    <2> DEFINE old(m) == CHOOSE it : Has(m, it)
               value(i) == IF i \in base THEN start[i] ELSE step[i][old(rank[before[i]])[before[i]]]
               new == [i \in Part(n) |-> value(i)]
    <2>5. \A m \in 0 .. n - 1 : Has(m, old(m))
      BY <2>4
    <2>6. ASSUME NEW i \in Part(n) \ base
          PROVE  /\ before[i] \in Part(rank[before[i]])
                 /\ rank[before[i]] \in 0 .. n - 1
                 /\ before[i] \in Part(n)
      BY <1>1, <2>3, <2>6 DEF UpTo
    <2> HIDE DEF old, Has
    <2>7. ASSUME NEW i \in Part(n)
          PROVE  value(i) \in V
      <3>1. CASE i \in base
        BY <1>1, <2>3, <3>1
      <3>2. CASE i \notin base
        <4>1. Has(rank[before[i]], old(rank[before[i]]))
          BY <2>5, <2>6, <3>2
        <4>2. old(rank[before[i]])[before[i]] \in V
          BY <2>6, <3>2, <4>1 DEF Has
        <4>3. step[i] \in [V -> V]
          BY <1>1, <2>3, <3>2
        <4> QED
          BY <3>2, <4>2, <4>3
      <3> QED
        BY <3>1, <3>2
    <2>8. new \in [Part(n) -> V]
      BY <2>7
    <2>9. ASSUME NEW i \in Part(n) \ base
          PROVE  old(rank[before[i]])[before[i]] = new[before[i]]
      <3> DEFINE j == before[i]
                 m == rank[j]
      <3>1. j \in Part(m) /\ m \in 0 .. n - 1 /\ j \in Part(n) /\ m \in Nat
        BY <2>6, <2>9
      <3>2. Has(m, old(m))
        BY <2>5, <3>1
      <3> HIDE DEF j
      <3>3. old(m)[j] = IF j \in base THEN start[j] ELSE step[j][old(m)[before[j]]]
        BY <3>1, <3>2 DEF Has, Recurs
      <3>4. new[j] = IF j \in base THEN start[j] ELSE step[j][old(rank[before[j]])[before[j]]]
        BY <3>1
      <3>5. CASE j \in base
        BY <3>3, <3>4, <3>5 DEF j
      <3>6. CASE j \notin base
        <4> DEFINE k == rank[before[j]]
        <4>1. /\ before[j] \in Part(k) /\ k \in 0 .. n - 1
              /\ before[j] \in Part(m)
          BY <2>6, <3>1, <3>6, <1>1
        <4>2. Has(k, old(k))
          BY <2>5, <4>1
        <4>3. old(m)[before[j]] = old(k)[before[j]]
          BY <1>2, <3>1, <3>2, <4>1, <4>2
        <4> QED
          BY <3>3, <3>4, <3>6, <4>3 DEF j
      <3> QED
        BY <3>5, <3>6
    <2>10. Recurs(new, Part(n), base, before, start, step)
      BY <2>9 DEF Recurs
    <2>11. Has(n, new)
      BY <2>8, <2>10 DEF Has
    <2> QED
      BY <2>3, <2>11
  <1> DEFINE it(n) == CHOOSE it : Has(n, it)
             all == [i \in I |-> it(rank[i])[i]]
  <1>4. \A n \in Nat : Has(n, it(n))
    BY <1>3
  <1>5. \A i \in I : rank[i] \in Nat /\ i \in Part(rank[i])
    BY DEF UpTo
  <1> HIDE DEF it, Has
  <1>6. all \in [I -> V]
    <2>1. ASSUME NEW i \in I PROVE it(rank[i])[i] \in V
      <3>1. Has(rank[i], it(rank[i]))
        BY <1>4, <1>5
      <3> QED
        BY <1>5, <3>1 DEF Has
    <2> QED
      BY <2>1
  <1>7. ASSUME NEW i \in I
        PROVE  all[i] = IF i \in base THEN start[i] ELSE step[i][all[before[i]]]
    <2>1. Has(rank[i], it(rank[i])) /\ i \in Part(rank[i]) /\ rank[i] \in Nat
      BY <1>4, <1>5
    <2>2. it(rank[i])[i] = IF i \in base THEN start[i] ELSE step[i][it(rank[i])[before[i]]]
      BY <2>1 DEF Has, Recurs
    <2>3. CASE i \notin base
      <3>1. before[i] \in Part(rank[i]) /\ before[i] \in I
        BY <1>1, <2>1, <2>3
      <3> DEFINE k == rank[before[i]]
      <3>2. Has(k, it(k)) /\ before[i] \in Part(k) /\ k \in Nat
        BY <1>4, <1>5, <3>1
      <3>3. it(rank[i])[before[i]] = it(k)[before[i]]
        BY <1>2, <2>1, <3>1, <3>2
      <3>4. all[before[i]] = it(k)[before[i]]
        BY <3>1
      <3> QED
        BY <2>2, <2>3, <3>3, <3>4
    <2> QED
      BY <2>2, <2>3
  <1>8. Recurs(all, I, base, before, start, step)
    BY <1>7 DEF Recurs
  <1> QED
    BY <1>6, <1>8

\* Induction on numbers and on the subsets of a finite set, over the set of those for
\* which the claim is true.
LEMMA InductionOnNat ==
  ASSUME NEW Good, 0 \in Good, \A n \in Nat : n \in Good => n + 1 \in Good
  PROVE  Nat \subseteq Good
  <1> DEFINE Bad == Nat \ Good
  <1>1. SUFFICES ASSUME Bad # {} PROVE FALSE
    OBVIOUS
  <1>2. PICK n \in Bad : \A m \in Bad : n <= m
    <2>1. Bad \in SUBSET Nat
      OBVIOUS
    <2> HIDE DEF Bad
    <2> QED
      BY <1>1, <2>1, LeastNumber
  <1>3. n \in Nat /\ n \notin Good /\ n # 0
    BY <1>2
  <1>4. n - 1 \in Nat /\ n - 1 \in Good
    BY <1>2, <1>3
  <1> QED
    BY <1>3, <1>4

LEMMA InductionOnSubsets ==
  ASSUME NEW S, IsFiniteSet(S), NEW Good, {} \in Good,
         \A T \in SUBSET S : \A x \in T : T \ {x} \in Good => T \in Good
  PROVE  S \in Good
  <1> DEFINE Bad == {T \in SUBSET S : T \notin Good}
  <1>1. SUFFICES ASSUME Bad # {} PROVE FALSE
    OBVIOUS
  <1>2. \E T \in Bad : \A U \in Bad : U \subseteq T => U = T
    <2>1. Bad \in SUBSET SUBSET S
      OBVIOUS
    <2> HIDE DEF Bad
    <2> QED
      BY <1>1, <2>1, SmallestSubset
  <1>3. PICK T \in Bad : \A U \in Bad : U \subseteq T => U = T
    BY <1>2
  <1>4. PICK x \in T : TRUE
    BY <1>3
  <1>5. T \ {x} \in Good
    BY <1>3, <1>4
  <1> QED
    BY <1>3, <1>4, <1>5

----------------------------------------------------------------------------
(* Folds with the table of a commutative and associative operation.        *)

Monoid(F, op, e) ==
  /\ e \in F
  /\ \A x, y \in F : op[x][y] \in F /\ op[x][y] = op[y][x]
  /\ \A x, y, z \in F : op[op[x][y]][z] = op[x][op[y][z]]
  /\ \A x \in F : op[e][x] = x

\* it maps each subset of S to the fold of its values, an element chosen at a time.
IsFold(op, e, f, S, it) ==
  it = [T \in SUBSET S |-> IF T = {} THEN e ELSE op[f[Chosen(T)]][it[T \ {Chosen(T)}]]]

TheFolds(op, e, f, S) == CHOOSE it : IsFold(op, e, f, S, it)

Fold(op, e, f, S) == TheFolds(op, e, f, S)[S]

ValuesIn(F, f, S) == \A x \in S : f[x] \in F

LEMMA ChosenIn == \A T : T # {} => Chosen(T) \in T
  BY DEF Chosen

ChoiceRank(S) == [T \in SUBSET S |-> Cardinality(T)]
ChoiceBefore(S) == [T \in SUBSET S |-> T \ {Chosen(T)}]

\* Choosing elements one by one empties a finite set.
LEMMA ChoosingEnds ==
  ASSUME NEW S, IsFiniteSet(S)
  PROVE  /\ ChoiceRank(S) \in [SUBSET S -> Nat]
         /\ Founded(SUBSET S, {{}}, ChoiceRank(S), ChoiceBefore(S))
  <1>1. \A T \in SUBSET S : IsFiniteSet(T) /\ Cardinality(T) \in Nat
    BY FS_Subset, FS_CardinalityType
  <1>2. ChoiceRank(S) \in [SUBSET S -> Nat]
    BY <1>1 DEF ChoiceRank
  <1>3. ASSUME NEW T \in SUBSET S, T # {}
        PROVE  /\ ChoiceBefore(S)[T] \in SUBSET S
               /\ ChoiceRank(S)[ChoiceBefore(S)[T]] < ChoiceRank(S)[T]
    <2>1. Chosen(T) \in T
      BY <1>3, ChosenIn
    <2>2. Cardinality(T \ {Chosen(T)}) = Cardinality(T) - 1
      BY <1>1, <2>1, FS_RemoveElement
    <2>3. T \ {Chosen(T)} \in SUBSET S
      OBVIOUS
    <2> QED
      BY <1>1, <2>2, <2>3 DEF ChoiceRank, ChoiceBefore
  <1>4. Founded(SUBSET S, {{}}, ChoiceRank(S), ChoiceBefore(S))
    BY <1>3 DEF Founded
  <1> QED
    BY <1>2, <1>4

LEMMA FoldsExist ==
  ASSUME NEW F, NEW op, NEW e, Monoid(F, op, e),
         NEW S, IsFiniteSet(S), NEW f, ValuesIn(F, f, S)
  PROVE  /\ IsFold(op, e, f, S, TheFolds(op, e, f, S))
         /\ \E it \in [SUBSET S -> F] : IsFold(op, e, f, S, it)
  <1> DEFINE rank   == ChoiceRank(S)
             before == ChoiceBefore(S)
             start  == [T \in {{}} |-> e]
             step   == [T \in SUBSET S |-> [v \in F |-> op[f[Chosen(T)]][v]]]
  <1>1. /\ rank \in [SUBSET S -> Nat]
        /\ Founded(SUBSET S, {{}}, rank, before)
    BY ChoosingEnds
  <1>2. \A T \in (SUBSET S) \cap {{}} : start[T] \in F
    BY DEF Monoid
  <1>3. ASSUME NEW T \in (SUBSET S) \ {{}}
        PROVE  step[T] \in [F -> F]
    <2>1. Chosen(T) \in S
      BY ChosenIn
    <2>2. f[Chosen(T)] \in F
      BY <2>1 DEF ValuesIn
    <2>3. \A v \in F : op[f[Chosen(T)]][v] \in F
      BY <2>2 DEF Monoid
    <2> QED
      BY <2>3
  <1>4. \E it \in [SUBSET S -> F] : Recurs(it, SUBSET S, {{}}, before, start, step)
    <2>1. \A T \in (SUBSET S) \ {{}} : step[T] \in [F -> F]
      BY <1>3
    <2> HIDE DEF rank, before, start, step
    <2> QED
      BY <1>1, <1>2, <2>1, RecursionExists
  <1>5. PICK it \in [SUBSET S -> F] : Recurs(it, SUBSET S, {{}}, before, start, step)
    BY <1>4
  <1>6. IsFold(op, e, f, S, it)
    <2>1. \A T \in SUBSET S : T # {} => it[T \ {Chosen(T)}] \in F
      OBVIOUS
    <2>2. \A T \in SUBSET S :
            it[T] = IF T = {} THEN e ELSE op[f[Chosen(T)]][it[T \ {Chosen(T)}]]
      BY <1>5, <2>1 DEF Recurs, ChoiceBefore
    <2> QED
      BY <2>2 DEF IsFold
  <1> QED
    BY <1>6 DEF TheFolds

\* Two solutions, of sets that overlap, agree where they do.
LEMMA FoldsAgree ==
  ASSUME NEW op, NEW e, NEW f, NEW S, NEW T, IsFiniteSet(S), IsFiniteSet(T),
         NEW it, NEW jt, IsFold(op, e, f, S, it), IsFold(op, e, f, T, jt),
         NEW R \in SUBSET (S \cap T)
  PROVE  it[R] = jt[R]
  <1> DEFINE B      == S \cap T
             J      == SUBSET B
             Good   == {U \in J : it[U] = jt[U]}
  <1>1. /\ ChoiceRank(B) \in [J -> Nat]
        /\ Founded(J, {{}}, ChoiceRank(B), ChoiceBefore(B))
    <2>1. IsFiniteSet(B)
      BY FS_Intersection
    <2> QED
      BY <2>1, ChoosingEnds
  <1>2. J \cap {{}} \subseteq Good
    BY DEF IsFold
  <1>3. ASSUME NEW U \in J \ {{}}, ChoiceBefore(B)[U] \in Good
        PROVE  U \in Good
    <2>1. it[U \ {Chosen(U)}] = jt[U \ {Chosen(U)}]
      BY <1>3 DEF ChoiceBefore
    <2>2. it[U] = op[f[Chosen(U)]][it[U \ {Chosen(U)}]]
      BY <1>3 DEF IsFold
    <2>3. jt[U] = op[f[Chosen(U)]][jt[U \ {Chosen(U)}]]
      BY <1>3 DEF IsFold
    <2> QED
      BY <2>1, <2>2, <2>3
  <1>4. \A U \in J \ {{}} : ChoiceBefore(B)[U] \in Good => U \in Good
    BY <1>3
  <1> DEFINE rank   == ChoiceRank(B)
             before == ChoiceBefore(B)
  <1>5. J \subseteq Good
    <2>1. \A U \in J \ {{}} : before[U] \in Good => U \in Good
      BY <1>4
    <2>2. rank \in [J -> Nat] /\ Founded(J, {{}}, rank, before)
      BY <1>1
    <2> HIDE DEF J, Good, rank, before
    <2> QED
      BY <1>2, <2>1, <2>2, AlongTheRanks
  <1> QED
    BY <1>5

\* The element x may come first.
Takes(op, e, f, S, x) == Fold(op, e, f, S) = op[f[x]][Fold(op, e, f, S \ {x})]

LEMMA FoldEmpty ==
  ASSUME NEW F, NEW op, NEW e, Monoid(F, op, e), NEW f
  PROVE  Fold(op, e, f, {}) = e
  <1>1. IsFiniteSet({}) /\ ValuesIn(F, f, {})
    BY FS_EmptySet DEF ValuesIn
  <1>2. IsFold(op, e, f, {}, TheFolds(op, e, f, {}))
    BY <1>1, FoldsExist
  <1> QED
    BY <1>2 DEF IsFold, Fold

LEMMA FoldChosen ==
  ASSUME NEW F, NEW op, NEW e, Monoid(F, op, e),
         NEW S, IsFiniteSet(S), S # {}, NEW f, ValuesIn(F, f, S)
  PROVE  /\ Chosen(S) \in S
         /\ Takes(op, e, f, S, Chosen(S))
         /\ Fold(op, e, f, S) \in F
  <1> DEFINE V == S \ {Chosen(S)}
  <1>1. Chosen(S) \in S
    BY ChosenIn
  <1>2. IsFiniteSet(V) /\ ValuesIn(F, f, V)
    BY FS_RemoveElement DEF ValuesIn
  <1>3. /\ IsFold(op, e, f, S, TheFolds(op, e, f, S))
        /\ IsFold(op, e, f, V, TheFolds(op, e, f, V))
    BY <1>2, FoldsExist
  <1>4. TheFolds(op, e, f, S)[V] = TheFolds(op, e, f, V)[V]
    <2>1. V \in SUBSET (S \cap V)
      OBVIOUS
    <2> QED
      BY <1>2, <1>3, <2>1, FoldsAgree
  <1>5. TheFolds(op, e, f, S)[S] = op[f[Chosen(S)]][TheFolds(op, e, f, S)[V]]
    BY <1>3 DEF IsFold
  <1>6. TheFolds(op, e, f, S)[S] \in F
    <2>1. PICK it \in [SUBSET S -> F] : IsFold(op, e, f, S, it)
      BY FoldsExist
    <2>2. S \in SUBSET (S \cap S)
      OBVIOUS
    <2>3. TheFolds(op, e, f, S)[S] = it[S]
      BY <1>3, <2>1, <2>2, FoldsAgree
    <2> QED
      BY <2>1, <2>3
  <1> QED
    BY <1>1, <1>4, <1>5, <1>6 DEF Fold, Takes

LEMMA FoldType ==
  ASSUME NEW F, NEW op, NEW e, Monoid(F, op, e),
         NEW S, IsFiniteSet(S), NEW f, ValuesIn(F, f, S)
  PROVE  Fold(op, e, f, S) \in F
  <1>1. CASE S = {}
    <2>1. Fold(op, e, f, {}) = e
      BY FoldEmpty
    <2>2. e \in F
      BY DEF Monoid
    <2> QED
      BY <1>1, <2>1, <2>2
  <1>2. CASE S # {}
    BY <1>2, FoldChosen
  <1> QED
    BY <1>1, <1>2

LEMMA MonoidSwap ==
  ASSUME NEW F, NEW op, NEW e, Monoid(F, op, e), NEW x \in F, NEW y \in F, NEW z \in F
  PROVE  op[x][op[y][z]] = op[y][op[x][z]]
  <1>1. op[op[x][y]][z] = op[x][op[y][z]] /\ op[op[y][x]][z] = op[y][op[x][z]]
    BY DEF Monoid
  <1>2. op[x][y] = op[y][x]
    BY DEF Monoid
  <1> QED
    BY <1>1, <1>2

LEMMA MonoidType ==
  ASSUME NEW F, NEW op, NEW e, Monoid(F, op, e), NEW x \in F, NEW y \in F
  PROVE  op[x][y] \in F
  BY DEF Monoid

LEMMA MonoidAssociates ==
  ASSUME NEW F, NEW op, NEW e, Monoid(F, op, e), NEW x \in F, NEW y \in F, NEW z \in F
  PROVE  op[op[x][y]][z] = op[x][op[y][z]]
  BY DEF Monoid

LEMMA MonoidNeutral ==
  ASSUME NEW F, NEW op, NEW e, Monoid(F, op, e), NEW x \in F
  PROVE  op[e][x] = x /\ op[x][e] = x
  BY DEF Monoid

LEMMA MonoidMix ==
  ASSUME NEW F, NEW op, NEW e, Monoid(F, op, e),
         NEW a \in F, NEW b \in F, NEW c \in F, NEW d \in F
  PROVE  op[op[a][b]][op[c][d]] = op[op[a][c]][op[b][d]]
  <1> DEFINE k == op[c][d]
             m == op[b][d]
  <1>1. k \in F /\ m \in F
    BY MonoidType
  <1>2. k = op[c][d] /\ m = op[b][d]
    OBVIOUS
  <1> HIDE DEF k, m
  <1>3. op[op[a][b]][k] = op[a][op[b][k]]
    BY <1>1, MonoidAssociates
  <1>4. op[op[a][c]][m] = op[a][op[c][m]]
    BY <1>1, MonoidAssociates
  <1>5. op[b][op[c][d]] = op[c][op[b][d]]
    BY MonoidSwap
  <1> QED
    BY <1>2, <1>3, <1>4, <1>5

\* Any element may come first.
LEMMA FoldRemove ==
  ASSUME NEW F, NEW op, NEW e, Monoid(F, op, e),
         NEW S, IsFiniteSet(S), NEW f, ValuesIn(F, f, S), NEW x \in S
  PROVE  Takes(op, e, f, S, x)
  <1> DEFINE Result(T) == Fold(op, e, f, T)
             Good(T) == \A y \in T : Takes(op, e, f, T, y)
             Bad == {T \in SUBSET S : ~Good(T)}
  <1>1. SUFFICES ASSUME Bad # {} PROVE FALSE
    OBVIOUS
  <1>2. \E T \in Bad : \A U \in Bad : U \subseteq T => U = T
    <2>1. Bad \in SUBSET SUBSET S
      OBVIOUS
    <2> HIDE DEF Bad
    <2> QED
      BY <1>1, <2>1, SmallestSubset
  <1>3. PICK T \in Bad : \A U \in Bad : U \subseteq T => U = T
    BY <1>2
  <1>4. \A U \in SUBSET T : IsFiniteSet(U) /\ ValuesIn(F, f, U) /\ (U # T => Good(U))
    BY <1>3, FS_Subset DEF ValuesIn
  <1>5. PICK y \in T : Result(T) # op[f[y]][Result(T \ {y})]
    BY <1>3 DEF Takes
  <1> DEFINE c == Chosen(T)
             U == (T \ {c}) \ {y}
  <1>6. c \in T /\ Result(T) = op[f[c]][Result(T \ {c})]
    <2>1. IsFiniteSet(T) /\ ValuesIn(F, f, T)
      <3>1. T \in SUBSET T
        OBVIOUS
      <3> QED
        BY <1>4, <3>1
    <2>2. T # {}
      BY <1>5
    <2> HIDE DEF Bad
    <2>3. Chosen(T) \in T /\ Takes(op, e, f, T, Chosen(T))
      BY <2>1, <2>2, FoldChosen
    <2> QED
      BY <2>3 DEF Takes
  <1> HIDE DEF c
  <1>7. y # c
    BY <1>5, <1>6
  <1>8. /\ U = (T \ {y}) \ {c}
        /\ T \ {y} \in SUBSET T /\ T \ {y} # T
        /\ T \ {c} \in SUBSET T /\ T \ {c} # T
        /\ U \in SUBSET T
    BY <1>6
  <1>9. Result(T \ {c}) = op[f[y]][Result(U)]
    BY <1>4, <1>7, <1>8 DEF Takes
  <1>10. Result(T \ {y}) = op[f[c]][Result((T \ {y}) \ {c})]
    BY <1>4, <1>6, <1>7, <1>8 DEF Takes
  <1>11. f[c] \in F /\ f[y] \in F /\ Result(U) \in F
    <2>1. IsFiniteSet(U) /\ ValuesIn(F, f, U) /\ ValuesIn(F, f, T)
      BY <1>4, <1>8
    <2>2. Result(U) \in F
      BY <2>1, FoldType
    <2> QED
      BY <1>6, <2>1, <2>2 DEF ValuesIn
  <1> HIDE DEF U, Result
  <1>12. op[f[c]][op[f[y]][Result(U)]] = op[f[y]][op[f[c]][Result(U)]]
    BY <1>11, MonoidSwap
  <1> QED
    BY <1>5, <1>6, <1>8, <1>9, <1>10, <1>12

\* The fold reads the values of f on S only.
LEMMA FoldCongruence ==
  ASSUME NEW F, NEW op, NEW e, Monoid(F, op, e),
         NEW S, IsFiniteSet(S), NEW f, NEW g, ValuesIn(F, f, S), \A x \in S : f[x] = g[x]
  PROVE  Fold(op, e, f, S) = Fold(op, e, g, S)
  <1>1. ValuesIn(F, g, S)
    BY DEF ValuesIn
  <1>2. /\ IsFold(op, e, f, S, TheFolds(op, e, f, S))
        /\ IsFold(op, e, g, S, TheFolds(op, e, g, S))
    BY <1>1, FoldsExist
  <1>3. \A T \in SUBSET S : T # {} => f[Chosen(T)] = g[Chosen(T)]
    BY ChosenIn
  <1>4. IsFold(op, e, f, S, TheFolds(op, e, g, S))
    BY <1>2, <1>3 DEF IsFold
  <1>5. S \in SUBSET (S \cap S)
    OBVIOUS
  <1>6. TheFolds(op, e, f, S)[S] = TheFolds(op, e, g, S)[S]
    BY <1>2, <1>4, <1>5, FoldsAgree
  <1> QED
    BY <1>6 DEF Fold

\* Element by element, from the empty set up.
Stepwise(F, op, e, f, S) ==
  /\ Fold(op, e, f, {}) = e
  /\ \A T \in SUBSET S : Fold(op, e, f, T) \in F
  /\ \A T \in SUBSET S : \A x \in T :
       Fold(op, e, f, T) = op[f[x]][Fold(op, e, f, T \ {x})]

LEMMA FoldSteps ==
  ASSUME NEW F, NEW op, NEW e, Monoid(F, op, e),
         NEW S, IsFiniteSet(S), NEW f, ValuesIn(F, f, S)
  PROVE  Stepwise(F, op, e, f, S)
  <1>1. \A T \in SUBSET S : IsFiniteSet(T) /\ ValuesIn(F, f, T)
    BY FS_Subset DEF ValuesIn
  <1>2. \A T \in SUBSET S : Fold(op, e, f, T) \in F
    BY <1>1, FoldType
  <1>3. \A T \in SUBSET S : \A x \in T : Takes(op, e, f, T, x)
    BY <1>1, FoldRemove
  <1> QED
    BY <1>2, <1>3, FoldEmpty DEF Takes, Stepwise

\* A homomorphism goes through a fold.
LEMMA FoldMapped ==
  ASSUME NEW F, NEW op, NEW e, Monoid(F, op, e),
         NEW G, NEW oq, NEW d, Monoid(G, oq, d),
         NEW phi \in [F -> G], phi[e] = d,
         \A x, y \in F : phi[op[x][y]] = oq[phi[x]][phi[y]],
         NEW S, IsFiniteSet(S), NEW f, ValuesIn(F, f, S),
         NEW g, \A x \in S : g[x] = phi[f[x]]
  PROVE  Fold(oq, d, g, S) = phi[Fold(op, e, f, S)]
  <1> DEFINE Good == {T \in SUBSET S : Fold(oq, d, g, T) = phi[Fold(op, e, f, T)]}
  <1>1. ValuesIn(G, g, S)
    BY DEF ValuesIn
  <1>2. Stepwise(F, op, e, f, S)
    BY FoldSteps
  <1>3. Stepwise(G, oq, d, g, S)
    BY <1>1, FoldSteps
  <1>4. {} \in Good
    BY <1>2, <1>3 DEF Stepwise
  <1>5. ASSUME NEW T \in SUBSET S, NEW x \in T, T \ {x} \in Good
        PROVE  T \in Good
    <2>1. f[x] \in F /\ Fold(op, e, f, T \ {x}) \in F /\ g[x] = phi[f[x]]
      BY <1>2 DEF ValuesIn, Stepwise
    <2>2. Fold(oq, d, g, T) = oq[g[x]][Fold(oq, d, g, T \ {x})]
      BY <1>3 DEF Stepwise
    <2>3. Fold(op, e, f, T) = op[f[x]][Fold(op, e, f, T \ {x})]
      BY <1>2 DEF Stepwise
    <2> QED
      BY <1>5, <2>1, <2>2, <2>3
  <1>6. \A T \in SUBSET S : \A x \in T : T \ {x} \in Good => T \in Good
    BY <1>5
  <1> HIDE DEF Good
  <1>7. S \in Good
    BY <1>4, <1>6, InductionOnSubsets
  <1> QED
    BY <1>7 DEF Good

\* Two folds in one.
LEMMA FoldOfBoth ==
  ASSUME NEW F, NEW op, NEW e, Monoid(F, op, e), NEW S, IsFiniteSet(S),
         NEW f, ValuesIn(F, f, S), NEW g, ValuesIn(F, g, S),
         NEW h, \A x \in S : h[x] = op[f[x]][g[x]]
  PROVE  Fold(op, e, h, S) = op[Fold(op, e, f, S)][Fold(op, e, g, S)]
  <1> DEFINE Good == {T \in SUBSET S :
                        Fold(op, e, h, T) = op[Fold(op, e, f, T)][Fold(op, e, g, T)]}
  <1>1. ValuesIn(F, h, S)
    BY SMTT(30) DEF ValuesIn, Monoid
  <1>2. Stepwise(F, op, e, f, S)
    BY FoldSteps
  <1>3. Stepwise(F, op, e, g, S)
    BY FoldSteps
  <1>4. Stepwise(F, op, e, h, S)
    BY <1>1, FoldSteps
  <1>5. {} \in Good
    <2>1. op[e][e] = e
      BY DEF Monoid
    <2> QED
      BY <1>2, <1>3, <1>4, <2>1 DEF Stepwise
  <1>6. ASSUME NEW T \in SUBSET S, NEW x \in T, T \ {x} \in Good
        PROVE  T \in Good
    <2> DEFINE a == f[x]
               b == g[x]
               c == Fold(op, e, f, T \ {x})
               d == Fold(op, e, g, T \ {x})
    <2>1. a \in F /\ b \in F /\ c \in F /\ d \in F
      BY <1>2, <1>3 DEF ValuesIn, Stepwise
    <2>2. /\ Fold(op, e, h, T) = op[op[a][b]][op[c][d]]
          /\ Fold(op, e, f, T) = op[a][c]
          /\ Fold(op, e, g, T) = op[b][d]
      BY <1>2, <1>3, <1>4, <1>6 DEF Stepwise
    <2> HIDE DEF a, b, c, d
    <2>3. op[op[a][b]][op[c][d]] = op[op[a][c]][op[b][d]]
      BY <2>1, MonoidMix
    <2> QED
      BY <2>2, <2>3
  <1>7. \A T \in SUBSET S : \A x \in T : T \ {x} \in Good => T \in Good
    BY <1>6
  <1> HIDE DEF Good
  <1>8. S \in Good
    BY <1>5, <1>7, InductionOnSubsets
  <1> QED
    BY <1>8 DEF Good

\* Along a bijection.
LEMMA FoldReindexed ==
  ASSUME NEW F, NEW op, NEW e, Monoid(F, op, e),
         NEW S, IsFiniteSet(S), NEW f, ValuesIn(F, f, S),
         NEW R, IsFiniteSet(R), NEW pi \in Bijection(R, S),
         NEW g, \A x \in R : g[x] = f[pi[x]]
  PROVE  Fold(op, e, g, R) = Fold(op, e, f, S)
  <1> DEFINE Image(T) == {pi[x] : x \in T}
             Good == {T \in SUBSET R : Fold(op, e, g, T) = Fold(op, e, f, Image(T))}
  <1>1. /\ pi \in [R -> S]
        /\ \A x, y \in R : pi[x] = pi[y] => x = y
        /\ \A y \in S : \E x \in R : pi[x] = y
    BY DEF Bijection, Injection, Surjection, IsInjective
  <1>2. ValuesIn(F, g, R)
    BY <1>1 DEF ValuesIn
  <1>3. Stepwise(F, op, e, f, S)
    BY FoldSteps
  <1>4. Stepwise(F, op, e, g, R)
    BY <1>2, FoldSteps
  <1>5. {} \in Good
    <2>1. Image({}) = {}
      OBVIOUS
    <2> QED
      BY <1>3, <1>4, <2>1 DEF Stepwise
  <1>6. ASSUME NEW T \in SUBSET R, NEW x \in T, T \ {x} \in Good
        PROVE  T \in Good
    <2>1. Image(T \ {x}) = Image(T) \ {pi[x]} /\ Image(T) \in SUBSET S /\ pi[x] \in Image(T)
      BY <1>1
    <2>2. Fold(op, e, g, T) = op[g[x]][Fold(op, e, g, T \ {x})]
      BY <1>4 DEF Stepwise
    <2> HIDE DEF Image
    <2>3. Fold(op, e, f, Image(T)) = op[f[pi[x]]][Fold(op, e, f, Image(T) \ {pi[x]})]
      BY <1>3, <2>1 DEF Stepwise
    <2> QED
      BY <1>6, <2>1, <2>2, <2>3
  <1>7. \A T \in SUBSET R : \A x \in T : T \ {x} \in Good => T \in Good
    BY <1>6
  <1> HIDE DEF Good
  <1>8. R \in Good
    BY <1>5, <1>7, InductionOnSubsets
  <1>9. Image(R) = S
    BY <1>1
  <1> QED
    BY <1>8, <1>9 DEF Good

----------------------------------------------------------------------------
(* Fields, given by the tables of their operations.  0 and 1 are the       *)
(* numbers.                                                                *)

IsField(F, add, mul, sub) ==
  /\ Monoid(F, add, 0)
  /\ Monoid(F, mul, 1)
  /\ \A x, y, z \in F : mul[x][add[y][z]] = add[mul[x][y]][mul[x][z]]
  /\ \A x, y \in F : sub[x][y] \in F /\ add[sub[x][y]][y] = x
  /\ \A x \in F \ {0} : \E y \in F : mul[x][y] = 1

LEMMA AddCancel ==
  ASSUME NEW F, NEW add, NEW mul, NEW sub, IsField(F, add, mul, sub),
         NEW x \in F, NEW y \in F, NEW z \in F, add[x][z] = add[y][z]
  PROVE  x = y
  <1>1. \E n \in F : add[z][n] = 0
    <2>1. sub[0][z] \in F /\ add[sub[0][z]][z] = 0
      BY DEF IsField, Monoid
    <2>2. add[z][sub[0][z]] = add[sub[0][z]][z]
      BY <2>1, ZenonT(30) DEF IsField, Monoid
    <2> QED
      BY <2>1, <2>2
  <1>5. PICK n \in F : add[z][n] = 0
    BY <1>1
  <1>2. Monoid(F, add, 0)
    BY DEF IsField
  <1>3. add[add[x][z]][n] = add[x][add[z][n]] /\ add[add[y][z]][n] = add[y][add[z][n]]
    BY <1>2, MonoidAssociates
  <1>4. add[x][0] = x /\ add[y][0] = y
    BY <1>2, MonoidNeutral
  <1> QED
    BY <1>5, <1>3, <1>4

LEMMA MulZero ==
  ASSUME NEW F, NEW add, NEW mul, NEW sub, IsField(F, add, mul, sub), NEW x \in F
  PROVE  mul[x][0] = 0 /\ mul[0][x] = 0
  <1>1. 0 \in F /\ mul[x][0] \in F /\ mul[0][x] = mul[x][0] /\ add[0][0] = 0
    BY DEF IsField, Monoid
  <1>2. add[mul[x][0]][mul[x][0]] = mul[x][add[0][0]]
    BY <1>1 DEF IsField
  <1>3. add[0][mul[x][0]] = mul[x][0]
    BY <1>1 DEF IsField, Monoid
  <1>4. add[mul[x][0]][mul[x][0]] = add[0][mul[x][0]]
    BY <1>1, <1>2, <1>3
  <1>5. mul[x][0] = 0
    BY <1>1, <1>4, AddCancel
  <1> QED
    BY <1>1, <1>5

LEMMA MulCancel ==
  ASSUME NEW F, NEW add, NEW mul, NEW sub, IsField(F, add, mul, sub),
         NEW x \in F, NEW y \in F, NEW z \in F \ {0}, mul[x][z] = mul[y][z]
  PROVE  x = y
  <1>1. PICK n \in F : mul[z][n] = 1
    BY DEF IsField
  <1>2. Monoid(F, mul, 1)
    BY DEF IsField
  <1>3. mul[mul[x][z]][n] = mul[x][mul[z][n]] /\ mul[mul[y][z]][n] = mul[y][mul[z][n]]
    BY <1>2, MonoidAssociates
  <1>4. mul[x][1] = x /\ mul[y][1] = y
    BY <1>2, MonoidNeutral
  <1> QED
    BY <1>1, <1>3, <1>4

LEMMA NoZeroDivisors ==
  ASSUME NEW F, NEW add, NEW mul, NEW sub, IsField(F, add, mul, sub),
         NEW x \in F \ {0}, NEW y \in F \ {0}
  PROVE  mul[x][y] \in F \ {0}
  <1>1. mul[x][y] \in F /\ 0 \in F
    BY DEF IsField, Monoid
  <1>2. mul[0][y] = 0
    BY MulZero
  <1>3. mul[x][y] # 0
    <2>1. SUFFICES ASSUME mul[x][y] = mul[0][y] PROVE FALSE
      BY <1>2
    <2>2. x = 0
      BY <1>1, <2>1, MulCancel
    <2> QED
      BY <2>2
  <1> QED
    BY <1>1, <1>3

\* A product of factors other than 0 is not 0.
LEMMA NonzeroProduct ==
  ASSUME NEW F, NEW add, NEW mul, NEW sub, IsField(F, add, mul, sub),
         NEW S, IsFiniteSet(S), NEW f, ValuesIn(F \ {0}, f, S)
  PROVE  Fold(mul, 1, f, S) \in F \ {0}
  <1> DEFINE Good == {T \in SUBSET S : Fold(mul, 1, f, T) \in F \ {0}}
  <1>1. Monoid(F, mul, 1) /\ ValuesIn(F, f, S) /\ 1 \in F
    BY DEF IsField, ValuesIn, Monoid
  <1>2. Stepwise(F, mul, 1, f, S)
    BY <1>1, FoldSteps
  <1>3. {} \in Good
    BY <1>1, <1>2 DEF Stepwise
  <1>4. ASSUME NEW T \in SUBSET S, NEW x \in T, T \ {x} \in Good
        PROVE  T \in Good
    <2>1. f[x] \in F \ {0} /\ Fold(mul, 1, f, T \ {x}) \in F \ {0}
      BY <1>4 DEF ValuesIn
    <2>2. mul[f[x]][Fold(mul, 1, f, T \ {x})] \in F \ {0}
      BY <2>1, NoZeroDivisors
    <2> QED
      BY <1>2, <2>2 DEF Stepwise
  <1>5. \A T \in SUBSET S : \A x \in T : T \ {x} \in Good => T \in Good
    BY <1>4
  <1> HIDE DEF Good
  <1>6. S \in Good
    BY <1>3, <1>5, InductionOnSubsets
  <1> QED
    BY <1>6 DEF Good

LEMMA FieldMonoids ==
  ASSUME NEW F, NEW add, NEW mul, NEW sub, IsField(F, add, mul, sub)
  PROVE  Monoid(F, add, 0) /\ Monoid(F, mul, 1) /\ 0 \in F /\ 1 \in F
  BY DEF IsField, Monoid

LEMMA Distributes ==
  ASSUME NEW F, NEW add, NEW mul, NEW sub, IsField(F, add, mul, sub),
         NEW x \in F, NEW y \in F, NEW z \in F
  PROVE  /\ mul[x][add[y][z]] = add[mul[x][y]][mul[x][z]]
         /\ mul[add[y][z]][x] = add[mul[y][x]][mul[z][x]]
  <1>1. mul[x][add[y][z]] = add[mul[x][y]][mul[x][z]]
    BY DEF IsField
  <1>2. add[y][z] \in F
    BY DEF IsField, Monoid
  <1>3. /\ mul[x][add[y][z]] = mul[add[y][z]][x]
        /\ mul[x][y] = mul[y][x]
        /\ mul[x][z] = mul[z][x]
    BY <1>2 DEF IsField, Monoid
  <1> QED
    BY <1>1, <1>3

LEMMA Commutes ==
  ASSUME NEW F, NEW op, NEW e, Monoid(F, op, e), NEW x \in F, NEW y \in F
  PROVE  op[x][y] = op[y][x]
  BY DEF Monoid

LEMMA Differences ==
  ASSUME NEW F, NEW add, NEW mul, NEW sub, IsField(F, add, mul, sub),
         NEW x \in F, NEW y \in F
  PROVE  /\ sub[x][y] \in F /\ add[sub[x][y]][y] = x
         /\ sub[x][y] = 0 <=> x = y
  <1>1. sub[x][y] \in F /\ add[sub[x][y]][y] = x
    BY DEF IsField
  <1>2. 0 \in F /\ add[0][y] = y
    BY FieldMonoids, MonoidNeutral
  <1>3. ASSUME x = y PROVE sub[x][y] = 0
    <2>1. add[sub[x][y]][y] = add[0][y]
      BY <1>1, <1>2, <1>3
    <2> QED
      BY <1>1, <1>2, <2>1, AddCancel
  <1> QED
    BY <1>1, <1>2, <1>3

----------------------------------------------------------------------------
(* Lagrange interpolation at 0.                                            *)

Point(F) == [j \in F |-> j]
Gap(F, sub, i) == [j \in F |-> sub[j][i]]

Numerator(F, mul, S, i) == Fold(mul, 1, Point(F), S \ {i})
Denominator(F, mul, sub, S, i) == Fold(mul, 1, Gap(F, sub, i), S \ {i})

IsWeight(F, mul, sub, S, i, w) ==
  w \in F /\ mul[w][Denominator(F, mul, sub, S, i)] = Numerator(F, mul, S, i)

Weight(F, mul, sub, S, i) == CHOOSE w \in F : IsWeight(F, mul, sub, S, i, w)

LEMMA Denominators ==
  ASSUME NEW F, NEW add, NEW mul, NEW sub, IsField(F, add, mul, sub),
         NEW S \in SUBSET F, IsFiniteSet(S), NEW i \in F
  PROVE  /\ Denominator(F, mul, sub, S, i) \in F \ {0}
         /\ Numerator(F, mul, S, i) \in F
  <1>1. IsFiniteSet(S \ {i})
    BY FS_Subset
  <1>2. ValuesIn(F \ {0}, Gap(F, sub, i), S \ {i})
    <2>1. ASSUME NEW j \in S \ {i}
          PROVE  sub[j][i] \in F \ {0}
      BY Differences
    <2> QED
      BY <2>1 DEF ValuesIn, Gap
  <1>3. ValuesIn(F, Point(F), S \ {i})
    BY DEF ValuesIn, Point
  <1>4. Fold(mul, 1, Gap(F, sub, i), S \ {i}) \in F \ {0}
    BY <1>1, <1>2, NonzeroProduct
  <1>5. Fold(mul, 1, Point(F), S \ {i}) \in F
    BY <1>1, <1>3, FieldMonoids, FoldType
  <1> QED
    BY <1>4, <1>5 DEF Denominator, Numerator

\* A point has one weight.
LEMMA Weights ==
  ASSUME NEW F, NEW add, NEW mul, NEW sub, IsField(F, add, mul, sub),
         NEW S \in SUBSET F, IsFiniteSet(S), NEW i \in F
  PROVE  /\ IsWeight(F, mul, sub, S, i, Weight(F, mul, sub, S, i))
         /\ \A w : IsWeight(F, mul, sub, S, i, w) => w = Weight(F, mul, sub, S, i)
  <1> DEFINE n == Numerator(F, mul, S, i)
             d == Denominator(F, mul, sub, S, i)
  <1>1. d \in F \ {0} /\ n \in F
    BY Denominators
  <1>2. \E w \in F : mul[w][d] = n
    <2> HIDE DEF n, d
    <2>1. PICK v \in F : mul[d][v] = 1
      BY <1>1 DEF IsField
    <2>2. Monoid(F, mul, 1)
      BY FieldMonoids
    <2>3. mul[mul[n][v]][d] = mul[n][mul[v][d]]
      BY <1>1, <2>2, MonoidAssociates
    <2>4. mul[v][d] = mul[d][v] /\ mul[n][1] = n /\ mul[n][v] \in F
      BY <1>1, <2>2, Commutes, MonoidNeutral, MonoidType
    <2> QED
      BY <2>1, <2>3, <2>4
  <1>3. IsWeight(F, mul, sub, S, i, Weight(F, mul, sub, S, i))
    BY <1>2 DEF Weight, IsWeight
  <1>4. ASSUME NEW w, IsWeight(F, mul, sub, S, i, w)
        PROVE  w = Weight(F, mul, sub, S, i)
    <2> DEFINE u == Weight(F, mul, sub, S, i)
    <2>1. w \in F /\ u \in F /\ mul[w][d] = mul[u][d]
      BY <1>3, <1>4 DEF IsWeight
    <2> HIDE DEF u, d
    <2> QED
      BY <1>1, <2>1, MulCancel DEF u
  <1> QED
    BY <1>3, <1>4

\* The weights of S from those of S without a.
LEMMA WeightWithout ==
  ASSUME NEW F, NEW add, NEW mul, NEW sub, IsField(F, add, mul, sub),
         NEW S \in SUBSET F, IsFiniteSet(S), NEW a \in S, NEW i \in S \ {a}
  PROVE  mul[Weight(F, mul, sub, S, i)][sub[a][i]] = mul[a][Weight(F, mul, sub, S \ {a}, i)]
  <1> DEFINE w == Weight(F, mul, sub, S, i)
             v == Weight(F, mul, sub, S \ {a}, i)
             n == Numerator(F, mul, S \ {a}, i)
             d == Denominator(F, mul, sub, S \ {a}, i)
             s == sub[a][i]
  <1>1. IsFiniteSet(S \ {a}) /\ IsFiniteSet(S \ {i}) /\ Monoid(F, mul, 1)
    BY FS_Subset, FieldMonoids
  <1>2. d \in F \ {0} /\ n \in F /\ s \in F
    BY <1>1, Denominators, Differences
  <1>3. (S \ {i}) \ {a} = (S \ {a}) \ {i} /\ a \in S \ {i}
    OBVIOUS
  <1>4. Denominator(F, mul, sub, S, i) = mul[s][d]
    <2>1. ValuesIn(F, Gap(F, sub, i), S \ {i})
      <3>1. \A j \in F : sub[j][i] \in F
        BY Differences
      <3> QED
        BY <3>1 DEF ValuesIn, Gap
    <2>2. Takes(mul, 1, Gap(F, sub, i), S \ {i}, a)
      BY <1>1, <1>3, <2>1, FoldRemove
    <2> QED
      BY <1>3, <2>2 DEF Takes, Denominator, Gap
  <1>5. Numerator(F, mul, S, i) = mul[a][n]
    <2>1. ValuesIn(F, Point(F), S \ {i})
      BY DEF ValuesIn, Point
    <2>2. Takes(mul, 1, Point(F), S \ {i}, a)
      BY <1>1, <1>3, <2>1, FoldRemove
    <2> QED
      BY <1>3, <2>2 DEF Takes, Numerator, Point
  <1>6. w \in F /\ v \in F /\ mul[w][mul[s][d]] = mul[a][n] /\ mul[v][d] = n
    <2>1. /\ IsWeight(F, mul, sub, S, i, w)
          /\ IsWeight(F, mul, sub, S \ {a}, i, v)
      BY <1>1, Weights
    <2> QED
      BY <1>4, <1>5, <2>1 DEF IsWeight
  <1> HIDE DEF w, v, n, d, s
  <1>7. mul[mul[w][s]][d] = mul[mul[a][v]][d]
    <2>1. mul[mul[w][s]][d] = mul[w][mul[s][d]]
      BY <1>1, <1>2, <1>6, MonoidAssociates
    <2>2. mul[mul[a][v]][d] = mul[a][mul[v][d]]
      BY <1>1, <1>2, <1>6, MonoidAssociates
    <2> QED
      BY <1>6, <2>1, <2>2
  <1>8. mul[w][s] \in F /\ mul[a][v] \in F
    BY <1>1, <1>2, <1>6, MonoidType
  <1>9. mul[w][s] = mul[a][v]
    BY <1>2, <1>7, <1>8, MulCancel
  <1> QED
    BY <1>9 DEF w, v, s

WeightedTerms(F, mul, sub, S, y) == [i \in S |-> mul[y[i]][Weight(F, mul, sub, S, i)]]

\* The value at 0 of the polynomial with the values y on S.
Interpolated(F, add, mul, sub, S, y) == Fold(add, 0, WeightedTerms(F, mul, sub, S, y), S)

LEMMA TermsType ==
  ASSUME NEW F, NEW add, NEW mul, NEW sub, IsField(F, add, mul, sub),
         NEW S \in SUBSET F, IsFiniteSet(S), NEW y, ValuesIn(F, y, S)
  PROVE  /\ \A i \in S : Weight(F, mul, sub, S, i) \in F
         /\ ValuesIn(F, WeightedTerms(F, mul, sub, S, y), S)
         /\ Interpolated(F, add, mul, sub, S, y) \in F
  <1>1. \A i \in S : Weight(F, mul, sub, S, i) \in F
    BY Weights DEF IsWeight
  <1>2. ValuesIn(F, WeightedTerms(F, mul, sub, S, y), S)
    <2>1. ASSUME NEW i \in S
          PROVE  mul[y[i]][Weight(F, mul, sub, S, i)] \in F
      <3>1. y[i] \in F /\ Weight(F, mul, sub, S, i) \in F
        BY <1>1 DEF ValuesIn
      <3> QED
        BY <3>1, FieldMonoids, MonoidType
    <2> QED
      BY <2>1 DEF ValuesIn, WeightedTerms
  <1> QED
    BY <1>1, <1>2, FieldMonoids, FoldType DEF Interpolated

LEMMA InterpolatedSum ==
  ASSUME NEW F, NEW add, NEW mul, NEW sub, IsField(F, add, mul, sub),
         NEW S \in SUBSET F, IsFiniteSet(S), NEW y, ValuesIn(F, y, S), NEW z, ValuesIn(F, z, S),
         NEW u, \A i \in S : u[i] = add[y[i]][z[i]]
  PROVE  Interpolated(F, add, mul, sub, S, u)
           = add[Interpolated(F, add, mul, sub, S, y)][Interpolated(F, add, mul, sub, S, z)]
  <1> DEFINE ty == WeightedTerms(F, mul, sub, S, y)
             tz == WeightedTerms(F, mul, sub, S, z)
             tu == WeightedTerms(F, mul, sub, S, u)
  <1>1. ValuesIn(F, ty, S) /\ ValuesIn(F, tz, S)
    BY TermsType
  <1>2. ASSUME NEW i \in S
        PROVE  tu[i] = add[ty[i]][tz[i]]
    <2> DEFINE w == Weight(F, mul, sub, S, i)
    <2>1. w \in F /\ y[i] \in F /\ z[i] \in F
      BY TermsType DEF ValuesIn
    <2>2. \A p, q \in F : mul[add[p][q]][w] = add[mul[p][w]][mul[q][w]]
      BY <2>1, Distributes
    <2> QED
      BY <2>1, <2>2 DEF WeightedTerms
  <1>3. Monoid(F, add, 0)
    BY FieldMonoids
  <1>4. \A i \in S : tu[i] = add[ty[i]][tz[i]]
    BY <1>2
  <1> HIDE DEF ty, tz, tu
  <1>5. Fold(add, 0, tu, S) = add[Fold(add, 0, ty, S)][Fold(add, 0, tz, S)]
    BY <1>1, <1>3, <1>4, FoldOfBoth
  <1> QED
    BY <1>5 DEF Interpolated, ty, tz, tu

LEMMA SumScaled ==
  ASSUME NEW F, NEW add, NEW mul, NEW sub, IsField(F, add, mul, sub),
         NEW S, IsFiniteSet(S), NEW f, ValuesIn(F, f, S),
         NEW c \in F, NEW g, \A i \in S : g[i] = mul[c][f[i]]
  PROVE  Fold(add, 0, g, S) = mul[c][Fold(add, 0, f, S)]
  <1> DEFINE phi == [x \in F |-> mul[c][x]]
  <1>1. Monoid(F, add, 0) /\ Monoid(F, mul, 1)
    BY FieldMonoids
  <1>2. \A x \in F : mul[c][x] \in F
    BY <1>1, MonoidType
  <1>3. phi \in [F -> F]
    BY <1>2
  <1>4. phi[0] = 0
    BY FieldMonoids, MulZero
  <1>5. ASSUME NEW x \in F, NEW y \in F
        PROVE  phi[add[x][y]] = add[phi[x]][phi[y]]
    BY <1>1, Distributes, MonoidType
  <1>6. \A i \in S : g[i] = phi[f[i]]
    BY DEF ValuesIn
  <1>7. Fold(add, 0, f, S) \in F
    BY <1>1, FoldType
  <1>8. \A x, y \in F : phi[add[x][y]] = add[phi[x]][phi[y]]
    BY <1>5
  <1>9. \A x \in F : phi[x] = mul[c][x]
    OBVIOUS
  <1> HIDE DEF phi
  <1>10. Fold(add, 0, g, S) = phi[Fold(add, 0, f, S)]
    BY <1>1, <1>3, <1>4, <1>6, <1>8, FoldMapped
  <1> QED
    BY <1>7, <1>9, <1>10

LEMMA InterpolatedScaled ==
  ASSUME NEW F, NEW add, NEW mul, NEW sub, IsField(F, add, mul, sub),
         NEW S \in SUBSET F, IsFiniteSet(S), NEW y, ValuesIn(F, y, S),
         NEW c \in F, NEW u, \A i \in S : u[i] = mul[c][y[i]]
  PROVE  Interpolated(F, add, mul, sub, S, u) = mul[c][Interpolated(F, add, mul, sub, S, y)]
  <1> DEFINE ty == WeightedTerms(F, mul, sub, S, y)
             tu == WeightedTerms(F, mul, sub, S, u)
  <1>1. ValuesIn(F, ty, S)
    BY TermsType
  <1>2. ASSUME NEW i \in S
        PROVE  tu[i] = mul[c][ty[i]]
    <2> DEFINE w == Weight(F, mul, sub, S, i)
    <2>1. w \in F /\ y[i] \in F
      BY TermsType DEF ValuesIn
    <2>2. mul[mul[c][y[i]]][w] = mul[c][mul[y[i]][w]]
      BY <2>1, FieldMonoids, MonoidAssociates, SMTT(30)
    <2> QED
      BY <2>2 DEF WeightedTerms
  <1>3. \A i \in S : tu[i] = mul[c][ty[i]]
    BY <1>2
  <1> HIDE DEF ty, tu
  <1>4. Fold(add, 0, tu, S) = mul[c][Fold(add, 0, ty, S)]
    BY <1>1, <1>3, SumScaled
  <1> QED
    BY <1>4 DEF Interpolated, ty, tu

\* Leaving a out: a y = (a - i) y + i y at each i.
LEMMA InterpolatedWithout ==
  ASSUME NEW F, NEW add, NEW mul, NEW sub, IsField(F, add, mul, sub),
         NEW S \in SUBSET F, IsFiniteSet(S), NEW y, ValuesIn(F, y, S), NEW a \in S,
         NEW z, \A i \in S : z[i] = mul[i][y[i]]
  PROVE  mul[a][Interpolated(F, add, mul, sub, S, y)]
           = add[mul[a][Interpolated(F, add, mul, sub, S \ {a}, y)]]
                [Interpolated(F, add, mul, sub, S, z)]
  <1> DEFINE R  == S \ {a}
             ty == WeightedTerms(F, mul, sub, S, y)
             tz == WeightedTerms(F, mul, sub, S, z)
             tr == WeightedTerms(F, mul, sub, R, y)
             u  == [i \in S |-> mul[sub[a][i]][ty[i]]]
             v  == [i \in S |-> mul[a][ty[i]]]
  <1>1. /\ Monoid(F, add, 0) /\ Monoid(F, mul, 1) /\ 0 \in F /\ IsFiniteSet(R)
        /\ R \in SUBSET F /\ ValuesIn(F, y, R)
    BY FieldMonoids, FS_Subset DEF ValuesIn
  <1>2. ValuesIn(F, ty, S) /\ ValuesIn(F, tr, R)
    BY <1>1, TermsType
  <1>3. \A i \in S : ty[i] \in F /\ sub[a][i] \in F /\ i \in F /\ a \in F
    BY <1>2, Differences DEF ValuesIn
  <1>4. ASSUME NEW i \in S
        PROVE  tz[i] = mul[i][ty[i]]
    <2> DEFINE w == Weight(F, mul, sub, S, i)
    <2>1. w \in F /\ y[i] \in F /\ i \in F
      BY TermsType DEF ValuesIn
    <2>2. mul[mul[i][y[i]]][w] = mul[i][mul[y[i]][w]]
      BY <2>1, <1>1, MonoidAssociates
    <2> QED
      BY <2>2 DEF WeightedTerms
  <1>5. ValuesIn(F, u, S) /\ ValuesIn(F, tz, S)
    <2>1. \A i \in S : mul[sub[a][i]][ty[i]] \in F /\ mul[i][ty[i]] \in F
      BY <1>1, <1>3, MonoidType
    <2> QED
      BY <1>4, <2>1 DEF ValuesIn
  <1>6. ASSUME NEW i \in S
        PROVE  v[i] = add[u[i]][tz[i]]
    <2> DEFINE s == sub[a][i]
               t == ty[i]
    <2>1. s \in F /\ t \in F /\ i \in F /\ add[s][i] = a
      BY <1>3, Differences
    <2>2. v[i] = mul[a][t] /\ u[i] = mul[s][t] /\ tz[i] = mul[i][t]
      BY <1>4
    <2> HIDE DEF s, t, v, u, tz
    <2>3. mul[add[s][i]][t] = add[mul[s][t]][mul[i][t]]
      BY <2>1, Distributes
    <2> QED
      BY <2>1, <2>2, <2>3
  <1>7. ASSUME NEW i \in R
        PROVE  u[i] = mul[a][tr[i]]
    <2> DEFINE s == sub[a][i]
               w == Weight(F, mul, sub, S, i)
               x == Weight(F, mul, sub, R, i)
    <2>1. s \in F /\ w \in F /\ x \in F /\ y[i] \in F /\ a \in F
      BY <1>1, <1>3, TermsType DEF ValuesIn
    <2>2. mul[w][s] = mul[a][x]
      BY WeightWithout
    <2>3. u[i] = mul[s][mul[y[i]][w]] /\ tr[i] = mul[y[i]][x]
      BY DEF WeightedTerms
    <2> HIDE DEF s, w, x, u, tr
    <2>4. mul[s][mul[y[i]][w]] = mul[y[i]][mul[s][w]]
      BY <1>1, <2>1, MonoidSwap
    <2>5. mul[s][w] = mul[w][s]
      BY <1>1, <2>1, Commutes
    <2>6. mul[a][mul[y[i]][x]] = mul[y[i]][mul[a][x]]
      BY <1>1, <2>1, MonoidSwap
    <2> QED
      BY <2>2, <2>3, <2>4, <2>5, <2>6
  <1>8. u[a] = 0
    <2>1. sub[a][a] = 0
      BY <1>3, Differences
    <2>2. mul[0][ty[a]] = 0
      BY <1>3, MulZero
    <2> QED
      BY <2>1, <2>2
  <1>9. /\ \A i \in S : v[i] = add[u[i]][tz[i]]
        /\ \A i \in S : v[i] = mul[a][ty[i]]
        /\ \A i \in R : u[i] = mul[a][tr[i]]
    BY <1>6, <1>7
  <1>10. R = S \ {a} /\ a \in F
    BY <1>3
  <1> HIDE DEF R, ty, tz, tr, u, v
  <1>11. Fold(add, 0, v, S) = mul[a][Fold(add, 0, ty, S)]
    BY <1>2, <1>9, <1>10, SumScaled
  <1>12. Fold(add, 0, v, S) = add[Fold(add, 0, u, S)][Fold(add, 0, tz, S)]
    BY <1>1, <1>5, <1>9, FoldOfBoth
  <1>13. Fold(add, 0, u, S) = Fold(add, 0, u, R)
    <2>1. Takes(add, 0, u, S, a)
      BY <1>1, <1>5, FoldRemove
    <2>2. Fold(add, 0, u, R) \in F
      <3>1. ValuesIn(F, u, R)
        BY <1>5, <1>10 DEF ValuesIn
      <3> QED
        BY <1>1, <3>1, FoldType
    <2>3. add[0][Fold(add, 0, u, R)] = Fold(add, 0, u, R)
      BY <1>1, <2>2, MonoidNeutral
    <2> QED
      BY <1>8, <1>10, <2>1, <2>3 DEF Takes
  <1>14. Fold(add, 0, u, R) = mul[a][Fold(add, 0, tr, R)]
    BY <1>1, <1>2, <1>9, <1>10, SumScaled
  <1> QED
    BY <1>11, <1>12, <1>13, <1>14 DEF Interpolated, R, ty, tz, tr

LEMMA InterpolatedOne ==
  ASSUME NEW F, NEW add, NEW mul, NEW sub, IsField(F, add, mul, sub),
         NEW S \in SUBSET F, IsFiniteSet(S), S # {}
  PROVE  Interpolated(F, add, mul, sub, S, [i \in F |-> 1]) = 1
  <1> DEFINE one    == [i \in F |-> 1]
             At(T, y) == Interpolated(F, add, mul, sub, T, y)
             Bad    == {T \in SUBSET S : T # {} /\ At(T, one) # 1}
  <1>1. SUFFICES ASSUME Bad # {} PROVE FALSE
    OBVIOUS
  <1>2. \E T \in Bad : \A U \in Bad : U \subseteq T => U = T
    <2>1. Bad \in SUBSET SUBSET S
      OBVIOUS
    <2> HIDE DEF Bad
    <2> QED
      BY <1>1, <2>1, SmallestSubset
  <1>3. PICK T \in Bad : \A U \in Bad : U \subseteq T => U = T
    BY <1>2
  <1>4. PICK a \in T : TRUE
    BY <1>3
  <1>5. /\ Monoid(F, add, 0) /\ Monoid(F, mul, 1) /\ 0 \in F /\ 1 \in F
        /\ T \in SUBSET F /\ IsFiniteSet(T) /\ a \in F
    BY <1>3, <1>4, FieldMonoids, FS_Subset
  <1>6. ValuesIn(F, one, T) /\ ValuesIn(F, Point(F), T)
    BY <1>5 DEF ValuesIn, Point
  <1>7. CASE T = {a}
    <2> DEFINE w == Weight(F, mul, sub, T, a)
    <2>1. IsWeight(F, mul, sub, T, a, w)
      BY <1>5, Weights
    <2>2. T \ {a} = {}
      BY <1>7
    <2>3. Fold(mul, 1, Gap(F, sub, a), {}) = 1 /\ Fold(mul, 1, Point(F), {}) = 1
      BY <1>5, FoldEmpty
    <2>4. w \in F /\ mul[w][1] = 1
      BY <2>1, <2>2, <2>3 DEF IsWeight, Denominator, Numerator
    <2>5. w = 1
      BY <1>5, <2>4, MonoidNeutral
    <2> DEFINE t == WeightedTerms(F, mul, sub, T, one)
    <2>6. t[a] = 1
      <3>1. mul[1][1] = 1
        BY <1>5, MonoidNeutral
      <3> QED
        BY <1>5, <2>5, <3>1 DEF WeightedTerms
    <2>7. ValuesIn(F, t, T)
      BY <1>5, <1>6, TermsType
    <2>8. At(T, one) = Fold(add, 0, t, T)
      BY DEF Interpolated
    <2> HIDE DEF t
    <2>9. Takes(add, 0, t, T, a)
      BY <1>4, <1>5, <2>7, FoldRemove
    <2>10. Fold(add, 0, t, {}) = 0 /\ add[1][0] = 1
      BY <1>5, FoldEmpty, MonoidNeutral
    <2>11. At(T, one) = 1
      BY <2>2, <2>6, <2>8, <2>9, <2>10 DEF Takes
    <2> QED
      BY <1>3, <2>11
  <1>8. CASE T # {a}
    <2>1. PICK b \in T : b # a
      BY <1>4, <1>8
    <2> DEFINE m == At(T, one)
               z == At(T, Point(F))
               s == sub[a][b]
    <2>2. m \in F /\ z \in F /\ b \in F
      BY <1>5, <1>6, <2>1, TermsType
    <2>3. \A x \in T : mul[x][m] = add[x][z]
      <3>1. SUFFICES ASSUME NEW x \in T PROVE mul[x][m] = add[x][z]
        OBVIOUS
      <3>2. \A i \in T : Point(F)[i] = mul[i][one[i]]
        <4>1. \A i \in T : mul[i][1] = i
          BY <1>5, MonoidNeutral
        <4> QED
          BY <1>5, <4>1 DEF Point
      <3>3. At(T \ {x}, one) = 1
        <4>1. T \ {x} \in SUBSET S /\ T \ {x} # {} /\ T \ {x} # T /\ T \ {x} \subseteq T
          BY <1>3, <1>4, <2>1
        <4> HIDE DEF At, one
        <4> QED
          BY <1>3, <4>1
      <3> HIDE DEF one
      <3>4. mul[x][At(T, one)] = add[mul[x][At(T \ {x}, one)]][At(T, Point(F))]
        BY <1>5, <1>6, <3>2, InterpolatedWithout
      <3>5. mul[x][1] = x
        BY <1>5, MonoidNeutral
      <3> QED
        BY <3>3, <3>4, <3>5
    <2>4. s \in F \ {0} /\ add[s][b] = a
      BY <1>5, <2>1, <2>2, Differences
    <2> HIDE DEF m, z, s, Bad
    <2>5. mul[m][s] = mul[1][s]
      <3>1. mul[a][m] = add[a][z] /\ mul[b][m] = add[b][z]
        BY <1>4, <2>1, <2>3
      <3>2. mul[add[s][b]][m] = add[mul[s][m]][mul[b][m]]
        BY <2>2, <2>4, Distributes
      <3>3. add[add[s][b]][z] = add[s][add[b][z]]
        BY <1>5, <2>2, <2>4, MonoidAssociates, SMTT(30)
      <3>4. add[mul[s][m]][mul[b][m]] = add[s][mul[b][m]]
        BY <2>4, <3>1, <3>2, <3>3
      <3>5. mul[s][m] \in F /\ mul[b][m] \in F
        BY <1>5, <2>2, <2>4, MonoidType
      <3>6. mul[s][m] = s
        BY <2>4, <3>4, <3>5, AddCancel
      <3> QED
        BY <1>5, <2>2, <2>4, <3>6, Commutes, MonoidNeutral
    <2>6. m = 1
      BY <1>5, <2>2, <2>4, <2>5, MulCancel
    <2> QED
      BY <1>3, <2>6 DEF m, Bad
  <1> QED
    BY <1>7, <1>8

\* When q has one value at 0, on T and without a, x q + c has c.
LEMMA InterpolatedLift ==
  ASSUME NEW F, NEW add, NEW mul, NEW sub, IsField(F, add, mul, sub),
         NEW T \in SUBSET F, IsFiniteSet(T), NEW a \in T,
         NEW q, ValuesIn(F, q, T), NEW c \in F,
         NEW p, \A i \in T : p[i] = add[mul[q[i]][i]][c],
         Interpolated(F, add, mul, sub, T, q) = Interpolated(F, add, mul, sub, T \ {a}, q)
  PROVE  Interpolated(F, add, mul, sub, T, p) = c
  <1> DEFINE At(y) == Interpolated(F, add, mul, sub, T, y)
             z == [i \in T |-> mul[i][q[i]]]
             k == [i \in T |-> c]
             one == [i \in F |-> 1]
  <1>1. /\ Monoid(F, add, 0) /\ Monoid(F, mul, 1) /\ 0 \in F /\ 1 \in F /\ a \in F
        /\ \A i \in T : i \in F /\ q[i] \in F
    BY FieldMonoids DEF ValuesIn
  <1>2. /\ ValuesIn(F, z, T) /\ ValuesIn(F, k, T) /\ ValuesIn(F, one, T)
        /\ \A i \in T : z[i] = mul[i][q[i]]
        /\ \A i \in T : k[i] = mul[c][one[i]]
        /\ \A i \in T : p[i] = add[z[i]][k[i]]
    <2>1. \A i \in T : mul[i][q[i]] \in F /\ mul[q[i]][i] = mul[i][q[i]] /\ mul[c][1] = c
      BY <1>1, MonoidType, Commutes, MonoidNeutral
    <2> QED
      BY <1>1, <2>1 DEF ValuesIn
  <1>3. At(q) \in F /\ At(z) \in F
    BY <1>2, TermsType
  <1>4. At(one) = 1
    BY InterpolatedOne
  <1> HIDE DEF z, k, one
  <1>5. At(k) = mul[c][At(one)]
    BY <1>2, InterpolatedScaled
  <1>6. At(p) = add[At(z)][At(k)]
    BY <1>2, InterpolatedSum
  <1>7. mul[a][At(q)] = add[mul[a][At(q)]][At(z)]
    BY <1>2, InterpolatedWithout
  <1> DEFINE v == mul[a][At(q)]
  <1>8. v \in F
    BY <1>1, <1>3, MonoidType
  <1> HIDE DEF v, At
  <1>9. At(z) = 0
    <2>1. v = add[v][At(z)]
      BY <1>7 DEF v
    <2>2. add[0][v] = v /\ add[v][At(z)] = add[At(z)][v]
      BY <1>1, <1>3, <1>8, MonoidNeutral, Commutes
    <2>3. add[At(z)][v] = add[0][v]
      BY <2>1, <2>2
    <2> QED
      BY <1>1, <1>3, <1>8, <2>3, AddCancel
  <1>10. mul[c][1] = c /\ add[0][c] = c
    BY <1>1, MonoidNeutral
  <1>11. At(p) = c
    BY <1>4, <1>5, <1>6, <1>9, <1>10
  <1> QED
    BY <1>11 DEF At

\* The polynomial with coefficients c, and what Horner's rule makes of it from the last
\* coefficient on.
IsHorner(F, add, mul, n, c, h) ==
  /\ c \in [1 .. n -> F]
  /\ h \in [1 .. n + 1 -> [F -> F]]
  /\ \A x \in F : h[n + 1][x] = 0
  /\ \A k \in 1 .. n : \A x \in F : h[k][x] = add[mul[h[k + 1][x]][x]][c[k]]

\* As many points as coefficients, or more, have the first coefficient for their value at 0.
LEMMA InterpolatesAtZero ==
  ASSUME NEW F, NEW add, NEW mul, NEW sub, IsField(F, add, mul, sub),
         NEW n \in Nat \ {0}, NEW c, NEW h, IsHorner(F, add, mul, n, c, h),
         NEW S \in SUBSET F, IsFiniteSet(S), Cardinality(S) >= n
  PROVE  Interpolated(F, add, mul, sub, S, h[1]) = c[1]
  <1> DEFINE At(T, y) == Interpolated(F, add, mul, sub, T, y)
             Same(m, v) == \A T \in SUBSET S : Cardinality(T) >= m => At(T, h[n + 1 - m]) = v
             Good == {m \in Nat : m < n => \E v \in F : Same(m, v)}
  <1>1. \A T \in SUBSET S : IsFiniteSet(T) /\ Cardinality(T) \in Nat /\ T \in SUBSET F
    BY FS_Subset, FS_CardinalityType
  <1>2. \A k \in 1 .. n + 1 : \A T \in SUBSET S : ValuesIn(F, h[k], T)
    BY DEF IsHorner, ValuesIn
  <1>3. ASSUME NEW m \in Nat, m < n, NEW v \in F, Same(m, v),
               NEW T \in SUBSET S, Cardinality(T) >= m + 1
        PROVE  At(T, h[n - m]) = c[n - m]
    <2>1. T # {}
      BY <1>3, FS_EmptySet
    <2>2. PICK a \in T : TRUE
      BY <2>1
    <2>3. Cardinality(T \ {a}) = Cardinality(T) - 1 /\ T \ {a} \in SUBSET S
      BY <1>1, FS_RemoveElement
    <2> DEFINE k == n - m
    <2>4. k \in 1 .. n /\ k + 1 \in 1 .. n + 1 /\ n + 1 - m = k + 1
      BY <1>3
    <2> DEFINE q == h[k + 1]
               p == h[k]
    <2>5. At(T, q) = v /\ At(T \ {a}, q) = v
      <3> HIDE DEF At, k
      <3>1. Cardinality(T) \in Nat /\ Cardinality(T) >= m /\ Cardinality(T \ {a}) >= m
        BY <1>1, <1>3, <2>3
      <3> QED
        BY <1>3, <2>3, <2>4, <3>1
    <2>6. /\ ValuesIn(F, q, T) /\ c[k] \in F
          /\ \A i \in T : p[i] = add[mul[q[i]][i]][c[k]]
          /\ T \in SUBSET F /\ IsFiniteSet(T)
      <3> HIDE DEF k
      <3> QED
        BY <1>1, <1>2, <2>4 DEF IsHorner
    <2>7. Interpolated(F, add, mul, sub, T, p) = c[k]
      <3> DEFINE b == c[k]
      <3>1. /\ b \in F
            /\ \A i \in T : p[i] = add[mul[q[i]][i]][b]
        BY <2>6
      <3> HIDE DEF k, q, p, b
      <3>2. Interpolated(F, add, mul, sub, T, p) = b
        BY <2>2, <2>5, <2>6, <3>1, InterpolatedLift
      <3> QED
        BY <3>2 DEF b
    <2> QED
      BY <2>7
  <1>4. 0 \in Good
    <2>1. ASSUME NEW T \in SUBSET S PROVE At(T, h[n + 1]) = 0
      <3> DEFINE y == h[n + 1]
      <3>1. ValuesIn(F, y, T)
        BY <1>2
      <3>2. \A i \in T : y[i] \in F /\ y[i] = 0
        BY <1>1 DEF IsHorner
      <3>3. 0 \in F /\ \A i \in T : mul[0][y[i]] = 0
        BY <3>2, FieldMonoids, MulZero
      <3>4. \A i \in T : y[i] = mul[0][y[i]]
        BY <3>2, <3>3
      <3> HIDE DEF y
      <3>5. Interpolated(F, add, mul, sub, T, y)
              = mul[0][Interpolated(F, add, mul, sub, T, y)]
        BY <1>1, <3>1, <3>3, <3>4, InterpolatedScaled
      <3>6. Interpolated(F, add, mul, sub, T, y) \in F
        BY <1>1, <3>1, TermsType
      <3>7. Interpolated(F, add, mul, sub, T, y) = 0
        BY <3>5, <3>6, MulZero
      <3> QED
        BY <3>7 DEF y
    <2> HIDE DEF At
    <2>2. Same(0, 0)
      BY <2>1
    <2>3. 0 \in F
      BY FieldMonoids
    <2> QED
      BY <2>2, <2>3
  <1>5. ASSUME NEW m \in Nat, m \in Good PROVE m + 1 \in Good
    <2>1. SUFFICES ASSUME m + 1 < n PROVE \E v \in F : Same(m + 1, v)
      OBVIOUS
    <2>2. PICK v \in F : Same(m, v)
      BY <1>5, <2>1
    <2> HIDE DEF At, Same
    <2>3. \A T \in SUBSET S : Cardinality(T) >= m + 1 => At(T, h[n - m]) = c[n - m]
      BY <1>3, <2>1, <2>2
    <2>4. n + 1 - (m + 1) = n - m /\ n - m \in 1 .. n
      BY <2>1
    <2>5. c[n - m] \in F
      BY <2>4 DEF IsHorner
    <2>6. Same(m + 1, c[n - m])
      BY <2>3, <2>4 DEF Same
    <2> QED
      BY <2>5, <2>6
  <1>6. Nat \subseteq Good
    <2>1. \A m \in Nat : m \in Good => m + 1 \in Good
      BY <1>5
    <2> HIDE DEF Good
    <2> QED
      BY <1>4, <2>1, InductionOnNat
  <1>7. PICK v \in F : Same(n - 1, v)
    <2>1. n - 1 \in Nat /\ n - 1 < n
      OBVIOUS
    <2> QED
      BY <1>6, <2>1
  <1>8. n - 1 \in Nat /\ n - 1 < n /\ n - (n - 1) = 1 /\ S \in SUBSET S
        /\ Cardinality(S) >= (n - 1) + 1
    OBVIOUS
  <1> HIDE DEF At, Same
  <1>9. At(S, h[1]) = c[1]
    BY <1>3, <1>7, <1>8
  <1> QED
    BY <1>9 DEF At

Rearranges(op, a, b, c, d) == op[op[op[a][b]][c]][d] = op[op[d][b]][op[c][a]]

LEMMA MonoidRearranged ==
  ASSUME NEW F, NEW op, NEW e, Monoid(F, op, e),
         NEW a \in F, NEW b \in F, NEW c \in F, NEW d \in F
  PROVE  Rearranges(op, a, b, c, d)
  <1> DEFINE k == op[a][b]
             m == op[c][d]
  <1>1. k \in F /\ m \in F
    BY MonoidType
  <1>2. k = op[a][b] /\ m = op[c][d]
    OBVIOUS
  <1> HIDE DEF k, m
  <1>3. op[op[k][c]][d] = op[k][op[c][d]]
    BY <1>1, MonoidAssociates
  <1>4. op[op[a][b]][op[d][c]] = op[op[a][d]][op[b][c]]
    BY MonoidMix
  <1>5. op[op[d][b]][op[a][c]] = op[op[d][a]][op[b][c]]
    BY MonoidMix
  <1>6. op[c][d] = op[d][c] /\ op[a][d] = op[d][a] /\ op[c][a] = op[a][c]
    BY Commutes
  <1> QED
    BY <1>2, <1>3, <1>4, <1>5, <1>6 DEF Rearranges

\* (x - a) times a polynomial, a coefficient at a time.
FactorsOut(add, mul, sub, x, a, r, s, g) ==
  add[mul[add[r][mul[sub[x][a]][g]]][x]][sub[s][mul[a][r]]]
    = add[s][mul[sub[x][a]][add[mul[g][x]][r]]]

LEMMA FactorStep ==
  ASSUME NEW F, NEW add, NEW mul, NEW sub, IsField(F, add, mul, sub),
         NEW x \in F, NEW a \in F, NEW r \in F, NEW s \in F, NEW g \in F
  PROVE  FactorsOut(add, mul, sub, x, a, r, s, g)
  <1>1. Monoid(F, add, 0) /\ Monoid(F, mul, 1)
    BY FieldMonoids
  <1> DEFINE d == sub[x][a]
             m == mul[a][r]
             e == sub[s][m]
             t == mul[d][g]
             u == mul[t][x]
             v == mul[r][d]
  <1>2. d \in F /\ m \in F
    BY <1>1, Differences, MonoidType
  <1>3. e \in F /\ add[e][m] = s /\ add[d][a] = x
    <2> HIDE DEF m
    <2> QED
      BY <1>2, Differences
  <1>4. t \in F /\ v \in F
    BY <1>1, <1>2, MonoidType
  <1>5. u \in F
    BY <1>1, <1>4, MonoidType
  <1>6. d = sub[x][a] /\ m = mul[a][r] /\ e = sub[s][m]
    OBVIOUS
  <1>7. t = mul[d][g] /\ u = mul[t][x] /\ v = mul[r][d]
    OBVIOUS
  <1> HIDE DEF d, m, e, t, u, v
  <1>8. mul[add[r][t]][x] = add[add[v][m]][u]
    <2>1. mul[add[r][t]][x] = add[mul[r][x]][mul[t][x]]
      BY <1>4, Distributes
    <2>2. mul[r][add[d][a]] = add[mul[r][d]][mul[r][a]]
      BY <1>2, Distributes
    <2>3. mul[r][a] = mul[a][r]
      BY <1>1, Commutes
    <2> QED
      BY <1>3, <1>6, <1>7, <2>1, <2>2, <2>3
  <1>9. mul[d][add[mul[g][x]][r]] = add[u][v]
    <2> DEFINE w == mul[g][x]
    <2>1. w \in F
      BY <1>1, MonoidType
    <2>2. mul[mul[d][g]][x] = mul[d][w]
      BY <1>1, <1>2, MonoidAssociates
    <2> HIDE DEF w
    <2>3. mul[d][add[w][r]] = add[mul[d][w]][mul[d][r]]
      BY <1>2, <2>1, Distributes
    <2>4. mul[d][r] = mul[r][d]
      BY <1>1, <1>2, Commutes
    <2> QED
      BY <1>7, <2>2, <2>3, <2>4 DEF w
  <1>10. add[add[add[v][m]][u]][e] = add[add[e][m]][add[u][v]]
    <2>1. Monoid(F, add, 0) /\ v \in F /\ m \in F /\ u \in F /\ e \in F
      BY <1>1, <1>2, <1>3, <1>4, <1>5
    <2>2. Rearranges(add, v, m, u, e)
      BY <2>1, MonoidRearranged
    <2> QED
      BY <2>2 DEF Rearranges
  <1> QED
    BY <1>3, <1>6, <1>7, <1>8, <1>9, <1>10 DEF FactorsOut

\* A root, and a value there: y[a] + (x - a) g(x).
LEMMA HornerFactor ==
  ASSUME NEW F, NEW add, NEW mul, NEW sub, IsField(F, add, mul, sub),
         NEW n \in Nat, NEW r, NEW g, IsHorner(F, add, mul, n, r, g),
         NEW a \in F, NEW v \in F
  PROVE  \E c, h : /\ IsHorner(F, add, mul, n + 1, c, h)
                   /\ \A x \in F : h[1][x] = add[v][mul[sub[x][a]][g[1][x]]]
  <1> DEFINE R(k) == IF k = 0 THEN v ELSE IF k = n + 1 THEN 0 ELSE r[k]
             G(k, x) == IF k = n + 2 THEN 0 ELSE g[k][x]
             c == [k \in 1 .. n + 1 |-> sub[R(k - 1)][mul[a][R(k)]]]
             h == [k \in 1 .. (n + 1) + 1 |->
                     [x \in F |-> add[R(k - 1)][mul[sub[x][a]][G(k, x)]]]]
  <1>1. Monoid(F, add, 0) /\ Monoid(F, mul, 1) /\ 0 \in F
    BY FieldMonoids
  <1>2. \A k \in 0 .. n + 1 : R(k) \in F
    BY <1>1 DEF IsHorner
  <1>3. \A k \in 1 .. n + 2 : \A x \in F : G(k, x) \in F
    BY <1>1 DEF IsHorner
  <1>4. \A k \in 1 .. n + 1 : \A x \in F : G(k, x) = add[mul[G(k + 1, x)][x]][R(k)]
    <2>1. SUFFICES ASSUME NEW k \in 1 .. n + 1, NEW x \in F
                   PROVE  G(k, x) = add[mul[G(k + 1, x)][x]][R(k)]
      OBVIOUS
    <2>2. CASE k = n + 1
      <3>1. G(k, x) = 0 /\ G(k + 1, x) = 0 /\ R(k) = 0
        BY <2>2 DEF IsHorner
      <3>2. mul[0][x] = 0 /\ add[0][0] = 0
        BY <1>1, MulZero, MonoidNeutral
      <3> QED
        BY <3>1, <3>2
    <2>3. CASE k # n + 1
      <3>1. k \in 1 .. n /\ g[k][x] = add[mul[g[k + 1][x]][x]][r[k]]
        BY <2>3 DEF IsHorner
      <3>2. R(k) = r[k] /\ G(k, x) = g[k][x] /\ G(k + 1, x) = g[k + 1][x]
        BY <3>1
      <3> QED
        BY <3>1, <3>2
    <2> QED
      BY <2>2, <2>3
  <1> HIDE DEF R, G
  <1>5. ASSUME NEW k \in 1 .. n + 1
        PROVE  c[k] \in F /\ k \in 0 .. n + 1 /\ k - 1 \in 0 .. n + 1
    <2>1. R(k - 1) \in F /\ R(k) \in F
      BY <1>2
    <2>2. mul[a][R(k)] \in F
      BY <1>1, <2>1, MonoidType
    <2> QED
      BY <2>1, <2>2, Differences
  <1>6. ASSUME NEW k \in 1 .. (n + 1) + 1, NEW x \in F
        PROVE  h[k][x] \in F
    <2>1. R(k - 1) \in F /\ G(k, x) \in F /\ sub[x][a] \in F
      BY <1>2, <1>3, Differences
    <2>2. mul[sub[x][a]][G(k, x)] \in F
      BY <1>1, <2>1, MonoidType
    <2> QED
      BY <1>1, <2>1, <2>2, MonoidType
  <1>7. ASSUME NEW x \in F
        PROVE  h[(n + 1) + 1][x] = 0
    <2>1. R(n + 1) = 0 /\ G(n + 2, x) = 0
      BY DEF R, G
    <2>2. sub[x][a] \in F
      BY Differences
    <2>3. mul[sub[x][a]][0] = 0 /\ add[0][0] = 0
      BY <1>1, <2>2, MulZero, MonoidNeutral
    <2>4. h[(n + 1) + 1][x] = add[R(n + 1)][mul[sub[x][a]][G(n + 2, x)]]
      OBVIOUS
    <2> QED
      BY <2>1, <2>3, <2>4
  <1>8. ASSUME NEW k \in 1 .. n + 1, NEW x \in F
        PROVE  h[k][x] = add[mul[h[k + 1][x]][x]][c[k]]
    <2>1. R(k) \in F /\ R(k - 1) \in F /\ G(k + 1, x) \in F
      BY <1>2, <1>3, <1>5
    <2>2. h[k + 1][x] = add[R(k)][mul[sub[x][a]][G(k + 1, x)]]
      <3>1. k + 1 \in 1 .. (n + 1) + 1 /\ (k + 1) - 1 = k
        OBVIOUS
      <3> HIDE DEF c
      <3> QED
        BY <3>1
    <2>3. h[k][x] = add[R(k - 1)][mul[sub[x][a]][G(k, x)]]
      OBVIOUS
    <2>4. c[k] = sub[R(k - 1)][mul[a][R(k)]]
      OBVIOUS
    <2>5. G(k, x) = add[mul[G(k + 1, x)][x]][R(k)]
      BY <1>4
    <2> DEFINE p == R(k)
               s == R(k - 1)
               q == G(k + 1, x)
    <2>6. p \in F /\ s \in F /\ q \in F
      BY <2>1
    <2>7. /\ h[k + 1][x] = add[p][mul[sub[x][a]][q]]
          /\ h[k][x] = add[s][mul[sub[x][a]][add[mul[q][x]][p]]]
          /\ c[k] = sub[s][mul[a][p]]
      BY <2>2, <2>3, <2>4, <2>5
    <2> HIDE DEF h, c, p, s, q
    <2>8. FactorsOut(add, mul, sub, x, a, p, s, q)
      BY <2>6, FactorStep
    <2> QED
      BY <2>7, <2>8 DEF FactorsOut
  <1>9. IsHorner(F, add, mul, n + 1, c, h)
    <2>1. c \in [1 .. n + 1 -> F]
      BY <1>5
    <2>2. h \in [1 .. (n + 1) + 1 -> [F -> F]]
      BY <1>6
    <2> HIDE DEF c, h
    <2> QED
      BY <1>7, <1>8, <2>1, <2>2 DEF IsHorner
  <1>10. \A x \in F : h[1][x] = add[v][mul[sub[x][a]][g[1][x]]]
    <2>1. R(0) = v /\ \A x : G(1, x) = g[1][x]
      BY DEF R, G
    <2> QED
      BY <2>1, SMTT(30)
  <1> HIDE DEF c, h
  <1> QED
    BY <1>9, <1>10

\* Through as many points as coefficients there is a polynomial.
LEMMA Interpolates ==
  ASSUME NEW F, NEW add, NEW mul, NEW sub, IsField(F, add, mul, sub),
         NEW S \in SUBSET F, IsFiniteSet(S), NEW y, ValuesIn(F, y, S)
  PROVE  \E c, h : /\ IsHorner(F, add, mul, Cardinality(S), c, h)
                   /\ \A i \in S : h[1][i] = y[i]
  <1> DEFINE Through(T, u) == \E c, h : /\ IsHorner(F, add, mul, Cardinality(T), c, h)
                                        /\ \A i \in T : h[1][i] = u[i]
             Good == {T \in SUBSET S : \A u \in [F -> F] : Through(T, u)}
  <1>1. Monoid(F, add, 0) /\ Monoid(F, mul, 1) /\ 0 \in F
    BY FieldMonoids
  <1>2. {} \in Good
    <2> DEFINE h == [k \in 1 .. 1 |-> [x \in F |-> 0]]
    <2>1. Cardinality({}) = 0
      BY FS_EmptySet
    <2>2. IsHorner(F, add, mul, 0, <<>>, h)
      BY <1>1 DEF IsHorner
    <2> QED
      BY <2>1, <2>2
  <1>3. ASSUME NEW T \in SUBSET S, NEW a \in T, T \ {a} \in Good
        PROVE  T \in Good
    <2>1. SUFFICES ASSUME NEW u \in [F -> F] PROVE Through(T, u)
      OBVIOUS
    <2> DEFINE n == Cardinality(T \ {a})
               w == [i \in F |-> IF i = a THEN 0
                                 ELSE CHOOSE q \in F : mul[sub[i][a]][q] = sub[u[i]][u[a]]]
    <2>2. n \in Nat /\ Cardinality(T) = n + 1
      BY FS_Subset, FS_RemoveElement, FS_CardinalityType
    <2>3. ASSUME NEW i \in F \ {a}
          PROVE  w[i] \in F /\ mul[sub[i][a]][w[i]] = sub[u[i]][u[a]]
      <3> DEFINE d == sub[i][a]
                 e == sub[u[i]][u[a]]
      <3>1. d \in F \ {0} /\ e \in F
        BY Differences
      <3>2. \E q \in F : mul[d][q] = e
        <4> HIDE DEF d, e
        <4>1. PICK v \in F : mul[d][v] = 1
          BY <3>1 DEF IsField
        <4>2. mul[mul[d][v]][e] = mul[d][mul[v][e]]
          BY <1>1, <3>1, MonoidAssociates
        <4>3. mul[v][e] \in F /\ mul[1][e] = e
          BY <1>1, <3>1, MonoidType, MonoidNeutral
        <4> QED
          BY <4>1, <4>2, <4>3
      <3> QED
        BY <3>2
    <2>4. w \in [F -> F]
      <3>1. \A i \in F : w[i] \in F
        BY <1>1, <2>3
      <3> QED
        BY <3>1
    <2>5. \A i \in F \ {a} : mul[sub[i][a]][w[i]] = sub[u[i]][u[a]]
      BY <2>3
    <2> HIDE DEF w
    <2>6. PICK r, g : /\ IsHorner(F, add, mul, n, r, g)
                      /\ \A i \in T \ {a} : g[1][i] = w[i]
      BY <1>3, <2>4
    <2> HIDE DEF n
    <2>7. a \in F /\ u[a] \in F
      OBVIOUS
    <2>8. PICK c, h : /\ IsHorner(F, add, mul, n + 1, c, h)
                      /\ \A x \in F : h[1][x] = add[u[a]][mul[sub[x][a]][g[1][x]]]
      <3> DEFINE v == u[a]
      <3>1. v \in F
        BY <2>7
      <3> HIDE DEF v
      <3>2. \E c, h : /\ IsHorner(F, add, mul, n + 1, c, h)
                      /\ \A x \in F : h[1][x] = add[v][mul[sub[x][a]][g[1][x]]]
        BY <2>2, <2>6, <2>7, <3>1, HornerFactor
      <3> QED
        BY <3>2 DEF v
    <2>9. ASSUME NEW i \in T
          PROVE  h[1][i] = u[i]
      <3>1. CASE i = a
        <4>1. sub[a][a] = 0 /\ g[1][a] \in F
          BY <2>2, <2>6, <2>7, Differences DEF IsHorner
        <4>2. mul[0][g[1][a]] = 0 /\ add[u[a]][0] = u[a]
          BY <1>1, <2>7, <4>1, MulZero, MonoidNeutral
        <4>3. h[1][a] = add[u[a]][mul[sub[a][a]][g[1][a]]]
          BY <2>7, <2>8
        <4> QED
          BY <3>1, <4>1, <4>2, <4>3
      <3>2. CASE i # a
        <4>1. i \in F \ {a} /\ g[1][i] = w[i]
          BY <2>6, <3>2
        <4>2. h[1][i] = add[u[a]][sub[u[i]][u[a]]]
          BY <2>5, <2>8, <4>1
        <4> DEFINE p == u[i]
                   q == u[a]
                   d == sub[p][q]
        <4>3. p \in F /\ q \in F
          BY <2>7
        <4>4. d \in F /\ add[d][q] = p /\ add[q][d] = add[d][q]
          <5> HIDE DEF p, q
          <5>1. d \in F /\ add[d][q] = p
            BY <4>3, Differences
          <5> HIDE DEF d
          <5> QED
            BY <1>1, <4>3, <5>1, Commutes
        <4> QED
          BY <4>2, <4>4
      <3> QED
        BY <3>1, <3>2
    <2> QED
      BY <2>2, <2>8, <2>9
  <1>4. \A T \in SUBSET S : \A a \in T : T \ {a} \in Good => T \in Good
    BY <1>3
  <1>5. S \in Good
    <2> HIDE DEF Good
    <2> QED
      BY <1>2, <1>4, InductionOnSubsets
  <1> DEFINE u == [i \in F |-> IF i \in S THEN y[i] ELSE 0]
  <1>6. u \in [F -> F] /\ \A i \in S : u[i] = y[i]
    BY <1>1 DEF ValuesIn
  <1>7. Through(S, u)
    <2> HIDE DEF u
    <2> QED
      BY <1>5, <1>6
  <1> HIDE DEF u
  <1> QED
    BY <1>6, <1>7

----------------------------------------------------------------------------
(* The integers modulo a prime.                                            *)

LEMMA Remainders ==
  ASSUME NEW n \in Nat \ {0}, NEW a \in Int
  PROVE  /\ a % n \in 0 .. n - 1 /\ a \div n \in Int
         /\ a = n * (a \div n) + (a % n)
  OBVIOUS

LEMMA RemainderUnique ==
  ASSUME NEW n \in Nat \ {0}, NEW q \in Int, NEW r \in 0 .. n - 1
  PROVE  (n * q + r) % n = r
  OBVIOUS

LEMMA RemainderShift ==
  ASSUME NEW n \in Nat \ {0}, NEW a \in Int, NEW q \in Int
  PROVE  (a + n * q) % n = a % n
  <1> DEFINE k == a \div n
             r == a % n
  <1>1. r \in 0 .. n - 1 /\ k \in Int /\ a = n * k + r
    BY Remainders
  <1> HIDE DEF k, r
  <1>2. k + q \in Int /\ n * (k + q) = n * k + n * q
    BY <1>1
  <1>3. n * k \in Int /\ n * q \in Int /\ r \in Int /\ n * (k + q) \in Int
    BY <1>1, <1>2
  <1>4. a + n * q = n * (k + q) + r
    BY <1>1, <1>2, <1>3
  <1>5. (n * (k + q) + r) % n = r
    BY <1>1, <1>2, RemainderUnique
  <1> QED
    BY <1>4, <1>5 DEF r

LEMMA RemainderOfSum ==
  ASSUME NEW n \in Nat \ {0}, NEW a \in Int, NEW b \in Int
  PROVE  ((a % n) + b) % n = (a + b) % n
  <1> DEFINE k == a \div n
             r == a % n
  <1>1. r \in Int /\ k \in Int /\ a = n * k + r
    BY Remainders
  <1>2. r = a % n
    OBVIOUS
  <1> HIDE DEF k, r
  <1> DEFINE c == r + b
  <1>3. c \in Int
    BY <1>1
  <1>4. a + b = c + n * k
    <2>1. n * k \in Int
      BY <1>1
    <2> QED
      BY <1>1, <2>1
  <1>5. c = r + b
    OBVIOUS
  <1> HIDE DEF c
  <1>6. (c + n * k) % n = c % n
    BY <1>1, <1>3, RemainderShift
  <1> QED
    BY <1>2, <1>4, <1>5, <1>6

LEMMA RemainderOfProduct ==
  ASSUME NEW n \in Nat \ {0}, NEW a \in Int, NEW b \in Int
  PROVE  ((a % n) * b) % n = (a * b) % n
  <1> DEFINE k == a \div n
             r == a % n
  <1>1. r \in Int /\ k \in Int /\ a = n * k + r
    BY Remainders
  <1>2. r = a % n
    OBVIOUS
  <1> HIDE DEF k, r
  <1>3. k * b \in Int /\ r * b \in Int
    BY <1>1
  <1>4. a * b = r * b + n * (k * b)
    <2>1. a * b = (n * k + r) * b
      BY <1>1
    <2>2. (n * k + r) * b = r * b + n * (k * b)
      BY <1>1
    <2> QED
      BY <2>1, <2>2
  <1>5. (r * b + n * (k * b)) % n = (r * b) % n
    BY <1>3, RemainderShift
  <1> QED
    BY <1>2, <1>4, <1>5

Residues(n) == 0 .. n - 1
ModAdd(n) == [x \in Residues(n) |-> [y \in Residues(n) |-> (x + y) % n]]
ModMul(n) == [x \in Residues(n) |-> [y \in Residues(n) |-> (x * y) % n]]
ModSub(n) == [x \in Residues(n) |-> [y \in Residues(n) |-> (x - y) % n]]

LEMMA ResidueType ==
  ASSUME NEW n \in Nat \ {0}, NEW a \in Int
  PROVE  a % n \in Residues(n)
  BY Remainders DEF Residues

LEMMA ResidueIs ==
  ASSUME NEW n \in Nat \ {0}, NEW a \in Residues(n)
  PROVE  a \in Int /\ a % n = a
  <1>1. a \in 0 .. n - 1 /\ a = n * 0 + a
    BY DEF Residues
  <1>2. (n * 0 + a) % n = a
    BY <1>1, RemainderUnique
  <1> QED
    BY <1>1, <1>2

LEMMA ModAddMonoid ==
  ASSUME NEW n \in Nat \ {0}
  PROVE  Monoid(Residues(n), ModAdd(n), 0)
  <1> DEFINE F == Residues(n)
             op == ModAdd(n)
  <1>1. 0 \in F
    BY DEF Residues
  <1>2. \A x, y \in F : op[x][y] = (x + y) % n
    BY DEF ModAdd
  <1>3. \A x \in F : x \in Int
    BY ResidueIs
  <1> HIDE DEF F, op
  <1>4. \A x, y \in F : op[x][y] \in F /\ op[x][y] = op[y][x]
    <2>1. ASSUME NEW x \in F, NEW y \in F
          PROVE  op[x][y] \in F /\ op[x][y] = op[y][x]
      <3>1. x + y \in Int /\ x + y = y + x
        BY <1>3
      <3>2. (x + y) % n \in F
        BY <3>1, ResidueType DEF F
      <3> QED
        BY <1>2, <3>1, <3>2
    <2> QED
      BY <2>1
  <1>5. \A x, y, z \in F : op[op[x][y]][z] = op[x][op[y][z]]
    <2>1. ASSUME NEW x \in F, NEW y \in F, NEW z \in F
          PROVE  op[op[x][y]][z] = op[x][op[y][z]]
      <3>1. x \in Int /\ y \in Int /\ z \in Int /\ op[x][y] \in F /\ op[y][z] \in F
        BY <1>3, <1>4
      <3>2. op[op[x][y]][z] = (((x + y) % n) + z) % n
        BY <1>2, <3>1
      <3>3. op[x][op[y][z]] = (x + ((y + z) % n)) % n
        BY <1>2, <3>1
      <3>8. \A c, d \in Int : ((c % n) + d) % n = (c + d) % n
        BY RemainderOfSum
      <3>9. x + y \in Int /\ y + z \in Int
        BY <3>1
      <3>4. (((x + y) % n) + z) % n = ((x + y) + z) % n
        BY <3>1, <3>8, <3>9
      <3>5. (((y + z) % n) + x) % n = ((y + z) + x) % n
        BY <3>1, <3>8, <3>9
      <3>6. (y + z) % n \in Int
        BY <3>1, Remainders
      <3>7. x + ((y + z) % n) = ((y + z) % n) + x /\ (x + y) + z = (y + z) + x
        BY <3>1, <3>6
      <3> QED
        BY <3>2, <3>3, <3>4, <3>5, <3>7
    <2> QED
      BY <2>1
  <1>6. \A x \in F : op[0][x] = x
    <2>1. ASSUME NEW x \in F PROVE op[0][x] = x
      <3>1. x \in Int /\ x % n = x
        BY ResidueIs DEF F
      <3>2. 0 + x = x
        BY <3>1
      <3> QED
        BY <1>1, <1>2, <3>1, <3>2
    <2> QED
      BY <2>1
  <1>7. Monoid(F, op, 0)
    BY <1>1, <1>4, <1>5, <1>6 DEF Monoid
  <1> QED
    BY <1>7 DEF F, op

LEMMA ModMulMonoid ==
  ASSUME NEW n \in Nat \ {0, 1}
  PROVE  Monoid(Residues(n), ModMul(n), 1)
  <1> DEFINE F == Residues(n)
             op == ModMul(n)
  <1>0. n \in Nat \ {0}
    OBVIOUS
  <1>1. 1 \in F
    BY DEF Residues
  <1>2. \A x, y \in F : op[x][y] = (x * y) % n
    BY DEF ModMul
  <1>3. \A x \in F : x \in Int
    BY ResidueIs
  <1> HIDE DEF F, op
  <1>4. \A x, y \in F : op[x][y] \in F /\ op[x][y] = op[y][x]
    <2>1. ASSUME NEW x \in F, NEW y \in F
          PROVE  op[x][y] \in F /\ op[x][y] = op[y][x]
      <3>1. x \in Int /\ y \in Int
        BY <1>3
      <3>2. x * y \in Int /\ x * y = y * x
        BY <3>1
      <3>3. (x * y) % n \in F
        BY <3>2, ResidueType DEF F
      <3> QED
        BY <1>2, <3>2, <3>3
    <2> QED
      BY <2>1
  <1>5. \A x, y, z \in F : op[op[x][y]][z] = op[x][op[y][z]]
    <2>1. ASSUME NEW x \in F, NEW y \in F, NEW z \in F
          PROVE  op[op[x][y]][z] = op[x][op[y][z]]
      <3>1. x \in Int /\ y \in Int /\ z \in Int /\ op[x][y] \in F /\ op[y][z] \in F
        BY <1>3, <1>4
      <3>2. op[op[x][y]][z] = (((x * y) % n) * z) % n
        BY <1>2, <3>1
      <3>3. op[x][op[y][z]] = op[op[y][z]][x] /\ op[op[y][z]][x] = (((y * z) % n) * x) % n
        BY <1>2, <1>4, <3>1
      <3>4. x * y \in Int /\ y * z \in Int
        BY <3>1
      <3>5. (((x * y) % n) * z) % n = ((x * y) * z) % n
        BY <3>1, <3>4, RemainderOfProduct
      <3>6. (((y * z) % n) * x) % n = ((y * z) * x) % n
        BY <3>1, <3>4, RemainderOfProduct
      <3>7. (x * y) * z = (y * z) * x
        BY <3>1
      <3> QED
        BY <3>2, <3>3, <3>5, <3>6, <3>7
    <2> QED
      BY <2>1
  <1>6. \A x \in F : op[1][x] = x
    <2>1. ASSUME NEW x \in F PROVE op[1][x] = x
      <3>1. x \in Int /\ x % n = x
        BY <1>0, ResidueIs DEF F
      <3>2. 1 * x = x
        BY <3>1
      <3> QED
        BY <1>1, <1>2, <3>1, <3>2
    <2> QED
      BY <2>1
  <1>7. Monoid(F, op, 1)
    BY <1>1, <1>4, <1>5, <1>6 DEF Monoid
  <1> QED
    BY <1>7 DEF F, op

IsPrime(p) == p \in Nat \ {0, 1} /\ \A d \in 2 .. p - 1 : p % d # 0

\* The least number without an inverse would divide p.
LEMMA PrimeInverse ==
  ASSUME NEW p, IsPrime(p), NEW x \in 1 .. p - 1
  PROVE  \E y \in Residues(p) : (x * y) % p = 1
  <1> DEFINE Inverts(a) == \E b \in Residues(p) : (a * b) % p = 1
             Bad == {a \in 1 .. p - 1 : ~Inverts(a)}
  <1>0. p \in Nat \ {0} /\ p \in Nat \ {0, 1} /\ p >= 2
    BY DEF IsPrime
  <1>1. SUFFICES ASSUME Bad # {} PROVE FALSE
    BY <1>0
  <1>2. PICK a \in Bad : \A m \in Bad : a <= m
    <2>1. Bad \in SUBSET Nat
      BY <1>0
    <2> HIDE DEF Bad
    <2> QED
      BY <1>1, <2>1, LeastNumber
  <1>3. a \in 1 .. p - 1 /\ ~Inverts(a)
    BY <1>2
  <1>4. a # 1
    <2>1. (1 * 1) % p = 1
      <3>1. 1 \in Residues(p)
        BY <1>0 DEF Residues
      <3>2. 1 % p = 1 /\ 1 * 1 = 1
        BY <1>0, <3>1, ResidueIs
      <3> QED
        BY <3>2
    <2>2. 1 \in Residues(p)
      BY <1>0 DEF Residues
    <2> QED
      BY <1>3, <2>1, <2>2
  <1> DEFINE q == p \div a
             r == p % a
  <1>5. a \in Nat \ {0} /\ a \in Int /\ a \in 2 .. p - 1
    BY <1>0, <1>3, <1>4
  <1>6. q \in Int /\ r \in 0 .. a - 1 /\ p = a * q + r
    BY <1>0, <1>5, Remainders
  <1>7. r # 0
    BY <1>5 DEF IsPrime
  <1>8. PICK s \in Residues(p) : (r * s) % p = 1
    <2>1. r \in 1 .. p - 1 /\ r < a
      BY <1>0, <1>5, <1>6, <1>7
    <2> HIDE DEF r
    <2>2. r \notin Bad
      <3> HIDE DEF Bad
      <3>1. r \in Int /\ a \in Int
        BY <2>1, <1>5
      <3> QED
        BY <1>2, <2>1, <3>1
    <2> QED
      BY <2>1, <2>2
  <1>9. s \in Int
    BY <1>0, ResidueIs
  <1> HIDE DEF q, r, Bad, Inverts
  <1> DEFINE t == (0 - q) * s
  <1>10. t \in Int /\ r * s \in Int /\ a * t \in Int
    BY <1>5, <1>6, <1>9
  <1>11. a * t = r * s + p * (0 - s)
    <2>1. r \in Int
      BY <1>5, <1>6
    <2>2. a * ((0 - q) * s) = r * s + (a * q + r) * (0 - s)
      BY <1>5, <1>6, <1>9, <2>1
    <2> QED
      BY <1>6, <2>2
  <1>12. (a * t) % p = 1
    <2>1. 0 - s \in Int
      BY <1>9
    <2>2. (r * s + p * (0 - s)) % p = (r * s) % p
      BY <1>0, <1>10, <2>1, RemainderShift
    <2> HIDE DEF t
    <2> QED
      BY <1>8, <1>11, <2>2
  <1> HIDE DEF t
  <1>13. ((t % p) * a) % p = 1
    <2>1. ((t % p) * a) % p = (t * a) % p
      BY <1>0, <1>5, <1>10, RemainderOfProduct
    <2>2. t * a = a * t
      BY <1>5, <1>10
    <2> QED
      BY <1>12, <2>1, <2>2
  <1>14. t % p \in Residues(p)
    BY <1>0, <1>10, ResidueType
  <1>15. t % p \in Int
    BY <1>0, <1>14, ResidueIs
  <1>16. (a * (t % p)) % p = 1
    <2>1. (t % p) * a = a * (t % p)
      BY <1>5, <1>15
    <2> QED
      BY <1>13, <2>1
  <1> QED
    BY <1>3, <1>14, <1>16 DEF Inverts

LEMMA PrimeField ==
  ASSUME NEW p, IsPrime(p)
  PROVE  IsField(Residues(p), ModAdd(p), ModMul(p), ModSub(p))
  <1> DEFINE F == Residues(p)
             add == ModAdd(p)
             mul == ModMul(p)
             sub == ModSub(p)
  <1>1. p \in Nat \ {0} /\ p \in Nat \ {0, 1}
    BY DEF IsPrime
  <1>2. \A x \in F : x \in Int
    BY <1>1, ResidueIs
  <1>3. \A x, y \in F : add[x][y] = (x + y) % p /\ mul[x][y] = (x * y) % p
                        /\ sub[x][y] = (x - y) % p
    BY DEF ModAdd, ModMul, ModSub
  <1>4. Monoid(F, add, 0) /\ Monoid(F, mul, 1)
    BY <1>1, ModAddMonoid, ModMulMonoid
  <1>5. \A x, y \in F : add[x][y] \in F /\ mul[x][y] \in F
    BY <1>4 DEF Monoid
  <1>6. F = Residues(p)
    OBVIOUS
  <1> HIDE DEF F, add, mul, sub
  <1>7. ASSUME NEW x \in F, NEW y \in F, NEW z \in F
        PROVE  mul[x][add[y][z]] = add[mul[x][y]][mul[x][z]]
    <2>1. x \in Int /\ y \in Int /\ z \in Int
      BY <1>2
    <2>2. mul[x][add[y][z]] = mul[add[y][z]][x]
      BY <1>4, <1>5 DEF Monoid
    <2>3. mul[add[y][z]][x] = (((y + z) % p) * x) % p
      BY <1>3, <1>5
    <2>11. \A c, d \in Int : ((c % p) * d) % p = (c * d) % p
      BY <1>1, RemainderOfProduct
    <2>12. y + z \in Int
      BY <2>1
    <2>4. (((y + z) % p) * x) % p = ((y + z) * x) % p
      BY <2>1, <2>11, <2>12
    <2> DEFINE a == x * y
               b == x * z
    <2>5. a \in Int /\ b \in Int /\ (y + z) * x = a + b
      BY <2>1
    <2>6. add[mul[x][y]][mul[x][z]] = ((a % p) + (b % p)) % p
      BY <1>3, <1>5
    <2> HIDE DEF a, b
    <2>7. b % p \in Int /\ a % p \in Int
      BY <1>1, <2>5, Remainders
    <2>8. ((a % p) + (b % p)) % p = (a + (b % p)) % p
      BY <1>1, <2>5, <2>7, RemainderOfSum
    <2>9. ((b % p) + a) % p = (b + a) % p
      BY <1>1, <2>5, RemainderOfSum
    <2>10. a + (b % p) = (b % p) + a /\ a + b = b + a
      BY <2>5, <2>7
    <2> QED
      BY <2>2, <2>3, <2>4, <2>5, <2>6, <2>8, <2>9, <2>10
  <1>8. ASSUME NEW x \in F, NEW y \in F
        PROVE  sub[x][y] \in F /\ add[sub[x][y]][y] = x
    <2>1. x \in Int /\ y \in Int /\ x - y \in Int
      BY <1>2
    <2>2. (x - y) % p \in F
      BY <1>1, <1>6, <2>1, ResidueType
    <2>3. add[sub[x][y]][y] = (((x - y) % p) + y) % p
      BY <1>3, <2>2
    <2>4. (((x - y) % p) + y) % p = ((x - y) + y) % p
      BY <1>1, <2>1, RemainderOfSum
    <2>5. (x - y) + y = x
      BY <2>1
    <2>6. x % p = x
      BY <1>1, <1>6, ResidueIs
    <2> QED
      BY <1>3, <2>2, <2>3, <2>4, <2>5, <2>6
  <1>9. ASSUME NEW x \in F \ {0}
        PROVE  \E y \in F : mul[x][y] = 1
    <2>1. x \in 1 .. p - 1
      BY <1>1, <1>6 DEF Residues
    <2>2. PICK y \in Residues(p) : (x * y) % p = 1
      BY <2>1, PrimeInverse
    <2> QED
      BY <1>3, <1>6, <2>2
  <1>10. IsField(F, add, mul, sub)
    BY <1>4, <1>7, <1>8, <1>9 DEF IsField
  <1> QED
    BY <1>10 DEF F, add, mul, sub

----------------------------------------------------------------------------
(* Powers.                                                                 *)

IsPowers(F, op, e, x, pow) ==
  /\ pow \in [Nat -> F]
  /\ pow[0] = e
  /\ \A n \in Nat : pow[n + 1] = op[x][pow[n]]

Powers(F, op, e, x) == CHOOSE pow : IsPowers(F, op, e, x, pow)

LEMMA PowersExist ==
  ASSUME NEW F, NEW op, NEW e, Monoid(F, op, e), NEW x \in F
  PROVE  IsPowers(F, op, e, x, Powers(F, op, e, x))
  <1> DEFINE rank   == [n \in Nat |-> n]
             before == [n \in Nat |-> n - 1]
             start  == [n \in Nat |-> e]
             step   == [n \in Nat |-> [v \in F |-> op[x][v]]]
  <1>1. rank \in [Nat -> Nat] /\ Founded(Nat, {0}, rank, before)
    BY DEF Founded
  <1>2. /\ \A n \in Nat \cap {0} : start[n] \in F
        /\ \A n \in Nat \ {0} : step[n] \in [F -> F]
    <2>1. e \in F /\ \A v \in F : op[x][v] \in F
      BY DEF Monoid
    <2> QED
      BY <2>1
  <1>3. \E it \in [Nat -> F] : Recurs(it, Nat, {0}, before, start, step)
    <2> HIDE DEF rank, before, start, step
    <2> QED
      BY <1>1, <1>2, RecursionExists
  <1>4. PICK pow \in [Nat -> F] : Recurs(pow, Nat, {0}, before, start, step)
    BY <1>3
  <1>5. IsPowers(F, op, e, x, pow)
    <2>1. pow[0] = e
      BY <1>4 DEF Recurs
    <2>2. ASSUME NEW n \in Nat PROVE pow[n + 1] = op[x][pow[n]]
      <3>1. n + 1 \in Nat /\ n + 1 \notin {0} /\ (n + 1) - 1 = n /\ pow[n] \in F
        OBVIOUS
      <3>2. pow[n + 1] = step[n + 1][pow[before[n + 1]]]
        BY <1>4, <3>1 DEF Recurs
      <3> QED
        BY <3>1, <3>2
    <2> QED
      BY <2>1, <2>2 DEF IsPowers
  <1> QED
    BY <1>5 DEF Powers

LEMMA PowersAre ==
  ASSUME NEW F, NEW op, NEW e, Monoid(F, op, e), NEW x \in F
  PROVE  /\ Powers(F, op, e, x)[0] = e
         /\ \A n \in Nat : /\ Powers(F, op, e, x)[n] \in F
                           /\ Powers(F, op, e, x)[n + 1] = op[x][Powers(F, op, e, x)[n]]
  BY PowersExist DEF IsPowers

\* Squaring halves the exponent.
LEMMA PowersOfSquare ==
  ASSUME NEW F, NEW op, NEW e, Monoid(F, op, e), NEW x \in F, NEW n \in Nat
  PROVE  Powers(F, op, e, op[x][x])[n] = Powers(F, op, e, x)[2 * n]
  <1> DEFINE s    == op[x][x]
             P    == Powers(F, op, e, x)
             Q    == Powers(F, op, e, s)
             Good == {k \in Nat : Q[k] = P[2 * k]}
  <1>1. s \in F /\ s = op[x][x]
    BY MonoidType
  <1> HIDE DEF s
  <1>2. IsPowers(F, op, e, x, P) /\ IsPowers(F, op, e, s, Q)
    BY <1>1, PowersExist
  <1> HIDE DEF P, Q
  <1>3. 0 \in Good
    <2>1. 2 * 0 = 0
      OBVIOUS
    <2> QED
      BY <1>2, <2>1 DEF IsPowers
  <1>4. ASSUME NEW k \in Nat, k \in Good PROVE k + 1 \in Good
    <2> DEFINE m == 2 * k
    <2>1. m \in Nat /\ m + 1 \in Nat /\ 2 * (k + 1) = (m + 1) + 1
      OBVIOUS
    <2>2. Q[k] = P[m]
      BY <1>4
    <2> HIDE DEF m
    <2>3. P[m] \in F /\ P[m + 1] = op[x][P[m]] /\ P[(m + 1) + 1] = op[x][P[m + 1]]
      BY <1>2, <2>1 DEF IsPowers
    <2>4. Q[k + 1] = op[s][Q[k]]
      BY <1>2 DEF IsPowers
    <2>5. op[op[x][x]][P[m]] = op[x][op[x][P[m]]]
      BY <2>3, MonoidAssociates
    <2> QED
      BY <1>1, <2>1, <2>2, <2>3, <2>4, <2>5
  <1>5. \A k \in Nat : k \in Good => k + 1 \in Good
    BY <1>4
  <1>6. Nat \subseteq Good
    <2> HIDE DEF Good
    <2> QED
      BY <1>3, <1>5, InductionOnNat
  <1> QED
    BY <1>6 DEF s, P, Q

\* The fold of a constant.
LEMMA FoldConstant ==
  ASSUME NEW F, NEW op, NEW e, Monoid(F, op, e), NEW S, IsFiniteSet(S),
         NEW x \in F, NEW f, \A i \in S : f[i] = x
  PROVE  Fold(op, e, f, S) = Powers(F, op, e, x)[Cardinality(S)]
  <1> DEFINE P    == Powers(F, op, e, x)
             Good == {T \in SUBSET S : Fold(op, e, f, T) = P[Cardinality(T)]}
  <1>1. Stepwise(F, op, e, f, S)
    <2>1. ValuesIn(F, f, S)
      BY DEF ValuesIn
    <2> QED
      BY <2>1, FoldSteps
  <1>2. IsPowers(F, op, e, x, P)
    BY PowersExist
  <1> HIDE DEF P
  <1>3. {} \in Good
    BY <1>1, <1>2, FS_EmptySet DEF Stepwise, IsPowers
  <1>4. ASSUME NEW T \in SUBSET S, NEW i \in T, T \ {i} \in Good
        PROVE  T \in Good
    <2> DEFINE n == Cardinality(T \ {i})
    <2>2. n \in Nat /\ Cardinality(T) = n + 1
      <3>1. IsFiniteSet(T) /\ IsFiniteSet(T \ {i})
        BY FS_Subset
      <3>2. Cardinality(T) \in Nat /\ n \in Nat
        BY <3>1, FS_CardinalityType
      <3>3. n = Cardinality(T) - 1
        BY <3>1, FS_RemoveElement
      <3> QED
        BY <3>2, <3>3
    <2>3. Fold(op, e, f, T \ {i}) = P[n]
      BY <1>4
    <2> HIDE DEF n
    <2>4. Fold(op, e, f, T) = op[f[i]][Fold(op, e, f, T \ {i})]
      BY <1>1 DEF Stepwise
    <2>5. P[n + 1] = op[x][P[n]]
      BY <1>2, <2>2 DEF IsPowers
    <2> QED
      BY <2>2, <2>3, <2>4, <2>5
  <1>5. \A T \in SUBSET S : \A i \in T : T \ {i} \in Good => T \in Good
    BY <1>4
  <1>6. S \in Good
    <2> HIDE DEF Good
    <2> QED
      BY <1>3, <1>5, InductionOnSubsets
  <1> QED
    BY <1>6 DEF P

\* Fermat: multiplication by x permutes the elements other than 0.
LEMMA Fermat ==
  ASSUME NEW F, NEW add, NEW mul, NEW sub, IsField(F, add, mul, sub), IsFiniteSet(F),
         NEW x \in F \ {0}
  PROVE  Powers(F, mul, 1, x)[Cardinality(F \ {0})] = 1
  <1> DEFINE U  == F \ {0}
             pi == [y \in U |-> mul[x][y]]
             c  == [y \in U |-> x]
  <1>1. Monoid(F, mul, 1) /\ 1 \in F /\ IsFiniteSet(U) /\ x \in F
    BY FieldMonoids, FS_Subset
  <1>2. \A y \in U : mul[x][y] \in U
    BY NoZeroDivisors
  <1>3. \A y, z \in U : mul[x][y] = mul[x][z] => y = z
    <2>1. ASSUME NEW y \in U, NEW z \in U, mul[x][y] = mul[x][z]
          PROVE  y = z
      <3>1. mul[y][x] = mul[z][x] /\ y \in F /\ z \in F
        BY <1>1, <2>1, Commutes
      <3> QED
        BY <3>1, MulCancel
    <2> QED
      BY <2>1
  <1>4. \A z \in U : \E y \in U : mul[x][y] = z
    <2>1. SUFFICES ASSUME NEW z \in U PROVE \E y \in U : mul[x][y] = z
      OBVIOUS
    <2>2. PICK v \in F : mul[x][v] = 1
      BY DEF IsField
    <2>3. mul[mul[x][v]][z] = mul[x][mul[v][z]]
      BY <1>1, MonoidAssociates
    <2>4. mul[1][z] = z /\ mul[v][z] \in F
      BY <1>1, MonoidNeutral, MonoidType
    <2>5. mul[x][0] = 0
      BY MulZero
    <2>6. mul[v][z] \in U /\ mul[x][mul[v][z]] = z
      BY <2>2, <2>3, <2>4, <2>5
    <2> QED
      BY <2>6
  <1>5. pi \in Bijection(U, U)
    BY <1>2, <1>3, <1>4 DEF Bijection, Injection, Surjection, IsInjective
  <1>6. /\ ValuesIn(F, Point(F), U) /\ ValuesIn(F, c, U)
        /\ ValuesIn(F \ {0}, Point(F), U)
        /\ \A y \in U : c[y] = x
        /\ \A y \in U : pi[y] = mul[c[y]][Point(F)[y]]
        /\ \A y \in U : pi[y] = Point(F)[pi[y]]
    BY <1>2 DEF ValuesIn, Point
  <1> DEFINE P == Fold(mul, 1, Point(F), U)
             C == Fold(mul, 1, c, U)
  <1> HIDE DEF U, pi, c
  <1>7. Fold(mul, 1, pi, U) = P
    BY <1>1, <1>5, <1>6, FoldReindexed
  <1>8. Fold(mul, 1, pi, U) = mul[C][P]
    BY <1>1, <1>6, FoldOfBoth
  <1>9. C = Powers(F, mul, 1, x)[Cardinality(U)]
    BY <1>1, <1>6, FoldConstant
  <1>10. P \in F \ {0} /\ C \in F
    BY <1>1, <1>6, NonzeroProduct, FoldType
  <1> HIDE DEF P, C
  <1>11. mul[C][P] = mul[1][P]
    BY <1>1, <1>7, <1>8, <1>10, MonoidNeutral
  <1>12. C = 1
    BY <1>1, <1>10, <1>11, MulCancel
  <1> QED
    BY <1>9, <1>12 DEF U
=============================================================================
