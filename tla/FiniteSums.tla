------------------------------ MODULE FiniteSums ------------------------------
(***************************************************************************)
(* Facts about finite sets, about bags, and about SumFunction, the sum of a *)
(* function's values over its domain, and sums over parts of it and by key, *)
(* for the proofs of this project.                                          *)
(*                                                                          *)
(* The library's induction theorems take an operator as a parameter.  Here  *)
(* induction is stated over a set G of the subsets for which something      *)
(* holds, which the provers can instantiate.                                *)
(***************************************************************************)
EXTENDS Integers, Bags, Functions, FiniteSetTheorems, WellFoundedInduction, TLAPS

\* A set G of subsets of D that holds a set as soon as it holds every smaller one
\* holds them all.
THEOREM SmallerFirst ==
    ASSUME NEW D, IsFiniteSet(D), NEW G,
           \A T \in SUBSET D : (\A U \in SUBSET T : U # T => U \in G) => T \in G
    PROVE  SUBSET D \subseteq G
  <1> DEFINE Bad     == (SUBSET D) \ G
             Smaller == StrictSubsetOrdering(D)
  <1> SUFFICES ASSUME Bad # {} PROVE FALSE
    OBVIOUS
  <1>1. IsWellFoundedOn(Smaller, SUBSET D)
    <2>1. IsWellFoundedOn(Smaller, FiniteSubsetsOf(D))
      BY FS_StrictSubsetOrderingWellFounded
    <2>2. FiniteSubsetsOf(D) = SUBSET D
      BY FS_FiniteSubsetsOfFinite
    <2>3. QED
      BY <2>1, <2>2
  <1>2. PICK T \in Bad : \A U \in Bad : <<U, T>> \notin Smaller
    <2>1. Bad \subseteq SUBSET D
      OBVIOUS
    <2> HIDE DEF Bad, Smaller
    <2>2. QED
      BY <1>1, <2>1, WFMin
  <1>3. ASSUME NEW U \in SUBSET T, U # T PROVE U \in G
    <2>1. U \in SUBSET D
      OBVIOUS
    <2>2. <<U, T>> \in Smaller
      BY <1>3, <2>1 DEF StrictSubsetOrdering
    <2>3. QED
      BY <1>2, <2>1, <2>2
  <1>4. T \in SUBSET D /\ T \notin G
    OBVIOUS
  <1>5. QED
    BY <1>3, <1>4

\* So does one that holds {} and, with a set, that set and one member more.
THEOREM SubsetInduction ==
    ASSUME NEW D, IsFiniteSet(D), NEW G,
           {} \in G,
           \A T \in SUBSET D, x \in D : T \in G /\ x \notin T => T \cup {x} \in G
    PROVE  SUBSET D \subseteq G
  <1>1. ASSUME NEW T \in SUBSET D, \A U \in SUBSET T : U # T => U \in G
        PROVE  T \in G
    <2>1. CASE T = {}
      BY <2>1
    <2>2. CASE T # {}
      <3>1. PICK t \in T : TRUE
        BY <2>2
      <3>2. PICK U : U = T \ {t}
        OBVIOUS
      <3>3. U \in SUBSET D /\ t \in D /\ t \notin U /\ T = U \cup {t}
        BY <3>1, <3>2
      <3>4. U \in G
        BY <1>1, <3>2, <3>3
      <3>5. QED
        BY <3>3, <3>4
    <2>3. QED
      BY <2>1, <2>2
  <1>2. QED
    BY <1>1, SmallerFirst

\* A finite set that is ordered linearly by a set of pairs has a first member.
THEOREM FirstOfAFiniteSet ==
    ASSUME NEW S, IsFiniteSet(S), S # {}, NEW L,
           \A x, y \in S : <<x, y>> \in L \/ <<y, x>> \in L,
           \A x, y, z \in S : <<x, y>> \in L /\ <<y, z>> \in L => <<x, z>> \in L
    PROVE  \E x \in S : \A y \in S : <<x, y>> \in L
  <1> DEFINE First(T) == \E x \in T : \A y \in T : <<x, y>> \in L
             G == {T \in SUBSET S : T = {} \/ First(T)}
  <1>1. {} \in G
    OBVIOUS
  <1>2. ASSUME NEW T \in SUBSET S, NEW t \in S, T \in G, t \notin T
        PROVE  T \cup {t} \in G
    <2>1. <<t, t>> \in L
      OBVIOUS
    <2>2. CASE T = {}
      BY <2>1, <2>2
    <2>3. CASE First(T)
      <3>1. PICK x \in T : \A y \in T : <<x, y>> \in L
        BY <2>3
      <3>2. CASE <<x, t>> \in L
        BY <3>1, <3>2
      <3>3. CASE <<t, x>> \in L
        <4>1. \A y \in T \cup {t} : <<t, y>> \in L
          BY <2>1, <3>1, <3>3
        <4>2. QED
          BY <4>1
      <3>4. QED
        BY <3>1, <3>2, <3>3
    <2>4. QED
      BY <1>2, <2>2, <2>3
  <1>3. SUBSET S \subseteq G
    <2> HIDE DEF G
    <2>1. QED
      BY <1>1, <1>2, SubsetInduction
  <1>4. QED
    BY <1>3

-----------------------------------------------------------------------------
(* What SumFunction computes.                                               *)

pick(s) == CHOOSE x \in s : TRUE

\* it tells the sum of f over every subset of T.
Sums(f, T, it) ==
    /\ it \in [SUBSET T -> Int]
    /\ \A s \in SUBSET T : it[s] = IF s = {} THEN 0 ELSE f[pick(s)] + it[s \ {pick(s)}]

\* Functions with a finite domain and integers as values.
Summable(f) == IsFiniteSet(DOMAIN f) /\ \A x \in DOMAIN f : f[x] \in Int

LEMMA PickOne ==
    ASSUME NEW s, s # {}
    PROVE  pick(s) \in s
  BY DEF pick

\* The sums over the subsets of a set are determined.
LEMMA SumsUnique ==
    ASSUME NEW f, NEW S, NEW T, NEW g, NEW h, Sums(f, S, g), Sums(f, T, h),
           NEW U, U \subseteq S, U \subseteq T, IsFiniteSet(U)
    PROVE  g[U] = h[U]
  <1> DEFINE Equal == {V \in SUBSET U : g[V] = h[V]}
  <1>1. ASSUME NEW V \in SUBSET U, \A W \in SUBSET V : W # V => W \in Equal
        PROVE  V \in Equal
    <2>1. CASE V = {}
      BY <2>1 DEF Sums
    <2>2. CASE V # {}
      <3>1. pick(V) \in V
        BY <2>2, PickOne
      <3>2. g[V \ {pick(V)}] = h[V \ {pick(V)}]
        BY <1>1, <3>1
      <3>3. V \in SUBSET S /\ V \in SUBSET T
        OBVIOUS
      <3>4. g[V] = f[pick(V)] + g[V \ {pick(V)}] /\ h[V] = f[pick(V)] + h[V \ {pick(V)}]
        BY <2>2, <3>3 DEF Sums
      <3>5. QED
        BY <3>2, <3>4
    <2>3. QED
      BY <2>1, <2>2
  <1>2. SUBSET U \subseteq Equal
    <2> HIDE DEF Equal
    <2>1. QED
      BY <1>1, SmallerFirst
  <1>3. QED
    BY <1>2

\* Every finite set has its sums.
LEMMA SumsExist ==
    ASSUME NEW f, Summable(f)
    PROVE  \A T \in SUBSET DOMAIN f : \E it : Sums(f, T, it)
  <1> DEFINE Good == {T \in SUBSET DOMAIN f : \E it : Sums(f, T, it)}
  <1>1. ASSUME NEW T \in SUBSET DOMAIN f, \A U \in SUBSET T : U # T => U \in Good
        PROVE  T \in Good
    <2>1. PICK own : own = [U \in SUBSET T |-> CHOOSE it : Sums(f, U, it)]
      OBVIOUS
    <2>2. ASSUME NEW U \in SUBSET T, U # T PROVE Sums(f, U, own[U])
      BY <1>1, <2>1, <2>2
    <2>3. PICK it : it = [U \in SUBSET T |->
                            IF U = {} THEN 0
                            ELSE f[pick(U)] + own[U \ {pick(U)}][U \ {pick(U)}]]
      OBVIOUS
    <2>4. ASSUME NEW U \in SUBSET T, U # {}
          PROVE  /\ pick(U) \in U /\ U \ {pick(U)} \in SUBSET T
                 /\ U \ {pick(U)} # U /\ U \ {pick(U)} # T
      BY <2>4, PickOne
    <2>5. ASSUME NEW U \in SUBSET T, U # T PROVE it[U] = own[U][U]
      <3>1. CASE U = {}
        BY <2>2, <2>3, <2>5, <3>1 DEF Sums
      <3>2. CASE U # {}
        <4>1. PICK V : V = U \ {pick(U)}
          OBVIOUS
        <4>2. V \in SUBSET T /\ V # T /\ V \subseteq U
          BY <2>4, <3>2, <4>1
        <4>3. IsFiniteSet(V)
          BY <4>2, FS_Subset DEF Summable
        <4>4. own[U][V] = own[V][V]
          BY <2>2, <2>5, <4>2, <4>3, SumsUnique
        <4>5. own[U][U] = f[pick(U)] + own[U][V]
          BY <2>2, <2>5, <3>2, <4>1 DEF Sums
        <4>6. it[U] = f[pick(U)] + own[V][V]
          BY <2>3, <3>2, <4>1
        <4>7. QED
          BY <4>4, <4>5, <4>6
      <3>3. QED
        BY <3>1, <3>2
    <2>6. ASSUME NEW U \in SUBSET T
          PROVE  it[U] = IF U = {} THEN 0 ELSE f[pick(U)] + it[U \ {pick(U)}]
      BY <2>3, <2>4, <2>5
    <2>7. ASSUME NEW U \in SUBSET T PROVE it[U] \in Int
      <3>1. CASE U = {}
        BY <2>3, <3>1
      <3>2. CASE U # {}
        <4>1. PICK V : V = U \ {pick(U)}
          OBVIOUS
        <4>2. V \in SUBSET T /\ V # T /\ pick(U) \in DOMAIN f
          BY <2>4, <3>2, <4>1
        <4>3. own[V][V] \in Int
          <5>1. Sums(f, V, own[V])
            BY <2>2, <4>2
          <5>2. own[V] \in [SUBSET V -> Int]
            BY <5>1 DEF Sums
          <5>3. QED
            BY <5>2
        <4>4. f[pick(U)] \in Int
          BY <4>2 DEF Summable
        <4>5. it[U] = f[pick(U)] + own[V][V]
          BY <2>3, <3>2, <4>1
        <4>6. QED
          BY <4>3, <4>4, <4>5
      <3>3. QED
        BY <3>1, <3>2
    <2>8. Sums(f, T, it)
      BY <2>3, <2>6, <2>7 DEF Sums
    <2>9. QED
      BY <2>8
  <1>2. SUBSET DOMAIN f \subseteq Good
    <2>1. IsFiniteSet(DOMAIN f)
      BY DEF Summable
    <2> HIDE DEF Good
    <2>2. QED
      BY <1>1, <2>1, SmallerFirst, SMTT(30)
  <1>3. QED
    BY <1>2

\* The function f without x in its domain.
Without(f, x) == [y \in (DOMAIN f) \ {x} |-> f[y]]

LEMMA SumDefinition ==
    ASSUME NEW f
    PROVE  SumFunction(f) =
             (CHOOSE it : it = [s \in SUBSET DOMAIN f |->
                  IF s = {} THEN 0 ELSE f[pick(s)] + it[s \ {pick(s)}]])[DOMAIN f]
  BY DEF SumFunction, SumFunctionOnSet, FoldFunctionOnSet, MapThenFoldSet, pick

\* SumFunction is the sum over the whole domain.
LEMMA SumIsOne ==
    ASSUME NEW f, Summable(f)
    PROVE  \E it : Sums(f, DOMAIN f, it) /\ SumFunction(f) = it[DOMAIN f]
  <1> DEFINE Rec(it) == it = [s \in SUBSET DOMAIN f |->
                                IF s = {} THEN 0 ELSE f[pick(s)] + it[s \ {pick(s)}]]
  <1>1. PICK g : Sums(f, DOMAIN f, g)
    BY SumsExist
  <1>2. Rec(g)
    BY <1>1 DEF Sums
  <1>3. PICK it : it = CHOOSE h : Rec(h)
    OBVIOUS
  <1>4. Rec(it)
    BY <1>2, <1>3
  <1>5. SumFunction(f) = it[DOMAIN f]
    BY <1>3, SumDefinition
  <1>6. it = g
    <2> DEFINE Equal == {V \in SUBSET DOMAIN f : it[V] = g[V]}
    <2>1. ASSUME NEW V \in SUBSET DOMAIN f, \A W \in SUBSET V : W # V => W \in Equal
          PROVE  V \in Equal
      <3>1. CASE V = {}
        BY <1>2, <1>4, <3>1
      <3>2. CASE V # {}
        <4>1. pick(V) \in V
          BY <3>2, PickOne
        <4>2. it[V \ {pick(V)}] = g[V \ {pick(V)}]
          BY <2>1, <4>1
        <4>3. QED
          BY <1>2, <1>4, <3>2, <4>2
      <3>3. QED
        BY <3>1, <3>2
    <2>2. SUBSET DOMAIN f \subseteq Equal
      <3>1. IsFiniteSet(DOMAIN f)
        BY DEF Summable
      <3> HIDE DEF Equal
      <3>2. QED
        BY <2>1, <3>1, SmallerFirst, SMTT(30)
    <2>3. \A V \in SUBSET DOMAIN f : it[V] = g[V]
      BY <2>2
    <2>4. QED
      BY <1>2, <1>4, <2>3
  <1>7. QED
    BY <1>1, <1>5, <1>6

\* A sum of integers is an integer; the empty sum is 0.
THEOREM SumIsInt ==
    ASSUME NEW f, Summable(f)
    PROVE  /\ SumFunction(f) \in Int
           /\ DOMAIN f = {} => SumFunction(f) = 0
  <1>1. PICK it : Sums(f, DOMAIN f, it) /\ SumFunction(f) = it[DOMAIN f]
    BY SumIsOne
  <1>2. it[DOMAIN f] \in Int /\ (DOMAIN f = {} => it[DOMAIN f] = 0)
    BY <1>1 DEF Sums
  <1>3. QED
    BY <1>1, <1>2

\* The sum over a subset is the sum of the function restricted to it.
LEMMA SumOfPart ==
    ASSUME NEW f, Summable(f), NEW T, NEW it, Sums(f, T, it), T \subseteq DOMAIN f,
           NEW U, U \subseteq T
    PROVE  SumFunction([y \in U |-> f[y]]) = it[U]
  <1>1. PICK g : g = [y \in U |-> f[y]]
    OBVIOUS
  <1>2. Summable(g) /\ DOMAIN g = U
    BY <1>1, FS_Subset DEF Summable
  <1>3. PICK h : Sums(g, U, h) /\ SumFunction(g) = h[U]
    BY <1>2, SumIsOne
  <1>4. Sums(f, U, h)
    <2>1. ASSUME NEW s \in SUBSET U, s # {} PROVE g[pick(s)] = f[pick(s)]
      BY <1>1, <2>1, PickOne
    <2>2. QED
      BY <1>3, <2>1 DEF Sums
  <1>5. QED
    BY <1>1, <1>2, <1>3, <1>4, SumsUnique DEF Summable

LEMMA WithoutIsSummable ==
    ASSUME NEW f, Summable(f), NEW x
    PROVE  Summable(Without(f, x)) /\ DOMAIN Without(f, x) = (DOMAIN f) \ {x}
  <1>1. DOMAIN Without(f, x) = (DOMAIN f) \ {x}
    BY DEF Without
  <1>2. IsFiniteSet((DOMAIN f) \ {x})
    BY FS_Subset DEF Summable
  <1>3. QED
    BY <1>1, <1>2 DEF Summable, Without

\* A sum is any one value plus the sum of the others.
THEOREM SumSplits ==
    ASSUME NEW f, Summable(f), NEW x \in DOMAIN f
    PROVE  SumFunction(f) = f[x] + SumFunction(Without(f, x))
  <1>1. PICK it : Sums(f, DOMAIN f, it) /\ SumFunction(f) = it[DOMAIN f]
    BY SumIsOne
  <1> DEFINE Good == {T \in SUBSET DOMAIN f : \A y \in T : it[T] = f[y] + it[T \ {y}]}
  <1>2. ASSUME NEW T \in SUBSET DOMAIN f, \A U \in SUBSET T : U # T => U \in Good
        PROVE  T \in Good
    <2> SUFFICES ASSUME NEW y \in T PROVE it[T] = f[y] + it[T \ {y}]
      OBVIOUS
    <2>1. PICK p : p = pick(T)
      OBVIOUS
    <2>2. p \in T /\ it[T] = f[p] + it[T \ {p}]
      BY <1>1, <2>1, PickOne DEF Sums
    <2>3. CASE y = p
      BY <2>2, <2>3
    <2>4. CASE y # p
      <3>1. PICK V : V = T \ {p, y}
        OBVIOUS
      <3>2. V = (T \ {p}) \ {y} /\ V = (T \ {y}) \ {p}
        BY <3>1
      <3>3. it[T \ {p}] = f[y] + it[V]
        <4>1. T \ {p} \in Good
          BY <1>2, <2>2
        <4>2. QED
          BY <2>4, <3>2, <4>1
      <3>4. it[T \ {y}] = f[p] + it[V]
        <4>1. T \ {y} \in Good
          BY <1>2
        <4>2. QED
          BY <2>2, <2>4, <3>2, <4>1
      <3>5. f[p] \in Int /\ f[y] \in Int /\ it[V] \in Int
        BY <1>1, <2>2, <3>1 DEF Sums, Summable
      <3>6. QED
        BY <2>2, <3>3, <3>4, <3>5
    <2>5. QED
      BY <2>3, <2>4
  <1>3. SUBSET DOMAIN f \subseteq Good
    <2>1. IsFiniteSet(DOMAIN f)
      BY DEF Summable
    <2> HIDE DEF Good
    <2>2. QED
      BY <1>2, <2>1, SmallerFirst
  <1>4. it[DOMAIN f] = f[x] + it[(DOMAIN f) \ {x}]
    BY <1>3
  <1>5. SumFunction(Without(f, x)) = it[(DOMAIN f) \ {x}]
    BY <1>1, SumOfPart DEF Without
  <1>6. QED
    BY <1>1, <1>4, <1>5

\* One value changes, the sum changes by as much.
THEOREM SumExcept ==
    ASSUME NEW f, Summable(f), NEW x \in DOMAIN f, NEW v \in Int
    PROVE  SumFunction([f EXCEPT ![x] = v]) = SumFunction(f) - f[x] + v
  <1>1. PICK g : g = [f EXCEPT ![x] = v]
    OBVIOUS
  <1>2. DOMAIN g = DOMAIN f /\ g[x] = v /\ \A y \in (DOMAIN f) \ {x} : g[y] = f[y]
    BY <1>1
  <1>3. Summable(g)
    BY <1>2 DEF Summable
  <1>4. Without(g, x) = Without(f, x)
    BY <1>2 DEF Without
  <1>5. SumFunction(g) = v + SumFunction(Without(f, x))
    BY <1>2, <1>3, <1>4, SumSplits
  <1>6. SumFunction(f) = f[x] + SumFunction(Without(f, x))
    BY SumSplits
  <1>7. f[x] \in Int /\ SumFunction(Without(f, x)) \in Int
    BY WithoutIsSummable, SumIsInt DEF Summable
  <1>8. QED
    BY <1>1, <1>5, <1>6, <1>7

\* A sum over two sets that share nothing is the sum of the two sums.
THEOREM SumOfUnion ==
    ASSUME NEW f, Summable(f), NEW A, NEW B, DOMAIN f = A \cup B, A \cap B = {}
    PROVE  SumFunction(f) = SumFunction([x \in A |-> f[x]]) + SumFunction([x \in B |-> f[x]])
  <1>1. PICK it : Sums(f, DOMAIN f, it) /\ SumFunction(f) = it[DOMAIN f]
    BY SumIsOne
  <1>2. \A U \in SUBSET DOMAIN f : SumFunction([x \in U |-> f[x]]) = it[U] /\ it[U] \in Int
    <2> TAKE U \in SUBSET DOMAIN f
    <2>1. SumFunction([x \in U |-> f[x]]) = it[U]
      BY <1>1, SumOfPart
    <2>2. it[U] \in Int
      BY <1>1 DEF Sums
    <2>3. QED
      BY <2>1, <2>2
  <1>3. ASSUME NEW U \in SUBSET DOMAIN f, NEW x \in DOMAIN f, x \notin U
        PROVE  it[U \cup {x}] = f[x] + it[U]
    <2>1. PICK g : g = [y \in U \cup {x} |-> f[y]]
      OBVIOUS
    <2>2. Summable(g) /\ g[x] = f[x] /\ x \in DOMAIN g
      BY <2>1, FS_Subset DEF Summable
    <2>3. Without(g, x) = [y \in U |-> f[y]]
      BY <1>3, <2>1 DEF Without
    <2>4. SumFunction(g) = f[x] + SumFunction([y \in U |-> f[y]])
      BY <2>2, <2>3, SumSplits
    <2>5. QED
      BY <1>2, <2>1, <2>4
  <1> DEFINE Good == {T \in SUBSET B : it[A \cup T] = it[A] + it[T]}
  <1>4. {} \in Good
    <2>1. it[{}] = 0
      BY <1>1 DEF Sums
    <2>2. A \cup {} = A /\ it[A] \in Int
      BY <1>2
    <2>3. QED
      BY <2>1, <2>2
  <1>5. ASSUME NEW T \in SUBSET B, NEW x \in B, T \in Good, x \notin T
        PROVE  T \cup {x} \in Good
    <2>1. PICK AT : AT = A \cup T
      OBVIOUS
    <2>2. it[AT \cup {x}] = f[x] + it[AT]
      BY <1>3, <1>5, <2>1
    <2>3. it[T \cup {x}] = f[x] + it[T]
      BY <1>3, <1>5
    <2>4. A \cup (T \cup {x}) = AT \cup {x}
      BY <2>1
    <2>5. f[x] \in Int /\ it[A] \in Int /\ it[T] \in Int
      BY <1>2 DEF Summable
    <2>6. it[A \cup (T \cup {x})] = it[A] + it[T \cup {x}]
      <3>1. it[AT] = it[A] + it[T]
        BY <1>5, <2>1
      <3>2. QED
        <4>1. it[A \cup (T \cup {x})] = f[x] + (it[A] + it[T])
          BY <2>2, <2>4, <3>1
        <4>2. QED
          BY <2>3, <2>5, <4>1
    <2>7. QED
      BY <2>6
  <1>6. SUBSET B \subseteq Good
    <2>1. IsFiniteSet(B)
      BY FS_Subset DEF Summable
    <2>2. PICK G : G = Good
      OBVIOUS
    <2> HIDE DEF Good
    <2>3. \A T \in SUBSET B, x \in B : T \in G /\ x \notin T => T \cup {x} \in G
      BY <1>5, <2>2
    <2>4. SUBSET B \subseteq G
      BY <1>4, <2>1, <2>2, <2>3, SubsetInduction, SMTT(30)
    <2>5. QED
      BY <2>2, <2>4
  <1>7. it[A \cup B] = it[A] + it[B]
    BY <1>6
  <1>8. QED
    BY <1>1, <1>2, <1>7

-----------------------------------------------------------------------------
(* Sums over part of a function's domain, and over the classes of a         *)
(* partition.                                                               *)

\* The sum of f's values over T.
SumOver(f, T) == SumFunction([x \in T |-> f[x]])

\* That sum is defined.
Addable(f, T) == IsFiniteSet(T) /\ \A x \in T : f[x] \in Int

LEMMA PartSummable ==
    ASSUME NEW f, NEW T, Addable(f, T), NEW U \in SUBSET T
    PROVE  Addable(f, U) /\ Summable([x \in U |-> f[x]]) /\ SumOver(f, U) \in Int
  <1>1. PICK g : g = [x \in U |-> f[x]]
    OBVIOUS
  <1>2. IsFiniteSet(U)
    BY FS_Subset DEF Addable
  <1>3. Summable(g)
    BY <1>1, <1>2 DEF Summable, Addable
  <1>4. SumFunction(g) \in Int
    BY <1>3, SumIsInt
  <1>5. QED
    BY <1>1, <1>2, <1>3, <1>4 DEF Addable, SumOver

\* The empty sum, and a sum with one value more.
LEMMA SumOverOneMore ==
    ASSUME NEW f, NEW T, Addable(f, T), NEW U \in SUBSET T
    PROVE  /\ U = {} => SumOver(f, U) = 0
           /\ \A x \in T \ U : SumOver(f, U \cup {x}) = SumOver(f, U) + f[x]
  <1>1. U = {} => SumOver(f, U) = 0
    BY PartSummable, SumIsInt DEF SumOver
  <1>2. ASSUME NEW x \in T \ U
        PROVE  SumOver(f, U \cup {x}) = SumOver(f, U) + f[x]
    <2>1. PICK g : g = [y \in U \cup {x} |-> f[y]]
      OBVIOUS
    <2>2. Summable(g)
      <3>1. U \cup {x} \in SUBSET T
        OBVIOUS
      <3>2. QED
        BY <2>1, <3>1, PartSummable
    <2>3. x \in DOMAIN g /\ g[x] = f[x] /\ Without(g, x) = [y \in U |-> f[y]]
      BY <1>2, <2>1 DEF Without
    <2>4. SumFunction(g) = f[x] + SumOver(f, U)
      BY <2>2, <2>3, SumSplits DEF SumOver
    <2>5. f[x] \in Int /\ SumOver(f, U) \in Int
      BY PartSummable DEF Addable
    <2>6. QED
      BY <2>1, <2>4, <2>5 DEF SumOver
  <1>3. QED
    BY <1>1, <1>2

\* A sum of equal values, of zeros, and of values none of which is negative.
LEMMA SumOverSame ==
    ASSUME NEW f, NEW g, NEW T, \A x \in T : f[x] = g[x]
    PROVE  SumOver(f, T) = SumOver(g, T)
  <1>1. [x \in T |-> f[x]] = [x \in T |-> g[x]]
    OBVIOUS
  <1>2. QED
    BY <1>1 DEF SumOver

LEMMA SumOfZeros ==
    ASSUME NEW f, NEW T, Addable(f, T), \A x \in T : f[x] = 0
    PROVE  SumOver(f, T) = 0
  <1> DEFINE Good == {U \in SUBSET T : SumOver(f, U) = 0}
  <1>1. {} \in Good
    BY SumOverOneMore
  <1>2. ASSUME NEW U \in SUBSET T, NEW x \in T, U \in Good, x \notin U
        PROVE  U \cup {x} \in Good
    <2>1. SumOver(f, U \cup {x}) = SumOver(f, U) + f[x]
      BY <1>2, SumOverOneMore
    <2>2. QED
      BY <1>2, <2>1
  <1>3. SUBSET T \subseteq Good
    <2>1. IsFiniteSet(T)
      BY DEF Addable
    <2> HIDE DEF Good
    <2>2. QED
      BY <1>1, <1>2, <2>1, SubsetInduction
  <1>4. QED
    BY <1>3

LEMMA SumOfNaturals ==
    ASSUME NEW f, NEW T, Addable(f, T), \A x \in T : f[x] >= 0
    PROVE  SumOver(f, T) >= 0
  <1> DEFINE Good == {U \in SUBSET T : SumOver(f, U) >= 0}
  <1>1. {} \in Good
    BY SumOverOneMore
  <1>2. ASSUME NEW U \in SUBSET T, NEW x \in T, U \in Good, x \notin U
        PROVE  U \cup {x} \in Good
    <2>1. SumOver(f, U \cup {x}) = SumOver(f, U) + f[x]
      BY <1>2, SumOverOneMore
    <2>2. SumOver(f, U) \in Int /\ f[x] \in Int
      BY PartSummable DEF Addable
    <2>3. QED
      BY <1>2, <2>1, <2>2
  <1>3. SUBSET T \subseteq Good
    <2>1. IsFiniteSet(T)
      BY DEF Addable
    <2> HIDE DEF Good
    <2>2. QED
      BY <1>1, <1>2, <2>1, SubsetInduction
  <1>4. QED
    BY <1>3

\* A sum over two sets that share nothing.
LEMMA SumOverUnion ==
    ASSUME NEW f, NEW T, Addable(f, T), NEW A, NEW B, T = A \cup B, A \cap B = {}
    PROVE  SumOver(f, T) = SumOver(f, A) + SumOver(f, B)
  <1>1. PICK g : g = [x \in T |-> f[x]]
    OBVIOUS
  <1>2. Summable(g) /\ DOMAIN g = A \cup B
    BY <1>1, PartSummable
  <1>3. [x \in A |-> g[x]] = [x \in A |-> f[x]] /\ [x \in B |-> g[x]] = [x \in B |-> f[x]]
    BY <1>1
  <1>4. SumFunction(g) = SumFunction([x \in A |-> g[x]]) + SumFunction([x \in B |-> g[x]])
    BY <1>2, SumOfUnion
  <1>5. QED
    BY <1>1, <1>3, <1>4 DEF SumOver

\* it is the function that a sum of v over T is computed with.
Adder(v, T, it) ==
    it = [s \in SUBSET T |-> IF s = {} THEN 0 ELSE v[pick(s)] + it[s \ {pick(s)}]]

\* There is one, and it computes the sum.
THEOREM AdderAdds ==
    ASSUME NEW v, NEW T, Addable(v, T)
    PROVE  /\ \E it : Adder(v, T, it)
           /\ \A it : Adder(v, T, it) => it[T] = SumOver(v, T)
  <1>1. PICK g : g = [x \in T |-> v[x]]
    OBVIOUS
  <1>2. Summable(g) /\ DOMAIN g = T
    BY <1>1, PartSummable
  <1>3. PICK sum : Sums(g, T, sum) /\ SumFunction(g) = sum[T]
    BY <1>2, SumIsOne
  <1>4. Adder(v, T, sum)
    <2>1. ASSUME NEW s \in SUBSET T, s # {} PROVE g[pick(s)] = v[pick(s)]
      BY <1>1, <2>1, PickOne
    <2>2. QED
      BY <1>3, <2>1 DEF Sums, Adder
  <1>5. ASSUME NEW it, Adder(v, T, it)
        PROVE  it[T] = sum[T]
    <2> DEFINE Equal == {V \in SUBSET T : it[V] = sum[V]}
    <2>1. ASSUME NEW V \in SUBSET T, \A W \in SUBSET V : W # V => W \in Equal
          PROVE  V \in Equal
      <3>1. CASE V = {}
        BY <1>4, <1>5, <3>1 DEF Adder
      <3>2. CASE V # {}
        <4>1. pick(V) \in V
          BY <3>2, PickOne
        <4>2. it[V \ {pick(V)}] = sum[V \ {pick(V)}]
          BY <2>1, <4>1
        <4>3. QED
          BY <1>4, <1>5, <3>2, <4>2 DEF Adder
      <3>3. QED
        BY <3>1, <3>2
    <2>2. SUBSET T \subseteq Equal
      <3>1. IsFiniteSet(T)
        BY DEF Addable
      <3> HIDE DEF Equal
      <3>2. QED
        BY <2>1, <3>1, SmallerFirst, SMTT(30)
    <2>3. QED
      BY <2>2
  <1>6. SumOver(v, T) = sum[T]
    BY <1>1, <1>3 DEF SumOver
  <1>7. QED
    BY <1>4, <1>5, <1>6

\* The members of I, sorted into classes by a key: the sum of the sums of the classes
\* is the sum of all.
THEOREM SumByKey ==
    ASSUME NEW f, NEW I, Addable(f, I), NEW K, IsFiniteSet(K), NEW key,
           \A i \in I : key[i] \in K
    PROVE  /\ Summable([k \in K |-> SumOver(f, {i \in I : key[i] = k})])
           /\ SumFunction([k \in K |-> SumOver(f, {i \in I : key[i] = k})]) = SumOver(f, I)
  <1> DEFINE class(k) == {i \in I : key[i] = k}
             within(L) == {i \in I : key[i] \in L}
  <1>1. PICK h : h = [k \in K |-> SumOver(f, class(k))]
    OBVIOUS
  <1>2. Addable(h, K)
    <2>1. ASSUME NEW k \in K PROVE h[k] \in Int
      <3>1. class(k) \in SUBSET I
        OBVIOUS
      <3> HIDE DEF class
      <3>2. QED
        BY <1>1, <3>1, PartSummable
    <2>2. QED
      BY <2>1 DEF Addable
  <1> DEFINE Good == {L \in SUBSET K : SumOver(h, L) = SumOver(f, within(L))}
  <1>3. {} \in Good
    <2>1. within({}) = {}
      OBVIOUS
    <2>2. SumOver(f, {}) = 0 /\ SumOver(h, {}) = 0
      BY <1>2, SumOverOneMore
    <2>3. QED
      BY <2>1, <2>2
  <1>4. ASSUME NEW L \in SUBSET K, NEW k \in K, L \in Good, k \notin L
        PROVE  L \cup {k} \in Good
    <2>1. SumOver(h, L \cup {k}) = SumOver(h, L) + h[k]
      BY <1>2, <1>4, SumOverOneMore
    <2>2. PICK A, B, T : A = within(L) /\ B = class(k) /\ T = within(L \cup {k})
      OBVIOUS
    <2>3. T = A \cup B /\ A \cap B = {} /\ T \in SUBSET I
      BY <1>4, <2>2
    <2>4. SumOver(f, T) = SumOver(f, A) + SumOver(f, B)
      <3>1. Addable(f, T)
        BY <2>3, PartSummable
      <3>2. QED
        BY <2>3, <3>1, SumOverUnion
    <2>5. h[k] = SumOver(f, B)
      BY <1>1, <2>2
    <2>6. SumOver(h, L) = SumOver(f, A)
      BY <1>4, <2>2
    <2>7. SumOver(h, L \cup {k}) = SumOver(f, T)
      BY <2>1, <2>4, <2>5, <2>6
    <2>8. QED
      BY <2>2, <2>7
  <1>5. SUBSET K \subseteq Good
    <2> HIDE DEF Good
    <2>1. QED
      BY <1>3, <1>4, SubsetInduction
  <1>6. SumOver(h, K) = SumOver(f, I)
    <2>1. within(K) = I
      OBVIOUS
    <2>2. SumOver(h, K) = SumOver(f, within(K))
      BY <1>5
    <2>3. QED
      BY <2>1, <2>2
  <1>7. Summable(h) /\ SumFunction(h) = SumOver(h, K)
    <2>1. h = [k \in K |-> h[k]]
      BY <1>1
    <2>2. QED
      BY <1>2, <2>1, PartSummable DEF SumOver
  <1>8. QED
    BY <1>1, <1>6, <1>7

-----------------------------------------------------------------------------
(* Bags, such as the queues of tasks.                                       *)

\* The bag of one thing, and the empty bag.
THEOREM SingleBag ==
    ASSUME NEW t
    PROVE  /\ IsABag(SetToBag({t})) /\ BagToSet(SetToBag({t})) = {t} /\ SetToBag({t})[t] = 1
           /\ IsABag(EmptyBag) /\ BagToSet(EmptyBag) = {}
  BY DEF IsABag, SetToBag, BagToSet, EmptyBag

\* What is in the sum of two bags.
THEOREM BagSum ==
    ASSUME NEW B, NEW C, IsABag(B), IsABag(C)
    PROVE  /\ IsABag(B (+) C) /\ BagToSet(B (+) C) = BagToSet(B) \cup BagToSet(C)
           /\ \A t \in BagToSet(B) \ BagToSet(C) : (B (+) C)[t] = B[t]
           /\ \A t \in BagToSet(C) \ BagToSet(B) : (B (+) C)[t] = C[t]
  <1>1. PICK S : S = B (+) C
    OBVIOUS
  <1>2. /\ DOMAIN S = DOMAIN B \cup DOMAIN C
        /\ \A t \in DOMAIN S : S[t] = (IF t \in DOMAIN B THEN B[t] ELSE 0)
                                    + (IF t \in DOMAIN C THEN C[t] ELSE 0)
        /\ S = [t \in DOMAIN S |-> S[t]]
    BY <1>1 DEF (+)
  <1>3. /\ \A t \in DOMAIN B : B[t] \in Nat /\ B[t] > 0
        /\ \A t \in DOMAIN C : C[t] \in Nat /\ C[t] > 0
    BY DEF IsABag
  <1>4. \A t \in DOMAIN S : S[t] \in Nat /\ S[t] > 0
    BY <1>2, <1>3
  <1>5. IsABag(S)
    BY <1>2, <1>4 DEF IsABag
  <1>6. /\ \A t \in DOMAIN B \ DOMAIN C : S[t] = B[t]
        /\ \A t \in DOMAIN C \ DOMAIN B : S[t] = C[t]
    BY <1>2, <1>3
  <1>7. QED
    BY <1>1, <1>2, <1>5, <1>6 DEF BagToSet

\* What is left of a bag without one copy of one of its things.
THEOREM BagTake ==
    ASSUME NEW B, IsABag(B), NEW t \in BagToSet(B)
    PROVE  /\ IsABag(B (-) SetToBag({t})) /\ BagToSet(B (-) SetToBag({t})) \subseteq BagToSet(B)
           /\ B[t] = 1 => t \notin BagToSet(B (-) SetToBag({t}))
           /\ \A u \in BagToSet(B (-) SetToBag({t})) \ {t} : (B (-) SetToBag({t}))[u] = B[u]
  <1>1. PICK S : S = B (-) SetToBag({t})
    OBVIOUS
  <1>2. PICK C : C = [u \in DOMAIN B |-> IF u = t THEN B[u] - 1 ELSE B[u]]
    OBVIOUS
  <1>3. S = [u \in {d \in DOMAIN C : C[d] > 0} |-> C[u]]
    <2>1. DOMAIN SetToBag({t}) = {t} /\ SetToBag({t})[t] = 1
      BY DEF SetToBag
    <2>2. C = [u \in DOMAIN B |-> IF u \in DOMAIN SetToBag({t}) THEN B[u] - SetToBag({t})[u]
                                  ELSE B[u]]
      BY <1>2, <2>1
    <2>3. QED
      BY <1>1, <2>2 DEF (-)
  <1>4. \A u \in DOMAIN B : B[u] \in Nat /\ B[u] > 0
    BY DEF IsABag
  <1>5. /\ DOMAIN C = DOMAIN B /\ C[t] = B[t] - 1
        /\ \A u \in DOMAIN B : C[u] \in Nat /\ (u # t => C[u] = B[u])
    BY <1>2, <1>4 DEF BagToSet
  <1>6. /\ DOMAIN S = {d \in DOMAIN C : C[d] > 0} /\ S = [u \in DOMAIN S |-> S[u]]
        /\ \A u \in DOMAIN S : S[u] = C[u]
    BY <1>3
  <1>7. IsABag(S)
    BY <1>5, <1>6 DEF IsABag
  <1>8. /\ DOMAIN S \subseteq DOMAIN B /\ (B[t] = 1 => t \notin DOMAIN S)
        /\ \A u \in DOMAIN S \ {t} : S[u] = B[u]
    BY <1>4, <1>5, <1>6
  <1>9. QED
    BY <1>1, <1>7, <1>8 DEF BagToSet

\* The other things stay in the bag.
THEOREM BagKeeps ==
    ASSUME NEW B, IsABag(B), NEW t \in BagToSet(B), NEW u \in BagToSet(B), u # t
    PROVE  u \in BagToSet(B (-) SetToBag({t}))
  <1>1. PICK C : C = [v \in DOMAIN B |-> IF v = t THEN B[v] - 1 ELSE B[v]]
    OBVIOUS
  <1>2. B (-) SetToBag({t}) = [v \in {d \in DOMAIN C : C[d] > 0} |-> C[v]]
    <2>1. DOMAIN SetToBag({t}) = {t} /\ SetToBag({t})[t] = 1
      BY DEF SetToBag
    <2>2. C = [v \in DOMAIN B |-> IF v \in DOMAIN SetToBag({t}) THEN B[v] - SetToBag({t})[v]
                                  ELSE B[v]]
      BY <1>1, <2>1
    <2>3. QED
      BY <2>2 DEF (-)
  <1>3. u \in DOMAIN C /\ C[u] > 0
    BY <1>1 DEF IsABag, BagToSet
  <1>4. QED
    BY <1>2, <1>3 DEF BagToSet

=============================================================================
