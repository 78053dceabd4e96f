---------------------------- MODULE FoldTheorems ----------------------------
(***************************************************************************)
(* What a sum over a finite set is.  The community modules define it by    *)
(* recursion over subsets and a chosen element; here it is shown that the  *)
(* recursion has a solution, that any element may be taken out first, that *)
(* only the values on the set count, that the sums over the parts of a set *)
(* add up to the sum over it, and that renaming its elements changes none. *)
(*                                                                         *)
(* The induction is on proper subsets, by a minimal counterexample; with it *)
(* a set of places of a sequence is shown to have a last one.              *)
(***************************************************************************)
EXTENDS Integers, FiniteSets, FiniteSetsExt, Functions, FiniteSetTheorems, TLAPS

Chosen(s) == CHOOSE x \in s : TRUE

\* What the recursion asks of a function of the subsets of S.
SumsUp(f, S, g) ==
    g = [s \in SUBSET S |-> IF s = {} THEN 0 ELSE f[Chosen(s)] + g[s \ {Chosen(s)}]]

\* A set of subsets of S that has every one whose proper subsets it has, has S.
LEMMA SubsetInduction ==
    ASSUME NEW S, IsFiniteSet(S), NEW Good,
           \A T \in SUBSET S : (\A U \in SUBSET T : U # T => U \in Good) => T \in Good
    PROVE  S \in Good
<1> DEFINE Bad == {T \in SUBSET S : T \notin Good}
<1>1. SUFFICES ASSUME S \notin Good PROVE FALSE
  OBVIOUS
<1>2. Bad \subseteq FiniteSubsetsOf(S)
  BY FS_FiniteSubsetsOfFinite
<1>3. S \in Bad
  BY <1>1
<1>4. PICK T \in Bad : \A U \in Bad : <<U, T>> \notin StrictSubsetOrdering(S)
  <2> HIDE DEF Bad
  <2> QED
    BY <1>2, <1>3, FS_StrictSubsetOrderingWellFounded, WFMin
<1>5. \A U \in SUBSET T : U # T => U \in Good
  BY <1>4 DEF StrictSubsetOrdering
<1> QED
  BY <1>4, <1>5

\* The element the recursion takes is one of the set.
LEMMA ChosenIsIn ==
    ASSUME NEW s, s # {}
    PROVE  Chosen(s) \in s
BY DEF Chosen

\* The community definition is the chosen solution of that recursion.
LEMMA SumIsRecursive == \A f, S : SumFunctionOnSet(f, S) = (CHOOSE g : SumsUp(f, S, g))[S]
BY DEF SumFunctionOnSet, FoldFunctionOnSet, MapThenFoldSet, SumsUp, Chosen

\* Two solutions agree wherever both are defined.
LEMMA OneSolution ==
    ASSUME NEW f, NEW A, NEW B, NEW g, NEW h, SumsUp(f, A, g), SumsUp(f, B, h),
           NEW W, W \subseteq A, W \subseteq B, IsFiniteSet(W)
    PROVE  g[W] = h[W]
<1> DEFINE Good == {T \in SUBSET W : g[T] = h[T]}
<1>1. ASSUME NEW T \in SUBSET W, \A U \in SUBSET T : U # T => U \in Good
      PROVE  T \in Good
  <2>1. CASE T = {}
    BY <2>1 DEF SumsUp
  <2>2. CASE T # {}
    <3>1. T \ {Chosen(T)} \in SUBSET T /\ T \ {Chosen(T)} # T
      BY <2>2, ChosenIsIn
    <3>2. g[T \ {Chosen(T)}] = h[T \ {Chosen(T)}]
      BY <1>1, <3>1
    <3>3. g[T] = f[Chosen(T)] + g[T \ {Chosen(T)}]
      BY <2>2 DEF SumsUp
    <3>4. h[T] = f[Chosen(T)] + h[T \ {Chosen(T)}]
      BY <2>2 DEF SumsUp
    <3> QED
      BY <3>2, <3>3, <3>4
  <2> QED
    BY <2>1, <2>2
<1>2. W \in Good
  <2> HIDE DEF Good
  <2> QED
    BY <1>1, SubsetInduction
<1> QED
  BY <1>2

\* The recursion has a solution.
LEMMA HasSolution ==
    ASSUME NEW f, NEW S, IsFiniteSet(S)
    PROVE  \E g : SumsUp(f, S, g)
<1> DEFINE Good == {T \in SUBSET S : \E g : SumsUp(f, T, g)}
<1>1. ASSUME NEW T \in SUBSET S, \A U \in SUBSET T : U # T => U \in Good
      PROVE  T \in Good
  <2> DEFINE g == [s \in SUBSET T |-> IF s = {} THEN 0 ELSE f[Chosen(s)] + SumFunctionOnSet(f, s \ {Chosen(s)})]
  <2>1. ASSUME NEW s \in SUBSET T, s # {}
        PROVE  g[s \ {Chosen(s)}] = SumFunctionOnSet(f, s \ {Chosen(s)})
    <3> DEFINE V == s \ {Chosen(s)}
    <3> DEFINE h == CHOOSE k : SumsUp(f, V, k)
    <3>1. V \in SUBSET T /\ V # T
      BY <2>1, ChosenIsIn
    <3>2. SumsUp(f, V, h)
      BY <1>1, <3>1
    <3>3. SumFunctionOnSet(f, V) = h[V]
      BY SumIsRecursive
    <3> HIDE DEF h
    <3>4. CASE V = {}
      BY <3>1, <3>2, <3>3, <3>4 DEF SumsUp
    <3>5. CASE V # {}
      <4> DEFINE W == V \ {Chosen(V)}
      <4>1. W \in SUBSET V /\ W # T
        BY <3>1
      <4>2. SumsUp(f, W, CHOOSE k : SumsUp(f, W, k))
        BY <1>1, <3>1, <4>1
      <4>3. IsFiniteSet(W)
        BY <3>1, <4>1, FS_Subset
      <4>4. (CHOOSE k : SumsUp(f, W, k))[W] = h[W]
        BY <3>2, <4>1, <4>2, <4>3, OneSolution
      <4>5. h[V] = f[Chosen(V)] + h[W]
        BY <3>2, <3>5 DEF SumsUp
      <4>6. SumFunctionOnSet(f, W) = h[W]
        BY <4>4, SumIsRecursive
      <4>7. g[V] = f[Chosen(V)] + SumFunctionOnSet(f, W)
        BY <3>1, <3>5
      <4> QED
        BY <3>3, <4>5, <4>6, <4>7
    <3> QED
      BY <3>4, <3>5
  <2>2. SumsUp(f, T, g)
    BY <2>1 DEF SumsUp
  <2> QED
    BY <2>2
<1>2. S \in Good
  <2> HIDE DEF Good
  <2> QED
    BY <1>1, SubsetInduction
<1> QED
  BY <1>2

\* The recursion, as it is written.
LEMMA SumStep ==
    ASSUME NEW f, NEW S, IsFiniteSet(S)
    PROVE  SumFunctionOnSet(f, S) = IF S = {} THEN 0 ELSE f[Chosen(S)] + SumFunctionOnSet(f, S \ {Chosen(S)})
<1> DEFINE g == CHOOSE k : SumsUp(f, S, k)
           W == S \ {Chosen(S)}
           h == CHOOSE k : SumsUp(f, W, k)
<1>1. SumsUp(f, S, g)
  BY HasSolution
<1>2. IsFiniteSet(W)
  BY FS_Subset
<1>3. SumsUp(f, W, h)
  BY <1>2, HasSolution
<1>4. SumFunctionOnSet(f, S) = g[S] /\ SumFunctionOnSet(f, W) = h[W]
  BY SumIsRecursive
<1> HIDE DEF g, h
<1>5. g[W] = h[W]
  BY <1>1, <1>2, <1>3, OneSolution
<1>6. g[S] = IF S = {} THEN 0 ELSE f[Chosen(S)] + g[W]
  BY <1>1 DEF SumsUp
<1> QED
  BY <1>4, <1>5, <1>6

\* A sum of natural numbers is one.
LEMMA SumType ==
    ASSUME NEW f, NEW S, IsFiniteSet(S), \A x \in S : f[x] \in Nat
    PROVE  SumFunctionOnSet(f, S) \in Nat
<1> DEFINE Good == {T \in SUBSET S : SumFunctionOnSet(f, T) \in Nat}
<1>1. ASSUME NEW T \in SUBSET S, \A U \in SUBSET T : U # T => U \in Good
      PROVE  T \in Good
  <2>1. IsFiniteSet(T)
    BY FS_Subset
  <2>2. CASE T = {}
    <3>1. SumFunctionOnSet(f, T) = 0
      BY <2>1, <2>2, SumStep
    <3> QED
      BY <3>1
  <2>3. CASE T # {}
    <3>1. Chosen(T) \in T
      BY <2>3, ChosenIsIn
    <3>2. SumFunctionOnSet(f, T \ {Chosen(T)}) \in Nat
      BY <1>1, <3>1
    <3>3. SumFunctionOnSet(f, T) = f[Chosen(T)] + SumFunctionOnSet(f, T \ {Chosen(T)})
      BY <2>1, <2>3, SumStep
    <3> QED
      BY <3>1, <3>2, <3>3
  <2> QED
    BY <2>2, <2>3
<1>2. S \in Good
  <2> HIDE DEF Good
  <2> QED
    BY <1>1, SubsetInduction
<1> QED
  BY <1>2

\* A sum of integers is one.
LEMMA SumIsInt ==
    ASSUME NEW f, NEW S, IsFiniteSet(S), \A x \in S : f[x] \in Int
    PROVE  SumFunctionOnSet(f, S) \in Int
<1> DEFINE Good == {T \in SUBSET S : SumFunctionOnSet(f, T) \in Int}
<1>1. ASSUME NEW T \in SUBSET S, \A U \in SUBSET T : U # T => U \in Good
      PROVE  T \in Good
  <2>1. IsFiniteSet(T)
    BY FS_Subset
  <2>2. CASE T = {}
    <3>1. SumFunctionOnSet(f, T) = 0
      BY <2>1, <2>2, SumStep
    <3> QED
      BY <3>1
  <2>3. CASE T # {}
    <3>1. Chosen(T) \in T
      BY <2>3, ChosenIsIn
    <3>2. SumFunctionOnSet(f, T \ {Chosen(T)}) \in Int
      BY <1>1, <3>1
    <3>3. SumFunctionOnSet(f, T) = f[Chosen(T)] + SumFunctionOnSet(f, T \ {Chosen(T)})
      BY <2>1, <2>3, SumStep
    <3> QED
      BY <3>1, <3>2, <3>3
  <2> QED
    BY <2>2, <2>3
<1>2. S \in Good
  <2> HIDE DEF Good
  <2> QED
    BY <1>1, SubsetInduction
<1> QED
  BY <1>2

\* Any element may be taken out.
LEMMA SumRemove ==
    ASSUME NEW f, NEW S, IsFiniteSet(S), \A x \in S : f[x] \in Int, NEW e \in S
    PROVE  SumFunctionOnSet(f, S) = f[e] + SumFunctionOnSet(f, S \ {e})
<1> DEFINE Good == {T \in SUBSET S : \A x \in T : SumFunctionOnSet(f, T) = f[x] + SumFunctionOnSet(f, T \ {x})}
<1>1. ASSUME NEW T \in SUBSET S, \A U \in SUBSET T : U # T => U \in Good
      PROVE  T \in Good
  <2>1. SUFFICES ASSUME NEW x \in T PROVE SumFunctionOnSet(f, T) = f[x] + SumFunctionOnSet(f, T \ {x})
    OBVIOUS
  <2> DEFINE c == Chosen(T)
             R == (T \ {c}) \ {x}
  <2>2. c \in T /\ IsFiniteSet(T) /\ IsFiniteSet(R)
    BY ChosenIsIn, FS_Subset
  <2>3. SumFunctionOnSet(f, T) = f[c] + SumFunctionOnSet(f, T \ {c})
    BY <2>2, SumStep
  <2> HIDE DEF c
  <2>4. CASE x = c
    BY <2>3, <2>4
  <2>5. CASE x # c
    <3>1. SumFunctionOnSet(f, T \ {c}) = f[x] + SumFunctionOnSet(f, R)
      <4>1. T \ {c} \in SUBSET T /\ T \ {c} # T /\ x \in T \ {c}
        BY <2>2, <2>5
      <4> QED
        BY <1>1, <4>1
    <3>2. SumFunctionOnSet(f, T \ {x}) = f[c] + SumFunctionOnSet(f, R)
      <4>1. T \ {x} \in SUBSET T /\ T \ {x} # T /\ c \in T \ {x} /\ (T \ {x}) \ {c} = R
        BY <2>2, <2>5
      <4> QED
        BY <1>1, <4>1
    <3>3. SumFunctionOnSet(f, R) \in Int
      BY <2>2, SumIsInt
    <3>4. f[x] \in Int /\ f[c] \in Int
      BY <2>2
    <3> HIDE DEF R
    <3> QED
      BY <2>3, <3>1, <3>2, <3>3, <3>4
  <2> QED
    BY <2>4, <2>5
<1>2. S \in Good
  <2> HIDE DEF Good
  <2> QED
    BY <1>1, SubsetInduction
<1> QED
  BY <1>2

\* Only the values on the set count.
LEMMA SumAgree ==
    ASSUME NEW f, NEW g, NEW S, IsFiniteSet(S), \A x \in S : f[x] = g[x]
    PROVE  SumFunctionOnSet(f, S) = SumFunctionOnSet(g, S)
<1> DEFINE Good == {T \in SUBSET S : SumFunctionOnSet(f, T) = SumFunctionOnSet(g, T)}
<1>1. ASSUME NEW T \in SUBSET S, \A U \in SUBSET T : U # T => U \in Good
      PROVE  T \in Good
  <2>1. IsFiniteSet(T)
    BY FS_Subset
  <2>2. CASE T = {}
    BY <2>1, <2>2, SumStep
  <2>3. CASE T # {}
    <3>1. Chosen(T) \in T
      BY <2>3, ChosenIsIn
    <3>2. SumFunctionOnSet(f, T \ {Chosen(T)}) = SumFunctionOnSet(g, T \ {Chosen(T)})
      BY <1>1, <3>1
    <3>3. SumFunctionOnSet(f, T) = f[Chosen(T)] + SumFunctionOnSet(f, T \ {Chosen(T)})
      BY <2>1, <2>3, SumStep
    <3>4. SumFunctionOnSet(g, T) = g[Chosen(T)] + SumFunctionOnSet(g, T \ {Chosen(T)})
      BY <2>1, <2>3, SumStep
    <3> QED
      BY <3>1, <3>2, <3>3, <3>4
  <2> QED
    BY <2>2, <2>3
<1>2. S \in Good
  <2> HIDE DEF Good
  <2> QED
    BY <1>1, SubsetInduction
<1> QED
  BY <1>2

\* The sum over two sets that have nothing in common.
LEMMA SumOfTwo ==
    ASSUME NEW f, NEW A, NEW B, IsFiniteSet(A \cup B), \A x \in A \cup B : f[x] \in Int, A \cap B = {}
    PROVE  SumFunctionOnSet(f, A \cup B) = SumFunctionOnSet(f, A) + SumFunctionOnSet(f, B)
<1> DEFINE Good == {T \in SUBSET B : SumFunctionOnSet(f, A \cup T) = SumFunctionOnSet(f, A) + SumFunctionOnSet(f, T)}
<1>1. IsFiniteSet(A) /\ IsFiniteSet(B)
  BY FS_Subset
<1>2. SumFunctionOnSet(f, A) \in Int
  BY <1>1, SumIsInt
<1>3. ASSUME NEW T \in SUBSET B, \A U \in SUBSET T : U # T => U \in Good
      PROVE  T \in Good
  <2>1. IsFiniteSet(T) /\ IsFiniteSet(A \cup T)
    BY FS_Subset
  <2>2. CASE T = {}
    <3>1. SumFunctionOnSet(f, T) = 0
      BY <2>1, <2>2, SumStep
    <3>2. A \cup T = A
      BY <2>2
    <3>3. SumFunctionOnSet(f, A) = SumFunctionOnSet(f, A) + 0
      BY <1>2
    <3> QED
      BY <3>1, <3>2, <3>3
  <2>3. CASE T # {}
    <3>1. PICK x \in T : TRUE
      BY <2>3
    <3> DEFINE U == T \ {x}
               W == A \cup T
    <3>2. SumFunctionOnSet(f, A \cup U) = SumFunctionOnSet(f, A) + SumFunctionOnSet(f, U)
      BY <1>3, <3>1
    <3>3. SumFunctionOnSet(f, T) = f[x] + SumFunctionOnSet(f, U)
      BY <2>1, <3>1, SumRemove
    <3>4. W \ {x} = A \cup U /\ x \in W /\ IsFiniteSet(W) /\ \A y \in W : f[y] \in Int
      BY <2>1, <3>1
    <3>5. SumFunctionOnSet(f, W) = f[x] + SumFunctionOnSet(f, A \cup U)
      <4> HIDE DEF W, U
      <4>1. SumFunctionOnSet(f, W) = f[x] + SumFunctionOnSet(f, W \ {x})
        BY <3>4, SumRemove
      <4> QED
        BY <3>4, <4>1
    <3>6. SumFunctionOnSet(f, U) \in Int /\ f[x] \in Int
      <4>1. IsFiniteSet(U) /\ \A y \in U : f[y] \in Int
        BY <2>1, FS_Subset
      <4> HIDE DEF U
      <4> QED
        BY <3>1, <4>1, SumIsInt
    <3> HIDE DEF U
    <3> QED
      BY <1>2, <3>2, <3>3, <3>5, <3>6
  <2> QED
    BY <2>2, <2>3
<1>4. B \in Good
  <2> HIDE DEF Good
  <2> QED
    BY <1>1, <1>3, SubsetInduction
<1> QED
  BY <1>4

\* A sum by parts is the sum.
PartOf(S, part, p) == {x \in S : part[x] = p}

LEMMA SumByParts ==
    ASSUME NEW f, NEW S, IsFiniteSet(S), \A x \in S : f[x] \in Int,
           NEW P, IsFiniteSet(P), NEW part, \A x \in S : part[x] \in P, NEW g,
           \A p \in P : g[p] = SumFunctionOnSet(f, PartOf(S, part, p))
    PROVE  SumFunctionOnSet(g, P) = SumFunctionOnSet(f, S)
<1> DEFINE Of(T) == {x \in S : part[x] \in T}
           One(p) == {x \in S : part[x] = p}
           Good == {T \in SUBSET P : SumFunctionOnSet(g, T) = SumFunctionOnSet(f, Of(T))}
<1>1. \A T \in SUBSET P : IsFiniteSet(T) /\ IsFiniteSet(Of(T))
  BY FS_Subset
<1>2. \A p \in P : IsFiniteSet(One(p)) /\ g[p] = SumFunctionOnSet(f, One(p))
  BY FS_Subset DEF PartOf
<1>3. \A p \in P : g[p] \in Int
  <2>1. \A p \in P : \A x \in One(p) : f[x] \in Int
    OBVIOUS
  <2> HIDE DEF One
  <2> QED
    BY <1>2, <2>1, SumIsInt
<1>4. ASSUME NEW A, NEW B, IsFiniteSet(A \cup B), A \cap B = {}, A \cup B \subseteq S
      PROVE  SumFunctionOnSet(f, A \cup B) = SumFunctionOnSet(f, A) + SumFunctionOnSet(f, B)
  BY <1>4, SumOfTwo
<1>5. ASSUME NEW T \in SUBSET P, \A U \in SUBSET T : U # T => U \in Good
      PROVE  T \in Good
  <2>1. CASE T = {}
    <3>1. Of(T) = {}
      BY <2>1
    <3>2. SumFunctionOnSet(g, T) = 0 /\ SumFunctionOnSet(f, Of(T)) = 0
      BY <1>1, <2>1, <3>1, SumStep
    <3> QED
      BY <3>2
  <2>2. CASE T # {}
    <3>1. PICK p \in T : TRUE
      BY <2>2
    <3> DEFINE R == T \ {p}
    <3>2. R \in SUBSET T /\ R # T /\ R \in SUBSET P
      BY <3>1
    <3>3. SumFunctionOnSet(g, R) = SumFunctionOnSet(f, Of(R))
      BY <1>5, <3>2
    <3>4. SumFunctionOnSet(g, T) = g[p] + SumFunctionOnSet(g, R)
      <4>1. IsFiniteSet(T) /\ \A q \in T : g[q] \in Int
        BY <1>1, <1>3
      <4> QED
        BY <3>1, <4>1, SumRemove
    <3>5. Of(T) = One(p) \cup Of(R) /\ One(p) \cap Of(R) = {}
      BY <3>1
    <3>6. IsFiniteSet(One(p) \cup Of(R)) /\ One(p) \cup Of(R) \subseteq S
      BY <1>1, <3>5
    <3> HIDE DEF Of, One, R
    <3>7. SumFunctionOnSet(f, Of(T)) = SumFunctionOnSet(f, One(p)) + SumFunctionOnSet(f, Of(R))
      BY <1>4, <3>5, <3>6
    <3>8. g[p] = SumFunctionOnSet(f, One(p))
      BY <1>2, <3>1
    <3> QED
      BY <3>3, <3>4, <3>7, <3>8
  <2> QED
    BY <2>1, <2>2
<1>6. P \in Good
  <2> HIDE DEF Good
  <2> QED
    BY <1>5, SubsetInduction
<1>7. Of(P) = S
  OBVIOUS
<1> QED
  BY <1>6, <1>7

\* A sum does not depend on what its terms are counted by.
LEMMA SumRenamed ==
    ASSUME NEW f, NEW S, IsFiniteSet(S), \A x \in S : f[x] \in Int,
           NEW T, NEW g, NEW to, \A x \in S : to[x] \in T /\ g[to[x]] = f[x],
           \A x \in S, y \in S : to[x] = to[y] => x = y,
           \A y \in T : \E x \in S : to[x] = y
    PROVE  IsFiniteSet(T) /\ SumFunctionOnSet(g, T) = SumFunctionOnSet(f, S)
<1> DEFINE Image(U) == {to[x] : x \in U}
           Good == {U \in SUBSET S : IsFiniteSet(Image(U)) /\ SumFunctionOnSet(g, Image(U)) = SumFunctionOnSet(f, U)}
<1>1. ASSUME NEW U \in SUBSET S, \A V \in SUBSET U : V # U => V \in Good
      PROVE  U \in Good
  <2>1. IsFiniteSet(U)
    BY FS_Subset
  <2>2. CASE U = {}
    <3>1. Image(U) = {} /\ IsFiniteSet({})
      BY <2>2, FS_EmptySet
    <3>2. SumFunctionOnSet(g, Image(U)) = 0 /\ SumFunctionOnSet(f, U) = 0
      BY <2>1, <2>2, <3>1, SumStep
    <3> QED
      BY <3>1, <3>2
  <2>3. CASE U # {}
    <3>1. PICK x \in U : TRUE
      BY <2>3
    <3> DEFINE V == U \ {x}
               I == Image(U)
               J == Image(V)
    <3>2. V \in SUBSET U /\ V # U
      BY <3>1
    <3>3. IsFiniteSet(J) /\ SumFunctionOnSet(g, J) = SumFunctionOnSet(f, V)
      BY <1>1, <3>2
    <3>4. I = J \cup {to[x]} /\ to[x] \in I
      BY <3>1
    <3>5. to[x] \notin J
      BY <3>1
    <3>6. \A y \in I : g[y] \in Int
      OBVIOUS
    <3>7. SumFunctionOnSet(f, U) = f[x] + SumFunctionOnSet(f, V)
      BY <2>1, <3>1, SumRemove
    <3> HIDE DEF I, J
    <3>8. IsFiniteSet(I) /\ I \ {to[x]} = J
      BY <3>3, <3>4, <3>5, FS_AddElement
    <3>9. SumFunctionOnSet(g, I) = g[to[x]] + SumFunctionOnSet(g, J)
      BY <3>4, <3>6, <3>8, SumRemove
    <3>10. g[to[x]] = f[x]
      BY <3>1
    <3>11. SumFunctionOnSet(g, I) = SumFunctionOnSet(f, U)
      BY <3>3, <3>7, <3>9, <3>10
    <3> QED
      BY <3>8, <3>11 DEF I
  <2> QED
    BY <2>2, <2>3
<1>2. S \in Good
  <2> HIDE DEF Good
  <2> QED
    BY <1>1, SubsetInduction
<1>3. Image(S) = T
  OBVIOUS
<1> QED
  BY <1>2, <1>3

\* Ones add up to the size.
LEMMA SumOfOnes ==
    ASSUME NEW f, NEW S, IsFiniteSet(S), \A x \in S : f[x] = 1
    PROVE  SumFunctionOnSet(f, S) = Cardinality(S)
<1> DEFINE Good == {T \in SUBSET S : SumFunctionOnSet(f, T) = Cardinality(T)}
<1>1. ASSUME NEW T \in SUBSET S, \A U \in SUBSET T : U # T => U \in Good
      PROVE  T \in Good
  <2>1. IsFiniteSet(T)
    BY FS_Subset
  <2>2. CASE T = {}
    BY <2>1, <2>2, SumStep, FS_EmptySet
  <2>3. CASE T # {}
    <3>1. PICK x \in T : TRUE
      BY <2>3
    <3>2. SumFunctionOnSet(f, T \ {x}) = Cardinality(T \ {x})
      BY <1>1, <3>1
    <3>3. SumFunctionOnSet(f, T) = f[x] + SumFunctionOnSet(f, T \ {x})
      BY <2>1, <3>1, SumRemove
    <3>4. Cardinality(T \ {x}) = Cardinality(T) - 1 /\ Cardinality(T) \in Nat
      BY <2>1, <3>1, FS_RemoveElement, FS_CardinalityType
    <3> QED
      BY <3>1, <3>2, <3>3, <3>4
  <2> QED
    BY <2>2, <2>3
<1>2. S \in Good
  <2> HIDE DEF Good
  <2> QED
    BY <1>1, SubsetInduction
<1> QED
  BY <1>2

\* So the sizes of the parts add up,
LEMMA CountByParts ==
    ASSUME NEW S, IsFiniteSet(S), NEW P, IsFiniteSet(P), NEW part, \A x \in S : part[x] \in P,
           NEW g, \A p \in P : g[p] = Cardinality(PartOf(S, part, p))
    PROVE  SumFunctionOnSet(g, P) = Cardinality(S)
<1> DEFINE f == [x \in S |-> 1]
<1>1. \A x \in S : f[x] = 1
  OBVIOUS
<1>2. ASSUME NEW T, T \subseteq S PROVE SumFunctionOnSet(f, T) = Cardinality(T)
  <2>1. IsFiniteSet(T) /\ \A x \in T : f[x] = 1
    BY <1>1, <1>2, FS_Subset
  <2> HIDE DEF f
  <2> QED
    BY <2>1, SumOfOnes
<1> HIDE DEF f
<1>3. \A p \in P : g[p] = SumFunctionOnSet(f, PartOf(S, part, p))
  <2>1. \A p \in P : PartOf(S, part, p) \subseteq S
    BY DEF PartOf
  <2> QED
    BY <1>2, <2>1
<1>4. \A x \in S : f[x] \in Int
  BY <1>1
<1>5. SumFunctionOnSet(g, P) = SumFunctionOnSet(f, S)
  BY <1>3, <1>4, SumByParts
<1> QED
  BY <1>2, <1>5

\* and a set has the size of one it is in one-to-one correspondence with.
LEMMA CountRenamed ==
    ASSUME NEW S, IsFiniteSet(S), NEW T, NEW to, \A x \in S : to[x] \in T,
           \A x \in S, y \in S : to[x] = to[y] => x = y, \A y \in T : \E x \in S : to[x] = y
    PROVE  IsFiniteSet(T) /\ Cardinality(T) = Cardinality(S)
<1> DEFINE f == [x \in S |-> 1]
           g == [y \in T |-> 1]
<1>1. (\A x \in S : f[x] = 1) /\ (\A y \in T : g[y] = 1)
  OBVIOUS
<1> HIDE DEF f, g
<1>2. (\A x \in S : f[x] \in Int) /\ \A x \in S : to[x] \in T /\ g[to[x]] = f[x]
  BY <1>1
<1>3. IsFiniteSet(T) /\ SumFunctionOnSet(g, T) = SumFunctionOnSet(f, S)
  BY <1>2, SumRenamed
<1> QED
  BY <1>1, <1>3, SumOfOnes

\* A set of places has a last one.
LEMMA LastPlace ==
    ASSUME NEW n \in Nat, NEW S \in SUBSET (1..n), S # {}
    PROVE  Max(S) \in S
<1> DEFINE D == 1..n
           Good == {T \in SUBSET D : T = {} \/ \E m \in T : \A y \in T : m >= y}
<1>1. ASSUME NEW T \in SUBSET D, \A U \in SUBSET T : U # T => U \in Good
      PROVE  T \in Good
  <2>1. CASE T = {}
    BY <2>1
  <2>2. CASE T # {}
    <3>1. PICK x \in T : TRUE
      BY <2>2
    <3>2. T \ {x} \in Good
      BY <1>1, <3>1
    <3>3. CASE T \ {x} = {}
      BY <3>1, <3>3
    <3>4. CASE T \ {x} # {}
      <4>1. PICK m \in T \ {x} : \A y \in T \ {x} : m >= y
        BY <3>2, <3>4
      <4>2. CASE m >= x
        BY <4>1, <4>2
      <4>3. CASE x >= m
        <5>1. \A y \in T : x >= y
          BY <4>1, <4>3
        <5> QED
          BY <3>1, <5>1
      <4> QED
        BY <4>1, <4>2, <4>3
    <3> QED
      BY <3>3, <3>4
  <2> QED
    BY <2>1, <2>2
<1>2. IsFiniteSet(S)
  <2>1. IsFiniteSet(D)
    BY FS_Interval
  <2> QED
    BY <2>1, FS_Subset
<1>3. S \in Good
  <2>1. \A T \in SUBSET S : (\A U \in SUBSET T : U # T => U \in Good) => T \in Good
    BY <1>1
  <2> HIDE DEF Good
  <2> QED
    BY <1>2, <2>1, SubsetInduction
<1> QED
  BY <1>3 DEF Max

\* What holds of 0 and of the next place of every place holds of the last.
LEMMA PlacesInduction ==
    ASSUME NEW n \in Nat, NEW Good, 0 \in Good, \A k \in 1..n : k - 1 \in Good => k \in Good
    PROVE  n \in Good
<1> DEFINE D == 1..n
           Up == {T \in SUBSET D : \A k \in 0..n : T = 1..k => k \in Good}
<1>1. ASSUME NEW T \in SUBSET D, \A U \in SUBSET T : U # T => U \in Up
      PROVE  T \in Up
  <2>1. SUFFICES ASSUME NEW k \in 0..n, T = 1..k PROVE k \in Good
    OBVIOUS
  <2>2. CASE k = 0
    BY <2>2
  <2>3. CASE k # 0
    <3>1. k \in 1..n /\ k - 1 \in 0..n
      BY <2>3
    <3> DEFINE U == 1..(k - 1)
    <3>2. U \in SUBSET T /\ k \in T /\ k \notin U
      BY <2>1, <3>1
    <3>3. U \in Up
      BY <1>1, <3>2
    <3>4. k - 1 \in Good
      BY <3>1, <3>3
    <3> QED
      BY <3>1, <3>4
  <2> QED
    BY <2>2, <2>3
<1>2. IsFiniteSet(D)
  BY FS_Interval
<1>3. D \in Up
  <2>1. \A T \in SUBSET D : (\A U \in SUBSET T : U # T => U \in Up) => T \in Up
    BY <1>1
  <2> HIDE DEF D, Up
  <2> QED
    BY <1>2, <2>1, SubsetInduction
<1> QED
  BY <1>3

\* A set of places has a first one.
LEMMA FirstPlace ==
    ASSUME NEW S \in SUBSET Nat, S # {}
    PROVE  Min(S) \in S
<1> DEFINE First == \E m \in S : \A y \in S : m <= y
           Good == {k \in Nat : First \/ \A y \in S : y >= k}
<1>1. PICK x \in S : TRUE
  OBVIOUS
<1>2. ASSUME NEW k \in 1..x, k - 1 \in Good PROVE k \in Good
  <2>1. CASE First
    BY <1>1, <2>1
  <2>2. CASE ~First
    <3>1. \A y \in S : y >= k - 1
      BY <1>2, <2>2
    <3>2. k - 1 \notin S
      BY <2>2, <3>1
    <3>3. \A y \in S : y >= k
      BY <1>1, <3>1, <3>2
    <3> QED
      BY <1>1, <3>3
  <2> QED
    BY <2>1, <2>2
<1>3. 0 \in Good /\ x \in Nat
  BY <1>1
<1>4. x \in Good
  <2> HIDE DEF Good
  <2> QED
    BY <1>2, <1>3, PlacesInduction
<1>5. First
  BY <1>1, <1>4
<1> QED
  BY <1>5 DEF Min

\* Steps that stay in X can be taken one after the other.
StaysIn(step, X, n) == \A y \in X, k \in 1..n : step[<<y, k>>] \in X
Steps(step, X, n, x) == {f \in [0..n -> X] : f[0] = x /\ \A k \in 1..n : f[k] = step[<<f[k - 1], k>>]}
LEMMA StepsExist ==
    ASSUME NEW n \in Nat, NEW X, NEW x \in X, NEW step, StaysIn(step, X, n)
    PROVE  Steps(step, X, n, x) # {}
<1> DEFINE Good == {m \in 0..n : \E f \in [0..m -> X] : f[0] = x /\ \A k \in 1..m : f[k] = step[<<f[k - 1], k>>]}
<1>0. \A y \in X, k \in 1..n : step[<<y, k>>] \in X
  BY DEF StaysIn
<1>1. 0 \in Good
  <2> DEFINE f == [k \in 0..0 |-> x]
  <2>1. f \in [0..0 -> X] /\ f[0] = x /\ \A k \in 1..0 : f[k] = step[<<f[k - 1], k>>]
    OBVIOUS
  <2> HIDE DEF f
  <2> QED
    BY <2>1
<1>2. ASSUME NEW m \in 1..n, m - 1 \in Good PROVE m \in Good
  <2>1. PICK f \in [0..(m - 1) -> X] : f[0] = x /\ \A k \in 1..(m - 1) : f[k] = step[<<f[k - 1], k>>]
    BY <1>2
  <2> DEFINE last == step[<<f[m - 1], m>>]
             g == [k \in 0..m |-> IF k = m THEN last ELSE f[k]]
  <2>2. m - 1 \in 0..(m - 1) /\ last \in X
    BY <1>0, <2>1
  <2> HIDE DEF last
  <2>3. g \in [0..m -> X]
    BY <2>1, <2>2
  <2>4. g[m] = last /\ \A k \in 0..(m - 1) : g[k] = f[k]
    OBVIOUS
  <2> HIDE DEF g
  <2>5. g[0] = x
    BY <2>1, <2>4
  <2>6. ASSUME NEW k \in 1..m PROVE g[k] = step[<<g[k - 1], k>>]
    <3>1. g[k - 1] = f[k - 1]
      BY <2>4
    <3>2. CASE k = m
      BY <2>4, <3>1, <3>2 DEF last
    <3>3. CASE k # m
      BY <2>1, <2>4, <3>1, <3>3
    <3> QED
      BY <3>2, <3>3
  <2> QED
    BY <2>3, <2>5, <2>6
<1>3. n \in Good
  <2> HIDE DEF Good
  <2> QED
    BY <1>1, <1>2, PlacesInduction
<1> QED
  BY <1>3 DEF Steps
=============================================================================
