------------------------------ MODULE FoldLemmas ------------------------------
(***************************************************************************)
(* What the folds of the community modules compute on finite sets: sums    *)
(* (MapThenSumSet, and FoldSeq with +) and Max and Min.  The folds are     *)
(* recursive functions on the subsets of the set they fold, that is, the   *)
(* function CHOOSE finds for an equation.  That there is one, and what it  *)
(* returns, takes induction on finite sets; the library states induction   *)
(* with an operator as parameter, which the provers cannot instantiate, so *)
(* here it is the existence of a smallest counterexample: a set among sets *)
(* of subsets that contains no other (SmallestSubset).                     *)
(***************************************************************************)
EXTENDS Integers, FiniteSetsExt, FiniteSetTheorems, TLAPS

\* The body of MapThenSumSet(LAMBDA x : f[x], S), for a function f.
Pick(s) == CHOOSE x \in s : TRUE
SumStep(f, g, s) == IF s = {} THEN 0 ELSE f[Pick(s)] + g[s \ {Pick(s)}]
SumsUp(f, S, g) == g = [s \in SUBSET S |-> SumStep(f, g, s)]
PartSums(f, S) == CHOOSE g : SumsUp(f, S, g)
SumOver(f, S) == PartSums(f, S)[S]
-------------------------------------------------------------------------------
\* Of some subsets of a finite set one contains no other.
LEMMA SmallestSubset ==
    ASSUME NEW S, IsFiniteSet(S), NEW T, T \subseteq SUBSET S, T # {}
    PROVE  \E s \in T : \A t \in T : t \subseteq s => t = s
<1> DEFINE R == StrictSubsetOrdering(S)
<1>1. T \subseteq FiniteSubsetsOf(S)
  BY FS_Subset DEF FiniteSubsetsOf
<1>2. IsWellFoundedOn(R, FiniteSubsetsOf(S))
  BY FS_StrictSubsetOrderingWellFounded
<1>3. PICK s \in T : \A t \in T : <<t, s>> \notin R
  <2> HIDE DEF R
  <2>1. QED
    BY <1>1, <1>2, WFMin
<1>4. \A t \in T : t \subseteq s => t = s
  BY <1>3 DEF StrictSubsetOrdering
<1>5. QED
  BY <1>4

\* The image of a finite set.
LEMMA FiniteImage ==
    ASSUME NEW S, IsFiniteSet(S), NEW f
    PROVE  IsFiniteSet({f[x] : x \in S})
<1> DEFINE T == {f[x] : x \in S}
           g == [x \in S |-> f[x]]
<1>1. g \in Surjection(S, T)
  BY DEF Surjection
<1> HIDE DEF T, g
<1>2. QED
  BY <1>1, FS_Surjection DEF T

\* Two functions that sum up agree where both are defined.
LEMMA SumsAgree ==
    ASSUME NEW f, NEW S, NEW T, IsFiniteSet(S), NEW g, NEW h,
           SumsUp(f, S, g), SumsUp(f, T, h)
    PROVE  \A s \in SUBSET (S \cap T) : g[s] = h[s]
<1> DEFINE Bad == {s \in SUBSET (S \cap T) : g[s] # h[s]}
<1> SUFFICES ASSUME Bad # {} PROVE FALSE
  OBVIOUS
<1>1. PICK s \in Bad : \A t \in Bad : t \subseteq s => t = s
  <2>1. Bad \subseteq SUBSET S
    OBVIOUS
  <2> HIDE DEF Bad
  <2>2. QED
    BY <2>1, SmallestSubset
<1>2. g[s] = SumStep(f, g, s) /\ h[s] = SumStep(f, h, s)
  BY DEF SumsUp
<1>3. CASE s = {}
  BY <1>2, <1>3 DEF SumStep
<1>4. CASE s # {}
  <2>1. Pick(s) \in s
    BY <1>4 DEF Pick
  <2>2. s \ {Pick(s)} \notin Bad /\ s \ {Pick(s)} \in SUBSET (S \cap T)
    BY <1>1, <2>1
  <2>3. QED
    BY <1>2, <1>4, <2>2 DEF SumStep
<1>5. QED
  BY <1>3, <1>4

LEMMA SumsExist ==
    ASSUME NEW f, NEW S, IsFiniteSet(S)
    PROVE  SumsUp(f, S, PartSums(f, S))
<1> DEFINE Bad == {T \in SUBSET S : ~SumsUp(f, T, PartSums(f, T))}
<1> SUFFICES ASSUME Bad # {} PROVE FALSE
  OBVIOUS
<1>1. PICK T \in Bad : \A U \in Bad : U \subseteq T => U = T
  <2> HIDE DEF Bad
  <2>1. Bad \subseteq SUBSET S
    BY DEF Bad
  <2>2. QED
    BY <2>1, SmallestSubset
<1> DEFINE x == Pick(T)
           G == [s \in SUBSET T |->
                   IF s = T THEN SumStep(f, [u \in SUBSET T |-> SumOver(f, u)], T)
                   ELSE SumOver(f, s)]
<1>2. \A U \in SUBSET T : U # T => SumsUp(f, U, PartSums(f, U))
  BY <1>1
<1>3. ASSUME NEW s \in SUBSET T, s # T PROVE SumOver(f, s) = SumStep(f, G, s)
  <2>1. SumOver(f, s) = SumStep(f, PartSums(f, s), s)
    BY <1>2, <1>3 DEF SumOver, SumsUp
  <2>2. CASE s = {}
    BY <2>1, <2>2 DEF SumStep
  <2>3. CASE s # {}
    <3> DEFINE u == s \ {Pick(s)}
    <3>1. u \in SUBSET s /\ u \in SUBSET T /\ u # T
      BY <2>3 DEF Pick
    <3>2. PartSums(f, s)[u] = PartSums(f, u)[u]
      <4>1. SumsUp(f, s, PartSums(f, s)) /\ SumsUp(f, u, PartSums(f, u))
        BY <1>2, <1>3, <3>1
      <4>2. IsFiniteSet(s) /\ u \in SUBSET (s \cap u)
        BY <3>1, FS_Subset
      <4> HIDE DEF u
      <4>3. QED
        BY <4>1, <4>2, SumsAgree
    <3>3. G[u] = PartSums(f, u)[u]
      BY <3>1 DEF SumOver
    <3>4. SumStep(f, PartSums(f, s), s) = f[Pick(s)] + PartSums(f, s)[u]
      BY <2>3 DEF SumStep
    <3>5. SumStep(f, G, s) = f[Pick(s)] + G[u]
      BY <2>3 DEF SumStep
    <3> HIDE DEF u, G
    <3>6. QED
      BY <2>1, <3>2, <3>3, <3>4, <3>5
  <2>4. QED
    BY <2>2, <2>3
<1>4. SumStep(f, [u \in SUBSET T |-> SumOver(f, u)], T) = SumStep(f, G, T)
  <2>1. CASE T = {}
    BY <2>1 DEF SumStep
  <2>2. CASE T # {}
    <3>1. T \ {x} \in SUBSET T /\ T \ {x} # T
      BY <2>2 DEF Pick
    <3>2. G[T \ {x}] = SumOver(f, T \ {x})
      BY <3>1
    <3>3. QED
      BY <2>2, <3>1, <3>2 DEF SumStep
  <2>3. QED
    BY <2>1, <2>2
<1>5. SumsUp(f, T, G)
  <2>1. \A s \in SUBSET T : G[s] = SumStep(f, G, s)
    BY <1>3, <1>4
  <2>2. G = [s \in SUBSET T |-> G[s]]
    OBVIOUS
  <2> HIDE DEF G
  <2>3. QED
    BY <2>1, <2>2 DEF SumsUp
<1> HIDE DEF G
<1>6. SumsUp(f, T, PartSums(f, T))
  BY <1>5 DEF PartSums
<1>7. QED
  BY <1>1, <1>6
-------------------------------------------------------------------------------
\* The equation of a sum.
LEMMA SumPick ==
    ASSUME NEW f, NEW S, IsFiniteSet(S)
    PROVE  /\ SumOver(f, {}) = 0
           /\ S # {} => SumOver(f, S) = f[Pick(S)] + SumOver(f, S \ {Pick(S)})
<1>1. ASSUME NEW T, IsFiniteSet(T)
      PROVE  SumOver(f, T) = SumStep(f, PartSums(f, T), T)
  <2>1. SumsUp(f, T, PartSums(f, T))
    BY <1>1, SumsExist
  <2>2. QED
    BY <2>1 DEF SumOver, SumsUp
<1>2. SumOver(f, {}) = 0
  BY <1>1, FS_EmptySet DEF SumStep
<1>3. ASSUME S # {} PROVE SumOver(f, S) = f[Pick(S)] + SumOver(f, S \ {Pick(S)})
  <2> DEFINE u == S \ {Pick(S)}
  <2>1. u \in SUBSET (S \cap u) /\ IsFiniteSet(u)
    BY FS_Subset
  <2>2. SumsUp(f, S, PartSums(f, S)) /\ SumsUp(f, u, PartSums(f, u))
    BY <2>1, SumsExist
  <2>3. PartSums(f, S)[u] = PartSums(f, u)[u]
    <3> HIDE DEF u
    <3>1. QED
      BY <2>1, <2>2, SumsAgree
  <2>4. QED
    BY <1>1, <1>3, <2>3 DEF SumStep, SumOver
<1>4. QED
  BY <1>2, <1>3

\* A sum of integers is one, and a sum of naturals a natural number.
LEMMA SumType ==
    ASSUME NEW S, IsFiniteSet(S), NEW f, NEW N, N \in {Nat, Int}, \A x \in S : f[x] \in N
    PROVE  SumOver(f, S) \in N
<1> DEFINE Bad == {T \in SUBSET S : SumOver(f, T) \notin N}
<1> SUFFICES ASSUME Bad # {} PROVE FALSE
  OBVIOUS
<1>1. PICK T \in Bad : \A U \in Bad : U \subseteq T => U = T
  <2> HIDE DEF Bad
  <2>1. Bad \subseteq SUBSET S
    BY DEF Bad
  <2>2. QED
    BY <2>1, SmallestSubset
<1>2. IsFiniteSet(T)
  BY FS_Subset
<1>3. T # {}
  <2>1. SumOver(f, {}) = 0
    BY <1>2, SumPick
  <2>2. 0 \in N
    OBVIOUS
  <2>3. QED
    BY <2>1, <2>2
<1>4. Pick(T) \in T
  BY <1>3 DEF Pick
<1>5. SumOver(f, T \ {Pick(T)}) \in N
  BY <1>1, <1>4
<1>6. SumOver(f, T) = f[Pick(T)] + SumOver(f, T \ {Pick(T)})
  BY <1>2, <1>3, SumPick
<1>7. f[Pick(T)] \in N
  BY <1>4
<1>8. QED
  BY <1>5, <1>6, <1>7

\* It does not matter which element is taken out.
LEMMA SumRemove ==
    ASSUME NEW S, IsFiniteSet(S), NEW f, \A x \in S : f[x] \in Int, NEW y \in S
    PROVE  SumOver(f, S) = f[y] + SumOver(f, S \ {y})
<1> DEFINE Right(T) == \A z \in T : SumOver(f, T) = f[z] + SumOver(f, T \ {z})
           Bad == {T \in SUBSET S : ~Right(T)}
<1> SUFFICES ASSUME Bad # {} PROVE FALSE
  OBVIOUS
<1>1. PICK T \in Bad : \A U \in Bad : U \subseteq T => U = T
  <2> HIDE DEF Bad
  <2>1. Bad \subseteq SUBSET S
    BY DEF Bad
  <2>2. QED
    BY <2>1, SmallestSubset
<1>2. PICK z \in T : SumOver(f, T) # f[z] + SumOver(f, T \ {z})
  OBVIOUS
<1> DEFINE p == Pick(T)
<1>3. p \in T /\ IsFiniteSet(T) /\ IsFiniteSet(T \ {p}) /\ IsFiniteSet(T \ {z})
      /\ IsFiniteSet(T \ {p, z})
  BY FS_Subset DEF Pick
<1>4. SumOver(f, T) = f[p] + SumOver(f, T \ {p}) /\ p # z
  BY <1>2, <1>3, SumPick
<1>5. Right(T \ {p}) /\ Right(T \ {z})
  BY <1>1, <1>3
<1>6. SumOver(f, T \ {p}) = f[z] + SumOver(f, (T \ {p}) \ {z})
  BY <1>4, <1>5
<1>7. SumOver(f, T \ {z}) = f[p] + SumOver(f, (T \ {z}) \ {p})
  BY <1>3, <1>4, <1>5
<1>8. (T \ {p}) \ {z} = T \ {p, z} /\ (T \ {z}) \ {p} = T \ {p, z}
  OBVIOUS
<1>9. SumOver(f, T \ {p, z}) \in Int /\ f[p] \in Int /\ f[z] \in Int
  BY <1>3, SumType
<1>10. QED
  BY <1>2, <1>4, <1>6, <1>7, <1>8, <1>9

LEMMA SumAdd ==
    ASSUME NEW S, IsFiniteSet(S), NEW f, NEW y, y \notin S, \A x \in S \cup {y} : f[x] \in Int
    PROVE  SumOver(f, S \cup {y}) = SumOver(f, S) + f[y]
<1>1. IsFiniteSet(S \cup {y}) /\ (S \cup {y}) \ {y} = S
  BY FS_AddElement
<1>2. SumOver(f, S \cup {y}) = f[y] + SumOver(f, S)
  BY <1>1, SumRemove
<1>3. SumOver(f, S) \in Int /\ f[y] \in Int
  BY SumType
<1>4. QED
  BY <1>2, <1>3

\* Only the values on the set count.
LEMMA SumSame ==
    ASSUME NEW S, IsFiniteSet(S), NEW f, NEW g, \A x \in S : f[x] = g[x]
    PROVE  SumOver(f, S) = SumOver(g, S)
<1> DEFINE Bad == {T \in SUBSET S : SumOver(f, T) # SumOver(g, T)}
<1> SUFFICES ASSUME Bad # {} PROVE FALSE
  OBVIOUS
<1>1. PICK T \in Bad : \A U \in Bad : U \subseteq T => U = T
  <2> HIDE DEF Bad
  <2>1. Bad \subseteq SUBSET S
    BY DEF Bad
  <2>2. QED
    BY <2>1, SmallestSubset
<1>2. IsFiniteSet(T)
  BY FS_Subset
<1>3. T # {}
  BY <1>2, SumPick
<1>4. Pick(T) \in T
  BY <1>3 DEF Pick
<1>5. /\ SumOver(f, T) = f[Pick(T)] + SumOver(f, T \ {Pick(T)})
      /\ SumOver(g, T) = g[Pick(T)] + SumOver(g, T \ {Pick(T)})
  BY <1>2, <1>3, SumPick
<1>6. SumOver(f, T \ {Pick(T)}) = SumOver(g, T \ {Pick(T)})
  BY <1>1, <1>4
<1>7. QED
  BY <1>4, <1>5, <1>6

\* Fewer addends, none of them negative, make no larger sum.
LEMMA SumMonotone ==
    ASSUME NEW S, IsFiniteSet(S), NEW f, \A x \in S : f[x] \in Nat, NEW T \in SUBSET S
    PROVE  SumOver(f, T) <= SumOver(f, S)
<1> DEFINE Bad == {U \in SUBSET S : T \subseteq U /\ ~(SumOver(f, T) <= SumOver(f, U))}
<1> SUFFICES ASSUME Bad # {} PROVE FALSE
  OBVIOUS
<1>1. PICK U \in Bad : \A V \in Bad : V \subseteq U => V = U
  <2> HIDE DEF Bad
  <2>1. Bad \subseteq SUBSET S
    BY DEF Bad
  <2>2. QED
    BY <2>1, SmallestSubset
<1>2. IsFiniteSet(T) /\ IsFiniteSet(U)
  BY FS_Subset
<1>3. SumOver(f, T) \in Nat /\ SumOver(f, U) \in Nat
  BY <1>2, SumType
<1>4. PICK y \in U : y \notin T
  <2>1. U # T
    BY <1>3
  <2>2. QED
    BY <2>1
<1>5. SumOver(f, U) = f[y] + SumOver(f, U \ {y})
  BY <1>2, SumRemove
<1>6. SumOver(f, T) <= SumOver(f, U \ {y})
  BY <1>1, <1>4
<1>7. IsFiniteSet(U \ {y}) /\ f[y] \in Nat
  BY <1>2, FS_Subset
<1>8. SumOver(f, U \ {y}) \in Nat
  BY <1>7, SumType
<1>9. QED
  BY <1>1, <1>3, <1>5, <1>6, <1>7, <1>8

\* Addends that are zero do not count.
LEMMA SumSparse ==
    ASSUME NEW S, IsFiniteSet(S), NEW f, \A x \in S : f[x] \in Int,
           NEW T \in SUBSET S, \A x \in S \ T : f[x] = 0
    PROVE  SumOver(f, S) = SumOver(f, T)
<1> DEFINE Bad == {U \in SUBSET S : T \subseteq U /\ SumOver(f, U) # SumOver(f, T)}
<1> SUFFICES ASSUME Bad # {} PROVE FALSE
  OBVIOUS
<1>1. PICK U \in Bad : \A V \in Bad : V \subseteq U => V = U
  <2> HIDE DEF Bad
  <2>1. Bad \subseteq SUBSET S
    BY DEF Bad
  <2>2. QED
    BY <2>1, SmallestSubset
<1>2. PICK y \in U : y \notin T
  OBVIOUS
<1>3. SumOver(f, U) = f[y] + SumOver(f, U \ {y})
  <2>1. IsFiniteSet(U)
    BY FS_Subset
  <2>2. QED
    BY <2>1, SumRemove
<1>4. SumOver(f, U \ {y}) = SumOver(f, T)
  BY <1>1, <1>2
<1>5. SumOver(f, T) \in Int
  <2>1. IsFiniteSet(T)
    BY FS_Subset
  <2>2. QED
    BY <2>1, SumType
<1>6. QED
  BY <1>1, <1>2, <1>3, <1>4, <1>5
-------------------------------------------------------------------------------
\* A finite set of integers has a largest and a smallest element.
LEMMA MaxExists ==
    ASSUME NEW S, IsFiniteSet(S), \A x \in S : x \in Int, S # {}
    PROVE  Max(S) \in S /\ \A y \in S : y <= Max(S)
<1> DEFINE Above(x) == {y \in S : y > x}
           Sets == {Above(x) : x \in S}
<1>1. PICK A \in Sets : \A B \in Sets : B \subseteq A => B = A
  <2>1. Sets \subseteq SUBSET S /\ Sets # {}
    OBVIOUS
  <2>2. \E A \in Sets : \A B \in Sets : B \subseteq A => B = A
    <3> HIDE DEF Sets
    <3>1. QED
      BY <2>1, SmallestSubset
  <2>3. QED
    BY <2>2
<1>2. PICK x \in S : A = Above(x)
  OBVIOUS
<1>3. \A y \in S : x >= y
  <2> SUFFICES ASSUME NEW y \in S, y > x PROVE FALSE
    OBVIOUS
  <2>1. Above(y) \in Sets /\ y \in A /\ y \notin Above(y)
    BY <1>2
  <2>3. \A z \in Above(y) : z \in Above(x)
    OBVIOUS
  <2>2. QED
    BY <1>1, <1>2, <2>1, <2>3
<1>4. Max(S) \in S /\ \A y \in S : Max(S) >= y
  BY <1>3 DEF Max
<1>5. QED
  BY <1>4

LEMMA MinExists ==
    ASSUME NEW S, IsFiniteSet(S), \A x \in S : x \in Int, S # {}
    PROVE  Min(S) \in S /\ \A y \in S : Min(S) <= y
<1> DEFINE Below(x) == {y \in S : y < x}
           Sets == {Below(x) : x \in S}
<1>1. PICK A \in Sets : \A B \in Sets : B \subseteq A => B = A
  <2>1. Sets \subseteq SUBSET S /\ Sets # {}
    OBVIOUS
  <2>2. \E A \in Sets : \A B \in Sets : B \subseteq A => B = A
    <3> HIDE DEF Sets
    <3>1. QED
      BY <2>1, SmallestSubset
  <2>3. QED
    BY <2>2
<1>2. PICK x \in S : A = Below(x)
  OBVIOUS
<1>3. \A y \in S : x <= y
  <2> SUFFICES ASSUME NEW y \in S, y < x PROVE FALSE
    OBVIOUS
  <2>1. Below(y) \in Sets /\ y \in A /\ y \notin Below(y)
    BY <1>2
  <2>3. \A z \in Below(y) : z \in Below(x)
    OBVIOUS
  <2>2. QED
    BY <1>1, <1>2, <2>1, <2>3
<1>4. QED
  BY <1>3 DEF Min

\* The largest and the smallest of some values and a bound.
Values(f, S) == {f[x] : x \in S}

LEMMA MaxOfValues ==
    ASSUME NEW S, IsFiniteSet(S), NEW f, \A x \in S : f[x] \in Int, NEW z \in Int
    PROVE  LET m == Max({z} \cup Values(f, S))
           IN  /\ m \in Int
               /\ z <= m
               /\ \A x \in S : f[x] <= m
               /\ (m = z \/ \E x \in S : m = f[x])
<1> DEFINE E == {z} \cup Values(f, S)
<1>1. IsFiniteSet(Values(f, S))
  BY FiniteImage DEF Values
<1>2. {z} \cup Values(f, S) = Values(f, S) \cup {z}
  OBVIOUS
<1>3. IsFiniteSet(E)
  BY <1>1, <1>2, FS_AddElement
<1>4. (\A y \in E : y \in Int) /\ E # {}
  BY DEF Values
<1> HIDE DEF E
<1>5. Max(E) \in E /\ \A y \in E : y <= Max(E)
  BY <1>3, <1>4, MaxExists
<1>6. QED
  BY <1>4, <1>5 DEF E, Values

LEMMA MinOfValues ==
    ASSUME NEW S, IsFiniteSet(S), NEW f, \A x \in S : f[x] \in Int, NEW z \in Int
    PROVE  LET m == Min({z} \cup Values(f, S))
           IN  /\ m \in Int
               /\ m <= z
               /\ \A x \in S : m <= f[x]
               /\ (m = z \/ \E x \in S : m = f[x])
<1> DEFINE E == {z} \cup Values(f, S)
<1>1. IsFiniteSet(Values(f, S))
  BY FiniteImage DEF Values
<1>2. {z} \cup Values(f, S) = Values(f, S) \cup {z}
  OBVIOUS
<1>3. IsFiniteSet(E)
  BY <1>1, <1>2, FS_AddElement
<1>4. (\A y \in E : y \in Int) /\ E # {}
  BY DEF Values
<1> HIDE DEF E
<1>5. Min(E) \in E /\ \A y \in E : Min(E) <= y
  BY <1>3, <1>4, MinExists
<1>6. QED
  BY <1>4, <1>5 DEF E, Values

\* There is one largest and one smallest.
LEMMA MaxIs ==
    ASSUME NEW S, \A x \in S : x \in Int, NEW m \in S, \A y \in S : y <= m
    PROVE  Max(S) = m
<1>1. Max(S) \in S /\ \A y \in S : Max(S) >= y
  BY DEF Max
<1>2. QED
  BY <1>1

LEMMA MinIs ==
    ASSUME NEW S, \A x \in S : x \in Int, NEW m \in S, \A y \in S : m <= y
    PROVE  Min(S) = m
<1>1. Min(S) \in S /\ \A y \in S : Min(S) <= y
  BY DEF Min
<1>2. QED
  BY <1>1
==============================================================================
