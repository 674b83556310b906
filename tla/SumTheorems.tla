------------------------------ MODULE SumTheorems -----------------------------
(***************************************************************************)
(* The sum of the values of a function on a finite set (SumFunction of     *)
(* module Functions), which the cash desk computes over the movements of a *)
(* shift and a generation over days, prices and parts of a charge.  Its    *)
(* definition is recursive on the subsets of the set; that it defines      *)
(* something follows from the least subset for which it would not.         *)
(***************************************************************************)
EXTENDS Integers, FiniteSets, Functions, FiniteSetTheorems, TLAPS

(* The element of s that the definition takes next, and the function on    *)
(* the subsets of T that sums f in that order.                             *)
Picked(s) == CHOOSE x \in s : TRUE
Step(f, g, s) == IF s = {} THEN 0 ELSE f[Picked(s)] + g[s \ {Picked(s)}]
Sums(f, T, g) == g = [s \in SUBSET T |-> Step(f, g, s)]

LEMMA PickedIn ==
    ASSUME NEW s, s # {}
    PROVE  Picked(s) \in s
  BY DEF Picked

(* Among subsets of a finite set there is one that contains no other.      *)
LEMMA SmallestSubset ==
    ASSUME NEW S, IsFiniteSet(S), NEW Bad \in SUBSET SUBSET S, Bad # {}
    PROVE  \E T \in Bad : \A U \in SUBSET T : U # T => U \notin Bad
  <1>1. IsWellFoundedOn(StrictSubsetOrdering(S), FiniteSubsetsOf(S))
    BY FS_StrictSubsetOrderingWellFounded
  <1>2. FiniteSubsetsOf(S) = SUBSET S
    BY FS_FiniteSubsetsOfFinite
  <1>3. PICK T \in Bad : \A U \in Bad : ~ (<<U, T>> \in StrictSubsetOrdering(S))
    BY <1>1, <1>2, WFMin
  <1>4. \A U \in SUBSET T : U # T => U \notin Bad
    BY <1>3 DEF StrictSubsetOrdering
  <1> QED
    BY <1>4

(* Two such functions agree where both are defined.                        *)
LEMMA SumsAgree ==
    ASSUME NEW f, NEW T, IsFiniteSet(T), NEW U \in SUBSET T,
           NEW g, NEW h, Sums(f, T, g), Sums(f, U, h)
    PROVE  \A s \in SUBSET U : g[s] = h[s]
  <1> DEFINE Bad == {s \in SUBSET U : g[s] # h[s]}
  <1> SUFFICES ASSUME Bad # {} PROVE FALSE
    OBVIOUS
  <1>0. IsFiniteSet(U)
    BY FS_Subset
  <1>a. Bad \in SUBSET SUBSET U
    OBVIOUS
  <1>b. \E s \in Bad : \A t \in SUBSET s : t # s => t \notin Bad
    <2> HIDE DEF Bad
    <2> QED
      BY <1>0, <1>a, SmallestSubset
  <1>1. PICK s \in Bad : \A t \in SUBSET s : t # s => t \notin Bad
    BY <1>b
  <1>2. g[s] = Step(f, g, s) /\ h[s] = Step(f, h, s)
    BY DEF Sums
  <1>3. CASE s = {}
    BY <1>2, <1>3 DEF Step
  <1>4. CASE s # {}
    <2>1. Picked(s) \in s
      BY <1>4, PickedIn
    <2>2. g[s \ {Picked(s)}] = h[s \ {Picked(s)}]
      BY <1>1, <2>1
    <2> QED
      BY <1>2, <1>4, <2>2 DEF Step
  <1> QED
    BY <1>3, <1>4

(* There is such a function: one is put together for the smallest set that *)
(* would have none, from those of its subsets.                             *)
LEMMA SumsExist ==
    ASSUME NEW S, IsFiniteSet(S), NEW f \in [S -> Int]
    PROVE  \E g \in [SUBSET S -> Int] : Sums(f, S, g)
  <1> DEFINE Has(T) == \E g \in [SUBSET T -> Int] : Sums(f, T, g)
             Bad == {T \in SUBSET S : ~Has(T)}
  <1> SUFFICES ASSUME Bad # {} PROVE FALSE
    OBVIOUS
  <1>a. Bad \in SUBSET SUBSET S
    OBVIOUS
  <1>b. \E T \in Bad : \A U \in SUBSET T : U # T => U \notin Bad
    <2> HIDE DEF Bad
    <2> QED
      BY <1>a, SmallestSubset
  <1>1. PICK T \in Bad : \A U \in SUBSET T : U # T => U \notin Bad
    BY <1>b
  <1>2. \A U \in SUBSET T : U # T => Has(U)
    BY <1>1
  <1> HIDE DEF Bad
  <1> DEFINE Of(U) == CHOOSE g \in [SUBSET U -> Int] : Sums(f, U, g)
  <1>3. \A U \in SUBSET T : U # T => Of(U) \in [SUBSET U -> Int] /\ Sums(f, U, Of(U))
    BY <1>2
  <1> HIDE DEF Of, Has
  <1>4. IsFiniteSet(T) /\ T \in SUBSET S
    BY FS_Subset, <1>1 DEF Bad
  <1> DEFINE low(s) == Of(s)[s]
             top == IF T = {} THEN 0 ELSE f[Picked(T)] + low(T \ {Picked(T)})
             g == [s \in SUBSET T |-> IF s = T THEN top ELSE low(s)]
  <1>5. \A s \in SUBSET T : s # T => low(s) \in Int
    BY <1>3
  <1>6. \A s \in SUBSET T : s # T => \A t \in SUBSET s : Of(s)[t] = low(t)
    <2>1. SUFFICES ASSUME NEW s \in SUBSET T, NEW t \in SUBSET s, s # T PROVE Of(s)[t] = low(t)
      OBVIOUS
    <2>2. IsFiniteSet(s) /\ Sums(f, s, Of(s))
      BY <1>3, <1>4, <2>1, FS_Subset
    <2>3. t \in SUBSET T /\ t # T /\ t \in SUBSET s
      BY <2>1
    <2>4. Sums(f, t, Of(t))
      BY <1>3, <2>3
    <2> QED
      BY <2>1, <2>2, <2>3, <2>4, SumsAgree
  <1>7. top \in Int
    <2>1. T # {} => Picked(T) \in T
      BY PickedIn
    <2> QED
      BY <1>4, <1>5, <2>1
  <1>8. \A s \in SUBSET T : s # T => low(s) = IF s = {} THEN 0 ELSE f[Picked(s)] + low(s \ {Picked(s)})
    <2>1. SUFFICES ASSUME NEW s \in SUBSET T, s # T
                   PROVE  low(s) = IF s = {} THEN 0 ELSE f[Picked(s)] + low(s \ {Picked(s)})
      OBVIOUS
    <2>2. low(s) = Step(f, Of(s), s)
      BY <1>3, <2>1 DEF Sums
    <2>3. Of(s)[s \ {Picked(s)}] = low(s \ {Picked(s)})
      BY <1>6, <2>1
    <2> QED
      BY <2>2, <2>3 DEF Step
  <1> HIDE DEF low
  <1>9. g \in [SUBSET T -> Int]
    BY <1>5, <1>7
  <1>10. \A s \in SUBSET T : g[s] = Step(f, g, s)
    <2>1. ASSUME NEW s \in SUBSET T, s # {}
          PROVE  Picked(s) \in s /\ g[s \ {Picked(s)}] = low(s \ {Picked(s)})
      BY <2>1, PickedIn
    <2> QED
      BY <1>8, <2>1 DEF Step
  <1>11. Sums(f, T, g)
    BY <1>9, <1>10 DEF Sums
  <1>12. Has(T)
    BY <1>9, <1>11 DEF Has
  <1> QED
    BY <1>1, <1>12 DEF Bad

(* The sum of integers over a finite set is an integer.                    *)
LEMMA SumIsInt ==
    ASSUME NEW S, IsFiniteSet(S), NEW f \in [S -> Int]
    PROVE  SumFunction(f) \in Int
  <1> DEFINE fold == CHOOSE g : 
                 g = [s \in SUBSET S |->
                        IF s = {} THEN 0
                        ELSE f[CHOOSE x \in s : TRUE] + g[s \ {CHOOSE x \in s : TRUE}]]
  <1>1. SumFunction(f) = fold[S]
    <2>1. DOMAIN f = S
      OBVIOUS
    <2> QED
      BY <2>1, Zenon DEF SumFunction, SumFunctionOnSet, FoldFunctionOnSet, MapThenFoldSet
  <1>2. PICK g \in [SUBSET S -> Int] : Sums(f, S, g)
    BY SumsExist
  <1>3. \E h : 
            h = [s \in SUBSET S |->
                   IF s = {} THEN 0
                   ELSE f[CHOOSE x \in s : TRUE] + h[s \ {CHOOSE x \in s : TRUE}]]
    BY <1>2, Zenon DEF Sums, Step, Picked
  <1>4. fold = [s \in SUBSET S |->
                 IF s = {} THEN 0
                 ELSE f[CHOOSE x \in s : TRUE] + fold[s \ {CHOOSE x \in s : TRUE}]]
    BY <1>3, Zenon
  <1> HIDE DEF fold
  <1>5. Sums(f, S, fold)
    BY <1>4, Zenon DEF Sums, Step, Picked
  <1>6. fold[S] = g[S]
    BY <1>2, <1>5, SumsAgree
  <1> QED
    BY <1>1, <1>2, <1>6

(***************************************************************************)
(* The order of the elements does not matter.  The sums of f over all the  *)
(* subsets of S are tabulated in one function, and any element may be      *)
(* taken out of a set first.                                               *)
(***************************************************************************)
Part(f, T) == [x \in T |-> f[x]]
Tabulates(g, f, S) ==
  /\ g \in [SUBSET S -> Int] /\ g[{}] = 0
  /\ \A T \in SUBSET S : g[T] = SumFunction(Part(f, T))
  /\ \A T \in SUBSET S : \A x \in T : g[T] = f[x] + g[T \ {x}]

LEMMA SumIsOfATable ==
    ASSUME NEW S, IsFiniteSet(S), NEW f \in [S -> Int], NEW T \in SUBSET S,
           NEW g \in [SUBSET S -> Int], Sums(f, S, g)
    PROVE  SumFunction(Part(f, T)) = g[T]
  <1>0. IsFiniteSet(T)
    BY FS_Subset
  <1> DEFINE p == Part(f, T)
             fold == CHOOSE h : 
                 h = [s \in SUBSET T |->
                        IF s = {} THEN 0
                        ELSE p[CHOOSE x \in s : TRUE] + h[s \ {CHOOSE x \in s : TRUE}]]
  <1>1. p \in [T -> Int] /\ DOMAIN p = T /\ \A x \in T : p[x] = f[x]
    BY DEF Part
  <1>2. SumFunction(p) = fold[T]
    BY <1>1, Zenon DEF SumFunction, SumFunctionOnSet, FoldFunctionOnSet, MapThenFoldSet
  <1> HIDE DEF p
  <1>3. PICK h \in [SUBSET T -> Int] : Sums(p, T, h)
    BY <1>0, <1>1, SumsExist
  <1>4. \E k : 
            k = [s \in SUBSET T |->
                   IF s = {} THEN 0
                   ELSE p[CHOOSE x \in s : TRUE] + k[s \ {CHOOSE x \in s : TRUE}]]
    BY <1>3, ZenonT(30) DEF Sums, Step, Picked
  <1>5. fold = [s \in SUBSET T |->
                 IF s = {} THEN 0
                 ELSE p[CHOOSE x \in s : TRUE] + fold[s \ {CHOOSE x \in s : TRUE}]]
    BY <1>4, Zenon
  <1> HIDE DEF fold
  <1>6. Sums(p, T, fold)
    BY <1>5, Zenon DEF Sums, Step, Picked
  <1>7. \A s \in SUBSET T : Step(p, fold, s) = Step(f, fold, s)
    BY <1>1, PickedIn DEF Step
  <1>8. Sums(f, T, fold)
    BY <1>6, <1>7 DEF Sums
  <1>9. fold[T] = g[T]
    BY <1>8, SumsAgree
  <1> QED
    BY <1>2, <1>9 DEF p

LEMMA SumsTabulated ==
    ASSUME NEW S, IsFiniteSet(S), NEW f \in [S -> Int]
    PROVE  \E g : Tabulates(g, f, S)
  <1>1. PICK g \in [SUBSET S -> Int] : Sums(f, S, g)
    BY SumsExist
  <1>2. \A s \in SUBSET S : g[s] = Step(f, g, s)
    BY <1>1 DEF Sums
  <1>3. g[{}] = 0
    BY <1>2 DEF Step
  <1>4. \A T \in SUBSET S : g[T] = SumFunction(Part(f, T))
    BY <1>1, SumIsOfATable
  <1> DEFINE Bad == {T \in SUBSET S : \E x \in T : g[T] # f[x] + g[T \ {x}]}
  <1>5. Bad = {}
    <2> SUFFICES ASSUME Bad # {} PROVE FALSE
      OBVIOUS
    <2>1. Bad \in SUBSET SUBSET S
      OBVIOUS
    <2>2. \E T \in Bad : \A U \in SUBSET T : U # T => U \notin Bad
      <3> HIDE DEF Bad
      <3> QED
        BY <2>1, SmallestSubset
    <2>3. PICK T \in Bad : \A U \in SUBSET T : U # T => U \notin Bad
      BY <2>2
    <2>4. PICK x \in T : g[T] # f[x] + g[T \ {x}]
      BY <2>3
    <2>5. PICK y : y = Picked(T)
      OBVIOUS
    <2>6. y \in T /\ g[T] = f[y] + g[T \ {y}]
      BY <1>2, <2>4, <2>5, PickedIn DEF Step
    <2>7. x # y
      BY <2>4, <2>6
    <2>8. T \ {y} \notin Bad /\ T \ {x} \notin Bad /\ T \ {y} \in SUBSET S /\ T \ {x} \in SUBSET S
      BY <2>3, <2>4, <2>6
    <2>9. g[T \ {y}] = f[x] + g[(T \ {y}) \ {x}] /\ g[T \ {x}] = f[y] + g[(T \ {x}) \ {y}]
      BY <2>4, <2>6, <2>7, <2>8
    <2>10. (T \ {y}) \ {x} = (T \ {x}) \ {y} /\ (T \ {y}) \ {x} \in SUBSET S /\ x \in S /\ y \in S
      BY <2>3, <2>4, <2>6
    <2>11. PICK u \in Int : u = g[(T \ {y}) \ {x}]
      BY <2>10
    <2>12. f[x] \in Int /\ f[y] \in Int /\ g[(T \ {x}) \ {y}] = u
      BY <2>10, <2>11
    <2>13. g[T] = f[y] + (f[x] + u) /\ g[T \ {x}] = f[y] + u
      BY <2>6, <2>9, <2>11, <2>12
    <2>14. f[y] + (f[x] + u) = f[x] + (f[y] + u)
      BY <2>12
    <2> QED
      BY <2>4, <2>13, <2>14
  <1>6. \A T \in SUBSET S : \A x \in T : g[T] = f[x] + g[T \ {x}]
    BY <1>5
  <1> QED
    BY <1>3, <1>4, <1>6 DEF Tabulates

(* Facts on SumFunction itself: the sum over nothing, ...                  *)
LEMMA SumOfNothing ==
    ASSUME NEW f, DOMAIN f = {}, f = [x \in {} |-> 0]
    PROVE  SumFunction(f) = 0
  <1>1. PICK g : Tabulates(g, f, {})
    BY FS_EmptySet, SumsTabulated
  <1>2. Part(f, {}) = f
    BY DEF Part
  <1> QED
    BY <1>1, <1>2 DEF Tabulates

(* ... over one element, ...                                               *)
LEMMA SumOfOne ==
    ASSUME NEW x, NEW f \in [{x} -> Int]
    PROVE  SumFunction(f) = f[x]
  <1>1. PICK g : Tabulates(g, f, {x})
    BY FS_Singleton, SumsTabulated
  <1>2. Part(f, {x}) = f /\ {x} \ {x} = {}
    BY DEF Part
  <1>3. g[{x}] = f[x] + 0
    BY <1>1, <1>2 DEF Tabulates
  <1> QED
    BY <1>1, <1>2, <1>3 DEF Tabulates

(* ... over natural numbers, ...                                           *)
LEMMA SumIsNat ==
    ASSUME NEW S, IsFiniteSet(S), NEW f \in [S -> Nat]
    PROVE  SumFunction(f) \in Nat
  <1>0. f \in [S -> Int]
    OBVIOUS
  <1>1. PICK g : Tabulates(g, f, S)
    BY <1>0, SumsTabulated
  <1> DEFINE Bad == {T \in SUBSET S : g[T] \notin Nat}
  <1>2. Bad = {}
    <2> SUFFICES ASSUME Bad # {} PROVE FALSE
      OBVIOUS
    <2>1. Bad \in SUBSET SUBSET S
      OBVIOUS
    <2>2. \E T \in Bad : \A U \in SUBSET T : U # T => U \notin Bad
      <3> HIDE DEF Bad
      <3> QED
        BY <2>1, SmallestSubset
    <2>3. PICK T \in Bad : \A U \in SUBSET T : U # T => U \notin Bad
      BY <2>2
    <2>4. T # {}
      <3>1. g[T] # 0 /\ g[{}] = 0
        BY <1>1, <2>3 DEF Tabulates
      <3> HIDE DEF Bad
      <3> QED
        BY <3>1
    <2>5. PICK x \in T : TRUE
      BY <2>4
    <2>6. g[T] = f[x] + g[T \ {x}] /\ g[T \ {x}] \in Nat
      BY <1>1, <2>3, <2>5 DEF Tabulates
    <2> QED
      BY <2>3, <2>5, <2>6
  <1>3. Part(f, S) = f
    BY DEF Part
  <1> QED
    BY <1>1, <1>2, <1>3 DEF Tabulates

(* ... over the two parts of a set, ...                                    *)
LEMMA SumOfTwoParts ==
    ASSUME NEW S, IsFiniteSet(S), NEW f \in [S -> Int],
           NEW A \in SUBSET S, NEW B \in SUBSET S, A \cup B = S, A \cap B = {}
    PROVE  SumFunction(f) = SumFunction(Part(f, A)) + SumFunction(Part(f, B))
  <1>1. PICK g : Tabulates(g, f, S)
    BY SumsTabulated
  <1>2. \A T \in SUBSET S : g[T] \in Int
    BY <1>1 DEF Tabulates
  <1> DEFINE Bad == {T \in SUBSET A : g[T \cup B] # g[T] + g[B]}
  <1>3. Bad = {}
    <2> SUFFICES ASSUME Bad # {} PROVE FALSE
      OBVIOUS
    <2>0. IsFiniteSet(A)
      BY FS_Subset
    <2>1. Bad \in SUBSET SUBSET A
      OBVIOUS
    <2>2. \E T \in Bad : \A U \in SUBSET T : U # T => U \notin Bad
      <3> HIDE DEF Bad
      <3> QED
        BY <2>0, <2>1, SmallestSubset
    <2>3. PICK T \in Bad : \A U \in SUBSET T : U # T => U \notin Bad
      BY <2>2
    <2>4. T # {}
      <3>1. {} \cup B = B /\ g[{}] = 0 /\ g[B] \in Int
        BY <1>1, <1>2 DEF Tabulates
      <3>2. g[{} \cup B] = g[{}] + g[B]
        BY <3>1
      <3>3. g[T \cup B] # g[T] + g[B]
        BY <2>3
      <3> HIDE DEF Bad
      <3> QED
        BY <3>2, <3>3
    <2>5. PICK x \in T : TRUE
      BY <2>4
    <2>6. T \ {x} \in SUBSET A /\ T \ {x} \notin Bad
      BY <2>3, <2>5
    <2>7. g[(T \ {x}) \cup B] = g[T \ {x}] + g[B]
      BY <2>6
    <2>8. (T \cup B) \ {x} = (T \ {x}) \cup B /\ T \cup B \in SUBSET S /\ x \in T \cup B
      BY <2>3, <2>5
    <2>9. g[T \cup B] = f[x] + g[(T \ {x}) \cup B] /\ g[T] = f[x] + g[T \ {x}]
      <3>1. \A U \in SUBSET S : \A y \in U : g[U] = f[y] + g[U \ {y}]
        BY <1>1 DEF Tabulates
      <3>2. T \in SUBSET S
        BY <2>3
      <3>3. g[T \cup B] = f[x] + g[(T \cup B) \ {x}]
        BY <2>8, <3>1
      <3> QED
        BY <2>5, <2>8, <3>1, <3>2, <3>3
    <2>10. f[x] \in Int /\ g[T \ {x}] \in Int /\ g[B] \in Int
      BY <1>2, <2>5, <2>6
    <2> QED
      BY <2>3, <2>7, <2>9, <2>10
  <1>4. g[A \cup B] = g[A] + g[B]
    BY <1>3
  <1>5. Part(f, S) = f
    BY DEF Part
  <1> QED
    BY <1>1, <1>4, <1>5 DEF Tabulates

(* ... of one value, as often as there are elements, ...                   *)
LEMMA SumOfOneValue ==
    ASSUME NEW S, IsFiniteSet(S), NEW c \in Int, NEW f \in [S -> {c}]
    PROVE  SumFunction(f) = Cardinality(S) * c
  <1>0. f \in [S -> Int] /\ \A x \in S : f[x] = c
    OBVIOUS
  <1>1. PICK g : Tabulates(g, f, S)
    BY <1>0, SumsTabulated
  <1> DEFINE Bad == {T \in SUBSET S : g[T] # Cardinality(T) * c}
  <1>2. Bad = {}
    <2> SUFFICES ASSUME Bad # {} PROVE FALSE
      OBVIOUS
    <2>1. Bad \in SUBSET SUBSET S
      OBVIOUS
    <2>2. \E T \in Bad : \A U \in SUBSET T : U # T => U \notin Bad
      <3> HIDE DEF Bad
      <3> QED
        BY <2>1, SmallestSubset
    <2>3. PICK T \in Bad : \A U \in SUBSET T : U # T => U \notin Bad
      BY <2>2
    <2>4. T # {}
      <3>1. g[T] # Cardinality(T) * c /\ g[{}] = 0 /\ Cardinality({}) = 0
        BY <1>1, <2>3, FS_EmptySet DEF Tabulates
      <3>2. 0 * c = 0
        OBVIOUS
      <3> HIDE DEF Bad
      <3> QED
        BY <3>1, <3>2
    <2>5. PICK x \in T : TRUE
      BY <2>4
    <2>6. PICK U : U = T \ {x}
      OBVIOUS
    <2>7. g[T] = f[x] + g[U] /\ f[x] = c /\ g[U] = Cardinality(U) * c
      BY <1>0, <1>1, <2>3, <2>5, <2>6 DEF Tabulates
    <2>8. PICK n \in Nat : n = Cardinality(U) /\ Cardinality(T) = n + 1
      <3>1. IsFiniteSet(U) /\ x \notin U /\ T = U \cup {x}
        BY <2>3, <2>5, <2>6, FS_Subset
      <3> QED
        BY <3>1, FS_AddElement, FS_CardinalityType
    <2>9. c + n * c = (n + 1) * c
      OBVIOUS
    <2>10. g[T] # Cardinality(T) * c
      BY <2>3
    <2> HIDE DEF Bad
    <2> QED
      BY <2>7, <2>8, <2>9, <2>10
  <1>3. Part(f, S) = f
    BY DEF Part
  <1> QED
    BY <1>1, <1>2, <1>3 DEF Tabulates

(* ... over what another set is mapped to one to one, ...                  *)
LEMMA SumOfImage ==
    ASSUME NEW S, IsFiniteSet(S), NEW f \in [S -> Int], NEW R, IsFiniteSet(R),
           NEW h \in [S -> R], NEW g \in [R -> Int],
           \A x \in S : g[h[x]] = f[x],
           \A x, y \in S : h[x] = h[y] => x = y,
           \A r \in R : \E x \in S : h[x] = r
    PROVE  SumFunction(g) = SumFunction(f)
  <1>1. PICK F : Tabulates(F, f, S)
    BY SumsTabulated
  <1>2. PICK G : Tabulates(G, g, R)
    BY SumsTabulated
  <1> DEFINE Img(T) == {h[x] : x \in T}
             Bad == {T \in SUBSET S : G[Img(T)] # F[T]}
  <1>3. Bad = {}
    <2> SUFFICES ASSUME Bad # {} PROVE FALSE
      OBVIOUS
    <2>1. Bad \in SUBSET SUBSET S
      OBVIOUS
    <2>2. \E T \in Bad : \A U \in SUBSET T : U # T => U \notin Bad
      <3> HIDE DEF Bad
      <3> QED
        BY <2>1, SmallestSubset
    <2>3. PICK T \in Bad : \A U \in SUBSET T : U # T => U \notin Bad
      BY <2>2
    <2>4. T # {}
      <3>1. G[Img(T)] # F[T] /\ F[{}] = 0 /\ G[{}] = 0
        BY <1>1, <1>2, <2>3 DEF Tabulates
      <3>2. Img({}) = {}
        OBVIOUS
      <3> HIDE DEF Bad, Img
      <3> QED
        BY <3>1, <3>2
    <2>5. PICK x \in T : TRUE
      BY <2>4
    <2>6. PICK U : U = T \ {x}
      OBVIOUS
    <2>7. G[Img(U)] = F[U] /\ F[T] = f[x] + F[U]
      BY <1>1, <2>3, <2>5, <2>6 DEF Tabulates
    <2>8. Img(T) \in SUBSET R /\ h[x] \in Img(T) /\ T \in SUBSET S /\ x \in S
      BY <2>3, <2>5
    <2>9. Img(T) \ {h[x]} = Img(U)
      BY <2>5, <2>6, <2>8
    <2>10. G[Img(T)] # F[T]
      BY <2>3
    <2> HIDE DEF Bad, Img
    <2>11. G[Img(T)] = g[h[x]] + G[Img(T) \ {h[x]}]
      BY <1>2, <2>8 DEF Tabulates
    <2> QED
      BY <2>7, <2>8, <2>9, <2>10, <2>11
  <1>4. Img(S) = R /\ Part(f, S) = f /\ Part(g, R) = g
    BY DEF Part
  <1>5. G[Img(S)] = F[S]
    BY <1>3
  <1> HIDE DEF Img
  <1> QED
    BY <1>1, <1>2, <1>4, <1>5 DEF Tabulates

(* ... and over groups no two of which share an element: the sum of the    *)
(* sums of the groups is the sum over all of them.                         *)
LEMMA SumOfGroups ==
    ASSUME NEW S, IsFiniteSet(S), NEW f \in [S -> Int],
           NEW I, IsFiniteSet(I), NEW D \in [I -> SUBSET S],
           \A i, j \in I : i # j => D[i] \cap D[j] = {},
           \A x \in S : \E i \in I : x \in D[i]
    PROVE  SumFunction([i \in I |-> SumFunction(Part(f, D[i]))]) = SumFunction(f)
  <1>1. PICK F : Tabulates(F, f, S)
    BY SumsTabulated
  <1> DEFINE t == [i \in I |-> SumFunction(Part(f, D[i]))]
  <1>2. t \in [I -> Int] /\ \A i \in I : t[i] = F[D[i]]
    BY <1>1 DEF Tabulates
  <1> HIDE DEF t
  <1>3. PICK G : Tabulates(G, t, I)
    BY <1>2, SumsTabulated
  <1> DEFINE All(J) == UNION {D[i] : i \in J}
             Bad == {J \in SUBSET I : G[J] # F[All(J)]}
  <1>4. Bad = {}
    <2> SUFFICES ASSUME Bad # {} PROVE FALSE
      OBVIOUS
    <2>1. Bad \in SUBSET SUBSET I
      OBVIOUS
    <2>2. \E J \in Bad : \A U \in SUBSET J : U # J => U \notin Bad
      <3> HIDE DEF Bad
      <3> QED
        BY <2>1, SmallestSubset
    <2>3. PICK J \in Bad : \A U \in SUBSET J : U # J => U \notin Bad
      BY <2>2
    <2>4. J # {}
      <3>1. G[J] # F[All(J)] /\ F[{}] = 0 /\ G[{}] = 0
        BY <1>1, <1>3, <2>3 DEF Tabulates
      <3>2. All({}) = {}
        OBVIOUS
      <3> HIDE DEF Bad, All
      <3> QED
        BY <3>1, <3>2
    <2>5. PICK i \in J : TRUE
      BY <2>4
    <2>6. PICK U : U = J \ {i}
      OBVIOUS
    <2>7. G[U] = F[All(U)] /\ G[J] = t[i] + G[U] /\ J \in SUBSET I /\ U \in SUBSET I /\ i \in I
      BY <1>3, <2>3, <2>5, <2>6 DEF Tabulates
    <2>8. All(J) = D[i] \cup All(U)
      BY <2>5, <2>6
    <2>9. D[i] \cap All(U) = {}
      BY <2>6, <2>7
    <2>10. All(J) \in SUBSET S /\ D[i] \in SUBSET S /\ All(U) \in SUBSET S
      BY <2>7
    <2>11. G[J] # F[All(J)]
      BY <2>3
    <2> HIDE DEF Bad, All
    <2>12. F[All(J)] = F[D[i]] + F[All(U)]
      <3>1. IsFiniteSet(All(J))
        BY <2>10, FS_Subset
      <3> DEFINE p == Part(f, All(J))
      <3>2. p \in [All(J) -> Int]
        BY <2>10 DEF Part
      <3>3. Part(p, D[i]) = Part(f, D[i]) /\ Part(p, All(U)) = Part(f, All(U))
        BY <2>8 DEF Part
      <3> HIDE DEF p
      <3>4. SumFunction(p) = SumFunction(Part(p, D[i])) + SumFunction(Part(p, All(U)))
        <4>1. /\ D[i] \in SUBSET All(J) /\ All(U) \in SUBSET All(J)
              /\ D[i] \cup All(U) = All(J) /\ D[i] \cap All(U) = {}
          BY <2>8, <2>9
        <4> QED
          BY <3>1, <3>2, <4>1, SumOfTwoParts
      <3> QED
        BY <1>1, <2>10, <3>3, <3>4 DEF Tabulates, p
    <2> QED
      BY <1>2, <2>7, <2>11, <2>12
  <1>5. All(I) = S
    OBVIOUS
  <1>6. G[I] = F[All(I)]
    BY <1>4
  <1> HIDE DEF All
  <1>7. Part(f, S) = f /\ Part(t, I) = t
    BY <1>2 DEF Part
  <1>8. SumFunction(t) = SumFunction(f)
    BY <1>1, <1>3, <1>5, <1>6, <1>7 DEF Tabulates
  <1> QED
    BY <1>8 DEF t

(***************************************************************************)
(* Going through the elements of a finite set in any fixed order: the      *)
(* result for a set is a step, with the element that comes last, from the  *)
(* result for the others.  The order and the step are functions.           *)
(***************************************************************************)
Pass(start, step, last, g, s) ==
  IF s = {} THEN start ELSE step[<<g[s \ {last[s]}], last[s]>>]
Passes(start, step, last, T, g) == g = [s \in SUBSET T |-> Pass(start, step, last, g, s)]

LEMMA PassesAgree ==
    ASSUME NEW T, IsFiniteSet(T), NEW U \in SUBSET T, NEW start, NEW step, NEW last,
           \A s \in SUBSET T : s # {} => last[s] \in s,
           NEW g, NEW h, Passes(start, step, last, T, g), Passes(start, step, last, U, h)
    PROVE  \A s \in SUBSET U : g[s] = h[s]
  <1> DEFINE Bad == {s \in SUBSET U : g[s] # h[s]}
  <1> SUFFICES ASSUME Bad # {} PROVE FALSE
    OBVIOUS
  <1>0. IsFiniteSet(U)
    BY FS_Subset
  <1>a. Bad \in SUBSET SUBSET U
    OBVIOUS
  <1>b. \E s \in Bad : \A t \in SUBSET s : t # s => t \notin Bad
    <2> HIDE DEF Bad
    <2> QED
      BY <1>0, <1>a, SmallestSubset
  <1>1. PICK s \in Bad : \A t \in SUBSET s : t # s => t \notin Bad
    BY <1>b
  <1>2. g[s] = Pass(start, step, last, g, s) /\ h[s] = Pass(start, step, last, h, s)
    BY DEF Passes
  <1>3. CASE s = {}
    BY <1>2, <1>3 DEF Pass
  <1>4. CASE s # {}
    <2>1. last[s] \in s
      BY <1>4
    <2>2. g[s \ {last[s]}] = h[s \ {last[s]}]
      BY <1>1, <2>1
    <2> QED
      BY <1>2, <1>4, <2>2 DEF Pass
  <1> QED
    BY <1>3, <1>4

LEMMA PassesExist ==
    ASSUME NEW S, IsFiniteSet(S), NEW A, NEW start \in A, NEW step \in [A \X S -> A], NEW last,
           \A s \in SUBSET S : s # {} => last[s] \in s
    PROVE  \E g \in [SUBSET S -> A] : Passes(start, step, last, S, g)
  <1> DEFINE P(T, g) == Passes(start, step, last, T, g)
             Has(T) == \E g \in [SUBSET T -> A] : P(T, g)
             Bad == {T \in SUBSET S : ~Has(T)}
  <1> SUFFICES ASSUME Bad # {} PROVE FALSE
    OBVIOUS
  <1>a. Bad \in SUBSET SUBSET S
    OBVIOUS
  <1>b. \E T \in Bad : \A U \in SUBSET T : U # T => U \notin Bad
    <2> HIDE DEF Bad
    <2> QED
      BY <1>a, SmallestSubset
  <1>1. PICK T \in Bad : \A U \in SUBSET T : U # T => U \notin Bad
    BY <1>b
  <1>2. \A U \in SUBSET T : U # T => Has(U)
    BY <1>1
  <1> HIDE DEF Bad, P
  <1> DEFINE Of(U) == CHOOSE g \in [SUBSET U -> A] : P(U, g)
  <1>3. \A U \in SUBSET T : U # T => Of(U) \in [SUBSET U -> A] /\ P(U, Of(U))
    BY <1>2
  <1> HIDE DEF Of, Has
  <1>4. IsFiniteSet(T) /\ T \in SUBSET S
    BY FS_Subset, <1>1 DEF Bad
  <1> DEFINE low(s) == Of(s)[s]
             top == IF T = {} THEN start ELSE step[<<low(T \ {last[T]}), last[T]>>]
             g == [s \in SUBSET T |-> IF s = T THEN top ELSE low(s)]
  <1>5. \A s \in SUBSET T : s # T => low(s) \in A
    <2> SUFFICES ASSUME NEW s \in SUBSET T, s # T PROVE Of(s)[s] \in A
      OBVIOUS
    <2>1. Of(s) \in [SUBSET s -> A] /\ s \in SUBSET s
      BY <1>3
    <2> QED
      BY <2>1, Zenon
  <1>6. \A s \in SUBSET T : s # T => \A t \in SUBSET s : Of(s)[t] = low(t)
    <2>1. SUFFICES ASSUME NEW s \in SUBSET T, NEW t \in SUBSET s, s # T PROVE Of(s)[t] = low(t)
      OBVIOUS
    <2>2. IsFiniteSet(s) /\ P(s, Of(s))
      BY <1>3, <1>4, <2>1, FS_Subset
    <2>3. t \in SUBSET T /\ t # T /\ t \in SUBSET s
      BY <2>1
    <2>4. P(t, Of(t))
      BY <1>3, <2>3
    <2>5. \A u \in SUBSET s : u # {} => last[u] \in u
      BY <1>4
    <2> QED
      BY <2>1, <2>2, <2>3, <2>4, <2>5, PassesAgree DEF P
  <1>7. top \in A
    <2>1. T # {} => last[T] \in T
      BY <1>4
    <2>2. T # {} => low(T \ {last[T]}) \in A /\ last[T] \in S
      BY <1>4, <1>5, <2>1
    <2> HIDE DEF low
    <2> QED
      BY <2>2
  <1>8. \A s \in SUBSET T : s # T => low(s) = IF s = {} THEN start ELSE step[<<low(s \ {last[s]}), last[s]>>]
    <2>1. SUFFICES ASSUME NEW s \in SUBSET T, s # T
                   PROVE  low(s) = IF s = {} THEN start ELSE step[<<low(s \ {last[s]}), last[s]>>]
      OBVIOUS
    <2>2. low(s) = Pass(start, step, last, Of(s), s)
      <3>1. P(s, Of(s)) /\ s \in SUBSET s
        BY <1>3, <2>1
      <3>2. Of(s) = [u \in SUBSET s |-> Pass(start, step, last, Of(s), u)]
        BY <3>1 DEF Passes, P
      <3> QED
        BY <3>1, <3>2, Zenon
    <2>3. Of(s)[s \ {last[s]}] = low(s \ {last[s]})
      BY <1>6, <2>1
    <2> QED
      BY <2>2, <2>3 DEF Pass
  <1> HIDE DEF low
  <1>9. g \in [SUBSET T -> A]
    BY <1>5, <1>7
  <1>10. \A s \in SUBSET T : g[s] = Pass(start, step, last, g, s)
    <2>1. ASSUME NEW s \in SUBSET T, s # {}
          PROVE  last[s] \in s /\ g[s \ {last[s]}] = low(s \ {last[s]})
      BY <1>4, <2>1
    <2> QED
      BY <1>8, <2>1 DEF Pass
  <1>11. P(T, g)
    BY <1>9, <1>10 DEF Passes, P
  <1>12. Has(T)
    BY <1>9, <1>11 DEF Has
  <1> QED
    BY <1>1, <1>12 DEF Bad

=============================================================================
