---------------------------- MODULE GenerationProofs ----------------------------
(* What a generation guarantees for any prices, members, benefits, keys and     *)
(* bodies.  First the arithmetic of a plan: whatever boundaries a month is cut  *)
(* at, its components are worth their days, and whatever rules there are, the   *)
(* discounts are what the charge is less than them.  Then the executions, where *)
(* of a plan it matters only that it is sound.                                  *)
EXTENDS Generation, SumTheorems

--------------------------------------------------------------------------------
\* Whole numbers

\* The one quotient that fits
LEMMA QuotientIs ==
  ASSUME NEW n \in Int, NEW d \in Nat \ {0}, NEW q \in Int, q * d <= n, n < (q + 1) * d
  PROVE  n \div d = q
  OBVIOUS

LEMMA QuotientOf ==
  ASSUME NEW n \in Int, NEW d \in Nat \ {0}
  PROVE  /\ n \div d \in Int /\ n % d \in 0 .. d - 1
         /\ n % d = n - (n \div d) * d
  OBVIOUS

LEMMA QuotientIsNat ==
  ASSUME NEW n \in Nat, NEW d \in Nat \ {0}
  PROVE  n \div d \in Nat
  OBVIOUS

\* Rounding the half up is rounding down the double with its half.
LEMMA RoundedIs ==
  ASSUME NEW n \in Nat, NEW d \in Nat \ {0}
  PROVE  Rounded(n, d) = (2 * n + d) \div (2 * d) /\ Rounded(n, d) \in Nat
  <1>1. PICK q \in Nat : q = n \div d
    BY QuotientIsNat
  <1>2. PICK r \in 0 .. d - 1 : r = n % d
    BY QuotientOf
  <1>3. PICK p \in Int : p = q * d
    OBVIOUS
  <1>4. n = p + r
    <2>1. r = n - p
      BY <1>1, <1>2, <1>3, QuotientOf
    <2> QED
      BY <2>1
  <1>5. 2 * d \in Nat \ {0} /\ 2 * n + d \in Int
    OBVIOUS
  <1>6. CASE 2 * r >= d
    <2>1. (q + 1) * (2 * d) = 2 * p + 2 * d /\ (q + 1 + 1) * (2 * d) = 2 * p + 4 * d
      BY <1>3
    <2>2. (q + 1) * (2 * d) <= 2 * n + d /\ 2 * n + d < (q + 1 + 1) * (2 * d)
      BY <1>4, <1>6, <2>1
    <2>3. (2 * n + d) \div (2 * d) = q + 1
      BY <1>5, <2>2, QuotientIs
    <2> QED
      BY <1>1, <1>2, <1>6, <2>3 DEF Rounded
  <1>7. CASE ~ (2 * r >= d)
    <2>1. q * (2 * d) = 2 * p /\ (q + 1) * (2 * d) = 2 * p + 2 * d
      BY <1>3
    <2>2. q * (2 * d) <= 2 * n + d /\ 2 * n + d < (q + 1) * (2 * d)
      BY <1>4, <1>7, <2>1
    <2>3. (2 * n + d) \div (2 * d) = q
      BY <1>5, <2>2, QuotientIs
    <2> QED
      BY <1>1, <1>2, <1>7, <2>3 DEF Rounded
  <1> QED
    BY <1>6, <1>7

\* The greatest and the least of a finite set of numbers are of it.
LEMMA GreatestOf ==
  ASSUME NEW S \in SUBSET Int, IsFiniteSet(S), S # {}
  PROVE  Max(S) \in S /\ \A x \in S : x <= Max(S)
  <1> DEFINE Has(T) == \E m \in T : \A x \in T : m >= x
             Bad == {T \in SUBSET S : T # {} /\ ~Has(T)}
  <1>1. Bad = {}
    <2> SUFFICES ASSUME Bad # {} PROVE FALSE
      OBVIOUS
    <2>1. Bad \in SUBSET SUBSET S
      OBVIOUS
    <2>2. \E T \in Bad : \A U \in SUBSET T : U # T => U \notin Bad
      <3> HIDE DEF Bad
      <3> QED
        BY <2>1, SmallestSubset
    <2>3. PICK T \in Bad : \A U \in SUBSET T : U # T => U \notin Bad
      BY <2>2
    <2>4. PICK x \in T : TRUE
      BY <2>3
    <2>5. PICK U : U = T \ {x}
      OBVIOUS
    <2>6. U \notin Bad /\ U \in SUBSET S
      BY <2>3, <2>4, <2>5
    <2>7. CASE U = {}
      BY <2>3, <2>4, <2>5, <2>7
    <2>8. CASE U # {}
      <3>1. PICK m \in U : \A y \in U : m >= y
        BY <2>6, <2>8
      <3>2. \A y \in T : y = x \/ y \in U
        BY <2>5
      <3>3. \/ x >= m /\ \A y \in T : x >= y
            \/ m >= x /\ \A y \in T : m >= y
        BY <2>3, <2>5, <3>1, <3>2
      <3> QED
        BY <2>3, <2>5, <3>1, <3>3
    <2> QED
      BY <2>7, <2>8
  <1>2. \E m \in S : \A x \in S : m >= x
    BY <1>1
  <1>3. Max(S) \in S /\ \A x \in S : Max(S) >= x
    BY <1>2, Zenon DEF Max
  <1> QED
    BY <1>3

LEMMA LeastOf ==
  ASSUME NEW S \in SUBSET Int, IsFiniteSet(S), S # {}
  PROVE  Min(S) \in S /\ \A x \in S : Min(S) <= x
  <1> DEFINE Has(T) == \E m \in T : \A x \in T : m <= x
             Bad == {T \in SUBSET S : T # {} /\ ~Has(T)}
  <1>1. Bad = {}
    <2> SUFFICES ASSUME Bad # {} PROVE FALSE
      OBVIOUS
    <2>1. Bad \in SUBSET SUBSET S
      OBVIOUS
    <2>2. \E T \in Bad : \A U \in SUBSET T : U # T => U \notin Bad
      <3> HIDE DEF Bad
      <3> QED
        BY <2>1, SmallestSubset
    <2>3. PICK T \in Bad : \A U \in SUBSET T : U # T => U \notin Bad
      BY <2>2
    <2>4. PICK x \in T : TRUE
      BY <2>3
    <2>5. PICK U : U = T \ {x}
      OBVIOUS
    <2>6. U \notin Bad /\ U \in SUBSET S
      BY <2>3, <2>4, <2>5
    <2>7. CASE U = {}
      BY <2>3, <2>4, <2>5, <2>7
    <2>8. CASE U # {}
      <3>1. PICK m \in U : \A y \in U : m <= y
        BY <2>6, <2>8
      <3>2. \A y \in T : y = x \/ y \in U
        BY <2>5
      <3>3. \/ x <= m /\ \A y \in T : x <= y
            \/ m <= x /\ \A y \in T : m <= y
        BY <2>3, <2>5, <3>1, <3>2
      <3> QED
        BY <2>3, <2>5, <3>1, <3>3
    <2> QED
      BY <2>7, <2>8
  <1>2. \E m \in S : \A x \in S : m <= x
    BY <1>1
  <1> QED
    BY <1>2, Zenon DEF Min

LEMMA OfTwo ==
  ASSUME NEW a \in Int, NEW b \in Int
  PROVE  /\ Max({a, b}) = IF a >= b THEN a ELSE b
         /\ Min({a, b}) = IF a <= b THEN a ELSE b
  <1>1. IsFiniteSet({a, b}) /\ {a, b} \in SUBSET Int /\ {a, b} # {}
    <2>1. IsFiniteSet({a}) /\ {a, b} = {a} \cup {b}
      BY FS_Singleton
    <2> QED
      BY <2>1, FS_AddElement
  <1>2. Max({a, b}) \in {a, b} /\ \A x \in {a, b} : x <= Max({a, b})
    BY <1>1, GreatestOf
  <1>3. Min({a, b}) \in {a, b} /\ \A x \in {a, b} : Min({a, b}) <= x
    BY <1>1, LeastOf
  <1> QED
    BY <1>2, <1>3

--------------------------------------------------------------------------------
\* What a component of a month costs: day by day, whatever it is cut into

\* Intervals of days
Between(i) == i.from .. i.to - 1
HasEnds(i) == i.from \in Int /\ i.to \in Int

\* What is in both begins with the later and ends with the earlier.
LEMMA MeetOf ==
  ASSUME NEW a, HasEnds(a), NEW b, HasEnds(b)
  PROVE  /\ HasEnds(Meet(a, b))
         /\ Meet(a, b).from >= a.from /\ Meet(a, b).from >= b.from
         /\ Meet(a, b).from = a.from \/ Meet(a, b).from = b.from
         /\ Meet(a, b).to <= a.to /\ Meet(a, b).to <= b.to
         /\ Meet(a, b).to = a.to \/ Meet(a, b).to = b.to
  <1>1. PICK f \in Int : f = Max({a.from, b.from})
    BY OfTwo DEF HasEnds
  <1>2. PICK t \in Int : t = Min({a.to, b.to})
    BY OfTwo DEF HasEnds
  <1>3. Meet(a, b) = [from |-> f, to |-> t]
    BY <1>1, <1>2 DEF Meet
  <1>4. f >= a.from /\ f >= b.from /\ (f = a.from \/ f = b.from)
    BY <1>1, OfTwo DEF HasEnds
  <1>5. t <= a.to /\ t <= b.to /\ (t = a.to \/ t = b.to)
    <2>1. PICK x \in Int, y \in Int : x = a.to /\ y = b.to
      BY DEF HasEnds
    <2>2. t = IF x <= y THEN x ELSE y
      BY <1>2, <2>1, OfTwo
    <2> QED
      BY <2>1, <2>2
  <1> QED
    BY <1>3, <1>4, <1>5 DEF HasEnds

\* A price is of some days.
LEMMA PriceHasEnds ==
  ASSUME NEW p \in DOMAIN Catalogue
  PROVE  HasEnds(Catalogue[p])
  BY CatalogueAssumption DEF HasEnds

\* What the intervals are cut from: eligible days and the prices that meet them
Cut(e, C) ==
  /\ HasEnds(e) /\ e.from < e.to
  /\ C \in SUBSET DOMAIN Catalogue
  /\ \A p \in C : Overlap(e, Catalogue[p])

\* The boundaries are eligible days, and all the ends of the prices are there.
LEMMA BoundsOf ==
  ASSUME NEW e, NEW C, Cut(e, C)
  PROVE  /\ IsFiniteSet(Bounds(e, C)) /\ Bounds(e, C) \in SUBSET (e.from .. e.to)
         /\ e.from \in Bounds(e, C) /\ e.to \in Bounds(e, C)
         /\ \A p \in C : Meet(e, Catalogue[p]).from \in Bounds(e, C)
                         /\ Meet(e, Catalogue[p]).to \in Bounds(e, C)
  <1>1. \A p \in C : /\ HasEnds(Meet(e, Catalogue[p]))
                     /\ Meet(e, Catalogue[p]).from >= e.from /\ Meet(e, Catalogue[p]).to <= e.to
                     /\ Meet(e, Catalogue[p]).from < Meet(e, Catalogue[p]).to
    BY MeetOf, PriceHasEnds DEF Cut, Overlap
  <1>2. e.from \in e.from .. e.to /\ e.to \in e.from .. e.to
    BY DEF Cut, HasEnds
  <1>3. \A p \in C : Meet(e, Catalogue[p]).from \in e.from .. e.to /\ Meet(e, Catalogue[p]).to \in e.from .. e.to
    <2> SUFFICES ASSUME NEW p \in C
                 PROVE  Meet(e, Catalogue[p]).from \in e.from .. e.to /\ Meet(e, Catalogue[p]).to \in e.from .. e.to
      OBVIOUS
    <2>1. PICK f, t : f = Meet(e, Catalogue[p]).from /\ t = Meet(e, Catalogue[p]).to
      OBVIOUS
    <2>2. f \in Int /\ t \in Int /\ f >= e.from /\ t <= e.to /\ f < t /\ e.from \in Int /\ e.to \in Int
      BY <1>1, <2>1 DEF HasEnds, Cut
    <2> QED
      BY <2>1, <2>2
  <1> DEFINE F(p) == Meet(e, Catalogue[p]).from
             T(p) == Meet(e, Catalogue[p]).to
  <1>a. Bounds(e, C) = {e.from, e.to} \cup {F(p) : p \in C} \cup {T(p) : p \in C}
    BY DEF Bounds
  <1>4. Bounds(e, C) \in SUBSET (e.from .. e.to)
    <2>1. \A p \in C : F(p) \in e.from .. e.to /\ T(p) \in e.from .. e.to
      BY <1>3
    <2> HIDE DEF F, T
    <2> QED
      BY <1>2, <1>a, <2>1
  <1>5. IsFiniteSet(Bounds(e, C))
    BY <1>4, FS_Interval, FS_Subset DEF Cut, HasEnds
  <1>6. e.from \in Bounds(e, C) /\ e.to \in Bounds(e, C)
    <2> HIDE DEF F, T
    <2> QED
      BY <1>a
  <1>7. \A p \in C : F(p) \in Bounds(e, C) /\ T(p) \in Bounds(e, C)
    <2> HIDE DEF F, T
    <2> QED
      BY <1>a
  <1> QED
    BY <1>4, <1>5, <1>6, <1>7

\* The intervals run from one boundary to the next: nothing begins or ends
\* inside one, and every eligible day is in one and in no other.
LEMMA IntervalsOf ==
  ASSUME NEW e, NEW C, Cut(e, C)
  PROVE  /\ IsFiniteSet(Intervals(e, C))
         /\ \A i \in Intervals(e, C) :
              /\ HasEnds(i) /\ i.from < i.to /\ e.from <= i.from /\ i.to <= e.to
              /\ \A b \in Bounds(e, C) : b <= i.from \/ i.to <= b
         /\ \A d \in Between(e) : \E i \in Intervals(e, C) : i.from <= d /\ d < i.to
         /\ \A i, j \in Intervals(e, C) : i # j => i.to <= j.from \/ j.to <= i.from
  <1> DEFINE B == Bounds(e, C)
             After(a) == {b \in B : b > a}
             From(a) == [from |-> a, to |-> Min(After(a))]
             I == Intervals(e, C)
  <1>0. e.from \in Int /\ e.to \in Int /\ e.from < e.to
    BY DEF Cut, HasEnds
  <1>1. IsFiniteSet(B) /\ B \in SUBSET (e.from .. e.to) /\ e.from \in B /\ e.to \in B
    BY BoundsOf
  <1>2. I = {From(a) : a \in B \ {Max(B)}}
    BY DEF Intervals
  <1> HIDE DEF B, I
  <1>3. Max(B) = e.to
    <2>1. B \in SUBSET Int /\ B # {}
      BY <1>0, <1>1
    <2>2. Max(B) \in B /\ \A x \in B : x <= Max(B)
      BY <1>1, <2>1, GreatestOf
    <2>3. PICK m : m = Max(B)
      OBVIOUS
    <2>4. m \in e.from .. e.to /\ e.to <= m
      BY <1>1, <2>2, <2>3
    <2> QED
      BY <1>0, <2>3, <2>4
  <1>4. \A a \in B \ {Max(B)} :
          /\ Min(After(a)) \in B /\ Min(After(a)) > a
          /\ \A b \in B : b <= a \/ Min(After(a)) <= b
    <2> SUFFICES ASSUME NEW a \in B \ {Max(B)}
                 PROVE  /\ Min(After(a)) \in B /\ Min(After(a)) > a
                        /\ \A b \in B : b <= a \/ Min(After(a)) <= b
      OBVIOUS
    <2>1. a \in Int /\ a < e.to
      BY <1>0, <1>1, <1>3
    <2>2. After(a) \in SUBSET Int /\ After(a) # {} /\ After(a) \in SUBSET B
      <3>1. e.to \in After(a) /\ B \in SUBSET Int /\ After(a) \in SUBSET B
        BY <1>0, <1>1, <2>1
      <3> HIDE DEF After
      <3> QED
        BY <3>1
    <2>3. IsFiniteSet(After(a))
      BY <1>1, <2>2, FS_Subset
    <2>4. Min(After(a)) \in After(a) /\ \A x \in After(a) : Min(After(a)) <= x
      <3> HIDE DEF After
      <3> QED
        BY <2>2, <2>3, LeastOf
    <2> QED
      BY <1>0, <1>1, <2>1, <2>4
  <1> HIDE DEF After
  <1>5. IsFiniteSet(I)
    <2>1. IsFiniteSet(B \ {Max(B)})
      BY <1>1, FS_RemoveElement
    <2> DEFINE f == [a \in B \ {Max(B)} |-> From(a)]
    <2>2. f \in Surjection(B \ {Max(B)}, I)
      <3> HIDE DEF From
      <3> QED
        BY <1>2 DEF Surjection
    <2> QED
      BY <2>1, <2>2, FS_Surjection
  <1>6. \A i \in I : /\ HasEnds(i) /\ i.from < i.to /\ e.from <= i.from /\ i.to <= e.to
                     /\ i.from \in B
                     /\ \A b \in B : b <= i.from \/ i.to <= b
    <2> SUFFICES ASSUME NEW i \in I
                 PROVE  /\ HasEnds(i) /\ i.from < i.to /\ e.from <= i.from /\ i.to <= e.to
                        /\ i.from \in B
                        /\ \A b \in B : b <= i.from \/ i.to <= b
      OBVIOUS
    <2>1. PICK a \in B \ {Max(B)} : i = From(a)
      BY <1>2
    <2>2. PICK t : t = Min(After(a))
      OBVIOUS
    <2>3. i = [from |-> a, to |-> t] /\ t \in B /\ t > a /\ \A b \in B : b <= a \/ t <= b
      BY <1>4, <2>1, <2>2
    <2>4. a \in e.from .. e.to /\ t \in e.from .. e.to
      BY <1>1, <2>3
    <2> QED
      BY <1>0, <2>1, <2>3, <2>4 DEF HasEnds
  <1>7. ASSUME NEW d \in Between(e) PROVE \E i \in I : i.from <= d /\ d < i.to
    <2>0. d \in Int /\ e.from <= d /\ d < e.to
      BY <1>0, <1>7 DEF Between
    <2> DEFINE Upto == {b \in B : b <= d}
    <2>1. Upto \in SUBSET B /\ Upto \in SUBSET Int /\ Upto # {}
      <3>1. e.from \in Upto /\ B \in SUBSET Int /\ Upto \in SUBSET B
        BY <1>0, <1>1, <2>0
      <3> HIDE DEF Upto
      <3> QED
        BY <3>1
    <2>2. IsFiniteSet(Upto)
      BY <1>1, <2>1, FS_Subset
    <2>3. PICK a \in Upto : \A x \in Upto : x <= a
      <3> HIDE DEF Upto
      <3> QED
        BY <2>1, <2>2, GreatestOf
    <2>4. a \in B \ {Max(B)} /\ a <= d
      BY <1>0, <1>3, <2>0, <2>3
    <2>5. PICK t : t = Min(After(a))
      OBVIOUS
    <2>6. t \in B /\ t > a
      BY <1>4, <2>4, <2>5
    <2>7. t \in Int /\ a \in Int
      BY <1>0, <1>1, <2>4, <2>6
    <2>8. d < t
      BY <2>0, <2>3, <2>6, <2>7
    <2>9. [from |-> a, to |-> t] \in I
      BY <1>2, <2>4, <2>5
    <2> QED
      BY <2>4, <2>8, <2>9
  <1>8. ASSUME NEW i \in I, NEW j \in I, i # j PROVE i.to <= j.from \/ j.to <= i.from
    <2>1. i.from # j.from
      BY <1>2, <1>8
    <2>2. (j.from <= i.from \/ i.to <= j.from) /\ (i.from <= j.from \/ j.to <= i.from)
      BY <1>6
    <2>3. i.from \in Int /\ j.from \in Int
      BY <1>6 DEF HasEnds
    <2> QED
      BY <2>1, <2>2, <2>3
  <1> QED
    BY <1>5, <1>6, <1>7, <1>8 DEF B, I

\* The prices of a kind that meet an interval, and those that run on a day
Meeting(e, kind, P) == {p \in P : Catalogue[p].kind = kind /\ Overlap(e, Catalogue[p])}
Running(d, kind, P) ==
  {p \in P : Catalogue[p].kind = kind /\ Catalogue[p].from <= d /\ d < Catalogue[p].to}

\* On the days of one interval the same prices run: those that meet it.
LEMMA SamePricesOnItsDays ==
  ASSUME NEW e, NEW P \in SUBSET DOMAIN Catalogue, NEW kind, HasEnds(e), e.from < e.to,
         NEW C, C = Meeting(e, kind, P),
         NEW i \in Intervals(e, C), NEW d \in Between(i)
  PROVE  Covering(i, C) = Running(d, kind, P)
  <1>1. Cut(e, C)
    BY DEF Cut, Meeting
  <1>2. /\ HasEnds(i) /\ i.from < i.to /\ e.from <= i.from /\ i.to <= e.to
        /\ \A b \in Bounds(e, C) : b <= i.from \/ i.to <= b
    BY <1>1, IntervalsOf
  <1>3. d \in Int /\ i.from <= d /\ d < i.to /\ e.from <= d /\ d < e.to
    BY <1>2 DEF Between, HasEnds
  <1>4. ASSUME NEW p \in P, Catalogue[p].from <= d, d < Catalogue[p].to
        PROVE  Overlap(i, Catalogue[p]) /\ Overlap(e, Catalogue[p])
    <2>1. HasEnds(Catalogue[p])
      BY PriceHasEnds
    <2>2. /\ HasEnds(Meet(i, Catalogue[p])) /\ HasEnds(Meet(e, Catalogue[p]))
          /\ Meet(i, Catalogue[p]).from = i.from \/ Meet(i, Catalogue[p]).from = Catalogue[p].from
          /\ Meet(i, Catalogue[p]).to = i.to \/ Meet(i, Catalogue[p]).to = Catalogue[p].to
          /\ Meet(e, Catalogue[p]).from = e.from \/ Meet(e, Catalogue[p]).from = Catalogue[p].from
          /\ Meet(e, Catalogue[p]).to = e.to \/ Meet(e, Catalogue[p]).to = Catalogue[p].to
      BY <1>2, <2>1, MeetOf
    <2>3. Meet(i, Catalogue[p]).from <= d /\ d < Meet(i, Catalogue[p]).to
      BY <1>3, <1>4, <2>2
    <2>4. Meet(e, Catalogue[p]).from <= d /\ d < Meet(e, Catalogue[p]).to
      BY <1>3, <1>4, <2>2
    <2> QED
      BY <1>3, <2>2, <2>3, <2>4 DEF Overlap, HasEnds
  <1>5. ASSUME NEW p \in C, Overlap(i, Catalogue[p])
        PROVE  Catalogue[p].from <= d /\ d < Catalogue[p].to
    <2>1. HasEnds(Catalogue[p]) /\ HasEnds(e) /\ HasEnds(i)
      BY <1>2, PriceHasEnds DEF Meeting
    <2>2. PICK f \in Int, t \in Int : f = Catalogue[p].from /\ t = Catalogue[p].to
      BY <2>1 DEF HasEnds
    <2>3. f < i.to /\ i.from < t
      <3>1. /\ Meet(i, Catalogue[p]).from >= i.from /\ Meet(i, Catalogue[p]).from >= f
            /\ Meet(i, Catalogue[p]).to <= i.to /\ Meet(i, Catalogue[p]).to <= t
            /\ HasEnds(Meet(i, Catalogue[p])) /\ Meet(i, Catalogue[p]).from < Meet(i, Catalogue[p]).to
        BY <1>5, <2>1, <2>2, MeetOf DEF Overlap
      <3> QED
        BY <2>1, <2>2, <3>1 DEF HasEnds
    <2>4. /\ Meet(e, Catalogue[p]).from \in Bounds(e, C) /\ Meet(e, Catalogue[p]).to \in Bounds(e, C)
          /\ Meet(e, Catalogue[p]).from = e.from \/ Meet(e, Catalogue[p]).from = f
          /\ Meet(e, Catalogue[p]).to = e.to \/ Meet(e, Catalogue[p]).to = t
          /\ Meet(e, Catalogue[p]).from >= f /\ Meet(e, Catalogue[p]).to <= t
      BY <1>1, <2>1, <2>2, BoundsOf, MeetOf
    <2>5. f <= d
      <3>1. CASE Meet(e, Catalogue[p]).from = f
        BY <1>2, <1>3, <2>2, <2>3, <2>4, <3>1 DEF HasEnds
      <3>2. CASE Meet(e, Catalogue[p]).from = e.from
        BY <1>3, <2>1, <2>2, <2>4, <3>2 DEF HasEnds
      <3> QED
        BY <2>4, <3>1, <3>2
    <2>6. d < t
      <3>1. CASE Meet(e, Catalogue[p]).to = t
        BY <1>2, <1>3, <2>2, <2>3, <2>4, <3>1 DEF HasEnds
      <3>2. CASE Meet(e, Catalogue[p]).to = e.to
        BY <1>3, <2>1, <2>2, <2>4, <3>2 DEF HasEnds
      <3> QED
        BY <2>4, <3>1, <3>2
    <2> QED
      BY <2>2, <2>5, <2>6
  <1>6. \A p \in P : Catalogue[p].kind = kind /\ Overlap(e, Catalogue[p]) <=> p \in C
    BY DEF Meeting
  <1> HIDE DEF Covering
  <1>7. Covering(i, C) = {p \in C : Overlap(i, Catalogue[p])}
    BY DEF Covering
  <1>8. C \in SUBSET P /\ \A p \in C : Catalogue[p].kind = kind
    BY DEF Meeting
  <1> QED
    BY <1>4, <1>5, <1>6, <1>7, <1>8 DEF Running

LEMMA FinitePrices ==
  ASSUME NEW C \in SUBSET DOMAIN Catalogue
  PROVE  IsFiniteSet(C)
  BY CatalogueAssumption, FS_Subset

\* A day costs no less than nothing.
LEMMA CentsOnIsNat ==
  ASSUME NEW d, NEW kind, NEW P \in SUBSET DOMAIN Catalogue
  PROVE  CentsOn(d, kind, P) \in Nat
  <1> DEFINE C == Running(d, kind, P)
             f == [p \in C |-> Catalogue[p].cents]
  <1>1. C \in SUBSET DOMAIN Catalogue
    BY DEF Running
  <1>2. CentsOn(d, kind, P) = SumFunction(f)
    BY DEF CentsOn, Running
  <1> HIDE DEF C
  <1>3. f \in [C -> Nat] /\ IsFiniteSet(C)
    BY <1>1, FinitePrices, CatalogueAssumption
  <1> HIDE DEF f
  <1> QED
    BY <1>2, <1>3, SumIsNat

\* What an interval is charged is the sum of what its days cost.
LEMMA NumeratorIsByTheDay ==
  ASSUME NEW e, NEW P \in SUBSET DOMAIN Catalogue, NEW kind, HasEnds(e), e.from < e.to,
         NEW C, C = Meeting(e, kind, P),
         NEW i \in Intervals(e, C), Charged(i, C)
  PROVE  Numerator(i, C) = SumFunction([d \in Between(i) |-> CentsOn(d, kind, P)])
  <1>1. Cut(e, C)
    BY DEF Cut, Meeting
  <1>2. HasEnds(i) /\ i.from < i.to
    BY <1>1, IntervalsOf
  <1>3. PICK V : V = Covering(i, C)
    OBVIOUS
  <1>4. V \in SUBSET DOMAIN Catalogue /\ IsFiniteSet(V) /\ Cardinality(V) = 1
    <2>1. V \in SUBSET DOMAIN Catalogue
      BY <1>3 DEF Covering, Meeting
    <2> QED
      BY <1>3, <2>1, FinitePrices DEF Charged
  <1>5. PICK q : V = {q}
    BY <1>4, FS_Singleton
  <1>6. PICK k \in Nat : k = Catalogue[q].cents
    BY <1>4, <1>5, CatalogueAssumption
  <1>7. ASSUME NEW d \in Between(i) PROVE CentsOn(d, kind, P) = k
    <2>1. V = Running(d, kind, P)
      BY <1>3, SamePricesOnItsDays
    <2> DEFINE f == [p \in {q} |-> Catalogue[p].cents]
    <2>2. CentsOn(d, kind, P) = SumFunction(f)
      BY <1>5, <2>1 DEF CentsOn, Running
    <2>3. f \in [{q} -> Int] /\ f[q] = k
      BY <1>6
    <2> HIDE DEF f
    <2> QED
      BY <2>2, <2>3, SumOfOne
  <1> DEFINE g == [d \in Between(i) |-> CentsOn(d, kind, P)]
  <1>8. g \in [Between(i) -> {k}]
    BY <1>7
  <1>9. IsFiniteSet(Between(i)) /\ Cardinality(Between(i)) = i.to - i.from
    <2>1. i.from \in Int /\ i.to \in Int /\ i.to - 1 \in Int /\ ~ (i.from > i.to - 1)
      BY <1>2 DEF HasEnds
    <2>2. (i.to - 1) - i.from + 1 = i.to - i.from
      BY <2>1
    <2> QED
      BY <2>1, <2>2, FS_Interval DEF Between
  <1> HIDE DEF g
  <1>10. SumFunction(g) = (i.to - i.from) * k
    BY <1>8, <1>9, SumOfOneValue
  <1>11. (CHOOSE p \in V : TRUE) = q
    BY <1>5
  <1>12. Numerator(i, C) = (i.to - i.from) * k
    BY <1>3, <1>6, <1>11 DEF Numerator
  <1> QED
    BY <1>10, <1>12 DEF g

\* The intervals together cost what the eligible days do.
LEMMA IntervalsAreByTheDay ==
  ASSUME NEW e, NEW P \in SUBSET DOMAIN Catalogue, NEW kind, HasEnds(e), e.from < e.to,
         NEW C, C = Meeting(e, kind, P),
         \A i \in Intervals(e, C) : Charged(i, C)
  PROVE  SumFunction([i \in Intervals(e, C) |-> Numerator(i, C)])
           = SumFunction([d \in Between(e) |-> CentsOn(d, kind, P)])
  <1>1. Cut(e, C)
    BY DEF Cut, Meeting
  <1> DEFINE I == Intervals(e, C)
             S == Between(e)
             f == [d \in S |-> CentsOn(d, kind, P)]
             D == [i \in I |-> Between(i)]
  <1>2. /\ IsFiniteSet(I)
        /\ \A i \in I : HasEnds(i) /\ i.from < i.to /\ e.from <= i.from /\ i.to <= e.to
        /\ \A d \in S : \E i \in I : i.from <= d /\ d < i.to
        /\ \A i, j \in I : i # j => i.to <= j.from \/ j.to <= i.from
    BY <1>1, IntervalsOf
  <1>3. \A i \in I : Numerator(i, C) = SumFunction([d \in Between(i) |-> CentsOn(d, kind, P)])
    BY NumeratorIsByTheDay
  <1> HIDE DEF I
  <1>4. IsFiniteSet(S)
    <2>1. e.from \in Int /\ e.to - 1 \in Int
      BY DEF HasEnds
    <2> QED
      BY <2>1, FS_Interval DEF Between
  <1>5. \A i \in I : Between(i) \in SUBSET S
    <2> SUFFICES ASSUME NEW i \in I, NEW d \in Between(i) PROVE d \in S
      OBVIOUS
    <2> QED
      BY <1>2 DEF Between, HasEnds
  <1>6. \A d \in S : \E i \in I : d \in Between(i)
    <2> SUFFICES ASSUME NEW d \in S PROVE \E i \in I : d \in Between(i)
      OBVIOUS
    <2>1. PICK i \in I : i.from <= d /\ d < i.to
      BY <1>2
    <2>2. d \in Int /\ HasEnds(i)
      BY <1>2 DEF Between, HasEnds
    <2> QED
      BY <2>1, <2>2 DEF Between, HasEnds
  <1>7. \A i, j \in I : i # j => Between(i) \cap Between(j) = {}
    <2> SUFFICES ASSUME NEW i \in I, NEW j \in I, i # j, NEW d \in Between(i), d \in Between(j) PROVE FALSE
      OBVIOUS
    <2> QED
      BY <1>2 DEF Between, HasEnds
  <1> HIDE DEF S
  <1>8. f \in [S -> Int]
    BY CentsOnIsNat
  <1>9. \A i \in I : Part(f, D[i]) = [d \in Between(i) |-> CentsOn(d, kind, P)]
    BY <1>5 DEF Part
  <1>10. [i \in I |-> SumFunction(Part(f, D[i]))] = [i \in I |-> Numerator(i, C)]
    BY <1>3, <1>9
  <1>11. /\ D \in [I -> SUBSET S]
         /\ \A i, j \in I : i # j => D[i] \cap D[j] = {}
         /\ \A x \in S : \E i \in I : x \in D[i]
    BY <1>5, <1>6, <1>7
  <1> HIDE DEF f, D
  <1>12. SumFunction([i \in I |-> SumFunction(Part(f, D[i]))]) = SumFunction(f)
    BY <1>2, <1>4, <1>8, <1>11, SumOfGroups
  <1>13. SumFunction([i \in I |-> Numerator(i, C)]) = SumFunction(f)
    BY <1>10, <1>12
  <1> QED
    BY <1>13 DEF f, I, S

\* A month none of whose days is in a life costs it nothing.
LEMMA NoDaysNoCharge ==
  ASSUME NEW life, NEW month, NEW P, DaysOf(life, month) = {}
  PROVE  ByTheDay(life, month, P) = 0
  <1> DEFINE f == [d \in DaysOf(life, month) |-> CentsOn(d, life.kind, P)]
  <1>1. SumFunction(f) = 0
    <2>1. DOMAIN f = {} /\ f = [d \in {} |-> 0]
      OBVIOUS
    <2> HIDE DEF f
    <2> QED
      BY <2>1, SumOfNothing
  <1>2. (2 * 0 + DaysPerMonth) \div (2 * DaysPerMonth) = 0
    <2>1. DaysPerMonth \in Nat \ {0}
      BY GenerationAssumption
    <2>2. 2 * DaysPerMonth \in Nat \ {0} /\ 2 * 0 + DaysPerMonth \in Int
      BY <2>1
    <2>3. 0 * (2 * DaysPerMonth) <= 2 * 0 + DaysPerMonth
          /\ 2 * 0 + DaysPerMonth < (0 + 1) * (2 * DaysPerMonth)
      BY <2>1
    <2> QED
      BY <2>2, <2>3, QuotientIs
  <1>3. ByTheDay(life, month, P) = (2 * SumFunction(f) + DaysPerMonth) \div (2 * DaysPerMonth)
    BY DEF ByTheDay
  <1> HIDE DEF f
  <1> QED
    BY <1>1, <1>2, <1>3

\* For any prices, life and month: a component that the planner does not leave in
\* conflict is worth each of its days at the price of the day, rounded to the
\* nearest cent once, whatever intervals the prices cut the month into
\* (planAssessmentRange of range-planner.ts).
THEOREM ComponentIsByTheDay ==
  ASSUME NEW life, HasEnds(life), NEW month \in Int, NEW P \in SUBSET DOMAIN Catalogue,
         Component(life, month, P).ok
  PROVE  /\ Component(life, month, P).cents = ByTheDay(life, month, P)
         /\ Component(life, month, P).cents \in Nat
  <1>1. PICK e : e = Eligible(life, month)
    OBVIOUS
  <1>2. HasEnds(Period(month))
    BY GenerationAssumption DEF Period, HasEnds
  <1>3. /\ HasEnds(e)
        /\ e.from >= Period(month).from /\ e.from >= life.from
        /\ e.from = Period(month).from \/ e.from = life.from
        /\ e.to <= Period(month).to /\ e.to <= life.to
        /\ e.to = Period(month).to \/ e.to = life.to
    BY <1>1, <1>2, MeetOf DEF Eligible
  <1>4. DaysOf(life, month) = Between(e)
    <2>1. PICK a \in Int, b \in Int : a = Period(month).from /\ b = Period(month).to
      BY <1>2 DEF HasEnds
    <2>2. PICK f \in Int, t \in Int : f = e.from /\ t = e.to
      BY <1>3 DEF HasEnds
    <2>3. life.from \in Int /\ life.to \in Int
      BY DEF HasEnds
    <2>4. \A d \in Int : a <= d /\ d <= b - 1 /\ life.from <= d /\ d < life.to <=> f <= d /\ d <= t - 1
      BY <1>3, <2>1, <2>2, <2>3
    <2>5. Between(e) = f .. t - 1
      BY <2>2 DEF Between
    <2>6. DaysOf(life, month) = {d \in a .. b - 1 : life.from <= d /\ d < life.to}
      BY <2>1 DEF DaysOf
    <2> QED
      BY <2>4, <2>5, <2>6
  <1> DEFINE f == [d \in Between(e) |-> CentsOn(d, life.kind, P)]
  <1>5. IsFiniteSet(Between(e)) /\ f \in [Between(e) -> Nat]
    <2>1. e.from \in Int /\ e.to - 1 \in Int
      BY <1>3 DEF HasEnds
    <2> QED
      BY <2>1, FS_Interval, CentsOnIsNat DEF Between
  <1>6. ByTheDay(life, month, P) = (2 * SumFunction(f) + DaysPerMonth) \div (2 * DaysPerMonth)
    BY <1>4 DEF ByTheDay
  <1>7. DaysPerMonth \in Nat \ {0}
    BY GenerationAssumption
  <1>8. CASE e.from >= e.to
    <2>1. Component(life, month, P).cents = 0
      BY <1>1, <1>8 DEF Component
    <2>2. Between(e) = {}
      BY <1>3, <1>8 DEF Between, HasEnds
    <2> QED
      BY <1>4, <2>1, <2>2, NoDaysNoCharge
  <1>9. CASE ~ (e.from >= e.to)
    <2>1. PICK C : C = Candidates(life, month, P)
      OBVIOUS
    <2>2. C = Meeting(e, life.kind, P)
      BY <1>1, <2>1 DEF Candidates, Meeting
    <2>3. PICK I : I = Intervals(e, C)
      OBVIOUS
    <2> DEFINE segments == {i \in I : Charged(i, C)}
    <2>4. Component(life, month, P)
            = [cents |-> Rounded(SumFunction([i \in segments |-> Numerator(i, C)]), DaysPerMonth),
               ok |-> segments = I]
      BY <1>1, <1>9, <2>1, <2>3 DEF Component
    <2>5. segments = I
      <3>1. PICK n : n = Rounded(SumFunction([i \in segments |-> Numerator(i, C)]), DaysPerMonth)
        OBVIOUS
      <3>2. PICK ok : ok = (segments = I)
        OBVIOUS
      <3>3. Component(life, month, P) = [cents |-> n, ok |-> ok]
        BY <2>4, <3>1, <3>2, Zenon
      <3>4. ok
        BY <3>3
      <3> QED
        BY <3>2, <3>4, Zenon
    <2>6. Component(life, month, P).cents = Rounded(SumFunction([i \in I |-> Numerator(i, C)]), DaysPerMonth)
      BY <2>4, <2>5
    <2>7. \A i \in I : Charged(i, C)
      BY <2>5
    <2>8. e.from < e.to
      BY <1>3, <1>9 DEF HasEnds
    <2>9. SumFunction([i \in I |-> Numerator(i, C)]) = SumFunction(f)
      BY <1>3, <2>2, <2>3, <2>7, <2>8, IntervalsAreByTheDay
    <2> HIDE DEF f
    <2>10. SumFunction(f) \in Nat
      BY <1>5, SumIsNat
    <2> QED
      BY <1>6, <1>7, <2>6, <2>9, <2>10, RoundedIs
  <1> QED
    BY <1>8, <1>9

--------------------------------------------------------------------------------
\* What the benefits leave of it

\* What a rule is, of a member: an id of its own, a value and a priority
AreRules(rules) ==
  /\ IsFiniteSet(rules)
  /\ \A b \in rules : b.value \in Nat /\ b.priority \in Int
  /\ \A b, c \in rules : b.id = c.id => b = c

\* The state of applyBenefits between two rules
Accounts(gross, rules) ==
  [left : 0 .. gross, groups : SUBSET {b.group : b \in rules},
   parts : SUBSET [key : {b.id : b \in rules}, cents : Int]]
NoneApplied(gross) == [left |-> gross, groups |-> {}, parts |-> {}]
Discount(part, b) == part.key = b.id

\* When the rules of done are through: what is left is the gross less the
\* discounts, each of them of a rule of done, and of an exclusive group one.
Reckoned(acc, gross, done) ==
  /\ acc.left \in 0 .. gross
  /\ IsFiniteSet(acc.parts)
  /\ \A part \in acc.parts : /\ part = [key |-> part.key, cents |-> part.cents]
                             /\ part.cents \in Int /\ part.cents < 0
  /\ acc.left = gross + SumFunction([part \in acc.parts |-> part.cents])
  /\ \A part \in acc.parts : \E b \in done : part.key = b.id
  /\ \A part \in acc.parts : \A b \in done :
       Discount(part, b) /\ b.group # None => b.group \in acc.groups
  /\ \A p, q \in acc.parts : \A a, b \in done :
       Discount(p, a) /\ Discount(q, b) /\ a.group # None /\ a.group = b.group => a = b

\* A rule never asks for less than nothing.
LEMMA RequestedIsNat ==
  ASSUME NEW b, b.value \in Nat, NEW gross \in Nat, NEW left \in Nat
  PROVE  Requested(b, gross, left) \in Nat
  <1>1. PICK base \in Nat : base = IF b.basis = "GROSS" THEN gross ELSE left
    OBVIOUS
  <1>2. PICK v \in Nat : v = b.value
    OBVIOUS
  <1>3. 2 * base * v + 10000 \in Nat
    OBVIOUS
  <1>4. (2 * base * v + 10000) \div 20000 \in Nat
    BY <1>3, QuotientIsNat
  <1> QED
    BY <1>1, <1>2, <1>4 DEF Requested

\* A rule takes nothing, or something that is left; and it takes nothing of a
\* group that is taken.
LEMMA ApplyIs ==
  ASSUME NEW acc, NEW gross \in Nat, acc.left \in 0 .. gross, NEW b, b.value \in Nat
  PROVE  \/ Apply(acc, b, gross) = acc
         \/ \E cents \in 0 .. acc.left :
              /\ b.group # None => b.group \notin acc.groups
              /\ Apply(acc, b, gross) =
                   [left |-> acc.left - cents, groups |-> acc.groups \cup ({b.group} \ {None}),
                    parts |-> IF cents > 0 THEN acc.parts \cup {[key |-> b.id, cents |-> -cents]}
                                           ELSE acc.parts]
  <1>1. acc.left \in Nat
    OBVIOUS
  <1>2. PICK cents : cents = Min({acc.left, Requested(b, gross, acc.left)})
    OBVIOUS
  <1>3. cents \in 0 .. acc.left
    <2>1. PICK q \in Nat : q = Requested(b, gross, acc.left)
      BY <1>1, RequestedIsNat
    <2>2. cents = IF acc.left <= q THEN acc.left ELSE q
      BY <1>1, <1>2, <2>1, OfTwo
    <2> QED
      BY <1>1, <2>1, <2>2
  <1>4. CASE b.group # None /\ b.group \in acc.groups
    BY <1>4 DEF Apply
  <1>5. CASE ~ (b.group # None /\ b.group \in acc.groups)
    <2>1. Apply(acc, b, gross) =
            [left |-> acc.left - cents, groups |-> acc.groups \cup ({b.group} \ {None}),
             parts |-> acc.parts \cup (IF cents > 0 THEN {[key |-> b.id, cents |-> -cents]} ELSE {})]
      BY <1>2, <1>5 DEF Apply
    <2>2. acc.parts \cup (IF cents > 0 THEN {[key |-> b.id, cents |-> -cents]} ELSE {})
            = IF cents > 0 THEN acc.parts \cup {[key |-> b.id, cents |-> -cents]} ELSE acc.parts
      OBVIOUS
    <2> QED
      BY <1>3, <1>5, <2>1, <2>2
  <1> QED
    BY <1>4, <1>5

\* The account stays one: between zero and the gross, with the rules' own parts.
LEMMA ApplyStays ==
  ASSUME NEW gross \in Nat, NEW rules, AreRules(rules),
         NEW acc \in Accounts(gross, rules), NEW b \in rules
  PROVE  Apply(acc, b, gross) \in Accounts(gross, rules)
  <1>0. acc.left \in 0 .. gross /\ b.value \in Nat
    BY DEF Accounts, AreRules
  <1>1. CASE Apply(acc, b, gross) = acc
    BY <1>1
  <1>2. ASSUME NEW cents \in 0 .. acc.left,
               Apply(acc, b, gross) =
                 [left |-> acc.left - cents, groups |-> acc.groups \cup ({b.group} \ {None}),
                  parts |-> IF cents > 0 THEN acc.parts \cup {[key |-> b.id, cents |-> -cents]}
                                         ELSE acc.parts]
        PROVE  Apply(acc, b, gross) \in Accounts(gross, rules)
    <2>1. acc.left - cents \in 0 .. gross
      BY <1>0, <1>2
    <2>2. acc.groups \cup ({b.group} \ {None}) \in SUBSET {c.group : c \in rules}
      BY DEF Accounts
    <2>3. acc.parts \in SUBSET [key : {c.id : c \in rules}, cents : Int]
      BY DEF Accounts
    <2>4. [key |-> b.id, cents |-> -cents] \in [key : {c.id : c \in rules}, cents : Int]
      BY <1>0, <1>2
    <2>5. PICK parts : parts = IF cents > 0 THEN acc.parts \cup {[key |-> b.id, cents |-> -cents]}
                                            ELSE acc.parts
      OBVIOUS
    <2>6. parts \in SUBSET [key : {c.id : c \in rules}, cents : Int]
      BY <2>3, <2>4, <2>5
    <2> QED
      BY <1>2, <2>1, <2>2, <2>5, <2>6 DEF Accounts
  <1> QED
    BY <1>0, <1>1, <1>2, ApplyIs

\* Of finitely many rules one is of the last priority.
LEMMA LastIn ==
  ASSUME NEW rules, AreRules(rules), NEW s \in SUBSET rules, s # {}
  PROVE  Last(s) \in s
  <1> DEFINE P == {b.priority : b \in s}
             f == [b \in s |-> b.priority]
  <1>1. P \in SUBSET Int /\ P # {}
    BY DEF AreRules
  <1>2. IsFiniteSet(P)
    <2>1. f \in Surjection(s, P)
      BY DEF Surjection
    <2>2. IsFiniteSet(s)
      BY FS_Subset DEF AreRules
    <2> QED
      BY <2>1, <2>2, FS_Surjection
  <1>3. Max(P) \in P /\ \A x \in P : x <= Max(P)
    <2> HIDE DEF P
    <2> QED
      BY <1>1, <1>2, GreatestOf
  <1>4. \E b \in s : \A c \in s : c.priority <= b.priority
    BY <1>3
  <1> QED
    BY <1>4, Zenon DEF Last

\* One more rule is through.
LEMMA ApplyReckons ==
  ASSUME NEW gross \in Nat, NEW rules, AreRules(rules), NEW done \in SUBSET rules,
         NEW acc, Reckoned(acc, gross, done), NEW b \in rules, b \notin done
  PROVE  Reckoned(Apply(acc, b, gross), gross, done \cup {b})
  <1>0. acc.left \in 0 .. gross /\ b.value \in Nat
    BY DEF Reckoned, AreRules
  <1>a. \A part \in acc.parts : part.key # b.id
    <2> SUFFICES ASSUME NEW part \in acc.parts, part.key = b.id PROVE FALSE
      OBVIOUS
    <2>1. PICK c \in done : part.key = c.id
      BY DEF Reckoned
    <2> QED
      BY <2>1 DEF AreRules
  <1>b. \A part \in acc.parts : ~ Discount(part, b)
    BY <1>a DEF Discount
  <1>1. CASE Apply(acc, b, gross) = acc
    <2>1. Reckoned(acc, gross, done \cup {b})
      BY <1>b DEF Reckoned
    <2> QED
      BY <1>1, <2>1
  <1>2. ASSUME NEW cents \in 0 .. acc.left, b.group # None => b.group \notin acc.groups,
               Apply(acc, b, gross) =
                 [left |-> acc.left - cents, groups |-> acc.groups \cup ({b.group} \ {None}),
                  parts |-> IF cents > 0 THEN acc.parts \cup {[key |-> b.id, cents |-> -cents]}
                                         ELSE acc.parts]
        PROVE  Reckoned(Apply(acc, b, gross), gross, done \cup {b})
    <2>0. PICK now : now = Apply(acc, b, gross)
      OBVIOUS
    <2>1. /\ now.left = acc.left - cents /\ now.left \in 0 .. gross
          /\ now.groups = acc.groups \cup ({b.group} \ {None})
      BY <1>0, <1>2, <2>0
    <2>2. CASE cents = 0
      <3>1. now.parts = acc.parts /\ now.left = acc.left
        BY <1>0, <1>2, <2>0, <2>1, <2>2
      <3> QED
        BY <1>b, <2>0, <2>1, <3>1 DEF Reckoned
    <2>3. CASE cents > 0
      <3>1. PICK new : new = [key |-> b.id, cents |-> -cents]
        OBVIOUS
      <3>2. now.parts = acc.parts \cup {new}
        BY <1>2, <2>0, <2>3, <3>1
      <3>3. /\ new.key = b.id /\ new.cents = -cents /\ new.cents \in Int /\ new.cents < 0
            /\ new = [key |-> new.key, cents |-> new.cents] /\ new \notin acc.parts
        BY <1>0, <1>2, <1>a, <2>3, <3>1
      <3>4. /\ IsFiniteSet(acc.parts) /\ IsFiniteSet(now.parts)
            /\ \A part \in now.parts : /\ part = [key |-> part.key, cents |-> part.cents]
                                       /\ part.cents \in Int /\ part.cents < 0
        BY <3>2, <3>3, FS_AddElement DEF Reckoned
      <3>5. now.left = gross + SumFunction([part \in now.parts |-> part.cents])
        <4> DEFINE f == [part \in now.parts |-> part.cents]
        <4>1. f \in [now.parts -> Int]
          BY <3>4
        <4>2. Part(f, acc.parts) = [part \in acc.parts |-> part.cents]
          BY <3>2 DEF Part
        <4>3. Part(f, {new}) \in [{new} -> Int] /\ Part(f, {new})[new] = -cents
          BY <3>2, <3>3 DEF Part
        <4> HIDE DEF f
        <4>4. SumFunction(f) = SumFunction(Part(f, acc.parts)) + SumFunction(Part(f, {new}))
          BY <3>2, <3>3, <3>4, <4>1, SumOfTwoParts
        <4>5. SumFunction(Part(f, {new})) = -cents
          BY <4>3, SumOfOne
        <4>6. PICK sum : sum = SumFunction(Part(f, acc.parts))
          OBVIOUS
        <4>7. sum \in Int
          <5>1. Part(f, acc.parts) \in [acc.parts -> Int]
            BY <3>2, <4>1 DEF Part
          <5> QED
            BY <3>4, <4>6, <5>1, SumIsInt
        <4>8. acc.left = gross + sum
          BY <4>2, <4>6 DEF Reckoned
        <4>9. SumFunction(f) = sum + (-cents)
          BY <4>4, <4>5, <4>6
        <4>10. now.left = gross + SumFunction(f)
          BY <1>0, <1>2, <2>1, <4>7, <4>8, <4>9
        <4> QED
          BY <4>10 DEF f
      <3>6. \A part \in now.parts : \E c \in done \cup {b} : part.key = c.id
        BY <3>2, <3>3 DEF Reckoned
      <3>7. \A part \in now.parts : \A c \in done \cup {b} :
              Discount(part, c) <=> \/ part = new /\ c = b
                                    \/ part \in acc.parts /\ c \in done /\ Discount(part, c)
        <4>1. \A c \in done : ~ Discount(new, c)
          BY <3>3 DEF Discount, AreRules
        <4>2. Discount(new, b)
          BY <3>3 DEF Discount
        <4> QED
          BY <1>b, <3>2, <4>1, <4>2
      <3>8. \A part \in now.parts : \A c \in done \cup {b} :
              Discount(part, c) /\ c.group # None => c.group \in now.groups
        BY <2>1, <3>7 DEF Reckoned
      <3>9. ASSUME NEW p \in now.parts, NEW q \in now.parts,
                   NEW a \in done \cup {b}, NEW c \in done \cup {b},
                   Discount(p, a), Discount(q, c), a.group # None, a.group = c.group
            PROVE  a = c
        <4>1. CASE p = new /\ a = b /\ q = new /\ c = b
          BY <4>1
        <4>2. CASE p \in acc.parts /\ a \in done /\ q \in acc.parts /\ c \in done
          BY <3>9, <4>2 DEF Reckoned
        <4>3. CASE a = b /\ q \in acc.parts /\ c \in done
          <5>1. c.group \in acc.groups
            BY <3>9, <4>3 DEF Reckoned
          <5> QED
            BY <1>2, <3>9, <4>3, <5>1
        <4>4. CASE c = b /\ p \in acc.parts /\ a \in done
          <5>1. a.group \in acc.groups
            BY <3>9, <4>4 DEF Reckoned
          <5> QED
            BY <1>2, <3>9, <4>4, <5>1
        <4> QED
          BY <3>7, <3>9, <4>1, <4>2, <4>3, <4>4
      <3> QED
        BY <2>0, <2>1, <3>4, <3>5, <3>6, <3>8, <3>9 DEF Reckoned
    <2> QED
      BY <1>2, <2>2, <2>3
  <1> QED
    BY <1>0, <1>1, <1>2, ApplyIs

\* For any gross and rules: what the benefits leave is between nothing and the
\* gross, it is the gross less the discounts, each discount is of a rule, and of
\* an exclusive group one rule at most (applyBenefits of benefits.ts).
THEOREM AppliedIsReckoned ==
  ASSUME NEW gross \in Nat, NEW rules, AreRules(rules)
  PROVE  Reckoned(Applied(gross, rules), gross, rules)
  <1> DEFINE A == Accounts(gross, rules)
             step == [x \in A \X rules |-> Apply(x[1], x[2], gross)]
             last == [s \in SUBSET rules |-> Last(s)]
             start == NoneApplied(gross)
             after == CHOOSE h : h = [s \in SUBSET rules |->
                                       IF s = {} THEN [left |-> gross, groups |-> {}, parts |-> {}]
                                       ELSE Apply(h[s \ {Last(s)}], Last(s), gross)]
  <1>0. Applied(gross, rules) = after[rules]
    BY Zenon DEF Applied
  <1>1. IsFiniteSet(rules) /\ \A s \in SUBSET rules : s # {} => Last(s) \in s
    BY LastIn DEF AreRules
  <1>2. start \in A
    BY DEF Accounts, NoneApplied
  <1>3. step \in [A \X rules -> A]
    <2>1. \A x \in A \X rules : Apply(x[1], x[2], gross) \in A
      BY ApplyStays
    <2> HIDE DEF A
    <2> QED
      BY <2>1
  <1>4. \A s \in SUBSET rules : s # {} => last[s] \in s
    BY <1>1
  <1> HIDE DEF A
  <1>5. PICK g \in [SUBSET rules -> A] : Passes(start, step, last, rules, g)
    <2> HIDE DEF step, last, start
    <2> QED
      BY <1>1, <1>2, <1>3, <1>4, PassesExist
  <1>6. \A s \in SUBSET rules : Pass(start, step, last, g, s) =
          IF s = {} THEN [left |-> gross, groups |-> {}, parts |-> {}]
          ELSE Apply(g[s \ {Last(s)}], Last(s), gross)
    <2> SUFFICES ASSUME NEW s \in SUBSET rules
                 PROVE  Pass(start, step, last, g, s) =
                          IF s = {} THEN [left |-> gross, groups |-> {}, parts |-> {}]
                          ELSE Apply(g[s \ {Last(s)}], Last(s), gross)
      OBVIOUS
    <2>1. CASE s = {}
      BY <2>1 DEF Pass, NoneApplied
    <2>2. CASE s # {}
      <3>1. last[s] = Last(s) /\ Last(s) \in rules /\ s \ {Last(s)} \in SUBSET rules
        BY <1>1, <2>2
      <3>2. g[s \ {Last(s)}] \in A
        BY <1>5, <3>1
      <3>3. <<g[s \ {Last(s)}], Last(s)>> \in A \X rules
        BY <3>1, <3>2
      <3>4. step[<<g[s \ {Last(s)}], Last(s)>>] = Apply(g[s \ {Last(s)}], Last(s), gross)
        BY <3>3
      <3> HIDE DEF step, last, start
      <3> QED
        BY <2>2, <3>1, <3>4 DEF Pass
    <2> QED
      BY <2>1, <2>2
  <1>7. g = [s \in SUBSET rules |->
              IF s = {} THEN [left |-> gross, groups |-> {}, parts |-> {}]
              ELSE Apply(g[s \ {Last(s)}], Last(s), gross)]
    <2> HIDE DEF step, last, start
    <2>1. g = [s \in SUBSET rules |-> Pass(start, step, last, g, s)]
      BY <1>5 DEF Passes
    <2> QED
      BY <1>6, <2>1
  <1>8. after = [s \in SUBSET rules |->
                  IF s = {} THEN [left |-> gross, groups |-> {}, parts |-> {}]
                  ELSE Apply(after[s \ {Last(s)}], Last(s), gross)]
    BY <1>7, Zenon
  <1> HIDE DEF after, step, last, start
  <1>9. /\ after[{}] = [left |-> gross, groups |-> {}, parts |-> {}]
        /\ \A s \in SUBSET rules : s # {} => after[s] = Apply(after[s \ {Last(s)}], Last(s), gross)
    BY <1>8
  <1> DEFINE Bad == {s \in SUBSET rules : ~ Reckoned(after[s], gross, s)}
  <1>10. Bad = {}
    <2> SUFFICES ASSUME Bad # {} PROVE FALSE
      OBVIOUS
    <2>1. Bad \in SUBSET SUBSET rules
      OBVIOUS
    <2>2. \E T \in Bad : \A U \in SUBSET T : U # T => U \notin Bad
      <3> HIDE DEF Bad
      <3> QED
        BY <1>1, <2>1, SmallestSubset
    <2>3. PICK T \in Bad : \A U \in SUBSET T : U # T => U \notin Bad
      BY <2>2
    <2>4. ~ Reckoned(after[T], gross, T) /\ T \in SUBSET rules
      BY <2>3
    <2>5. T # {}
      <3>1. SumFunction([part \in {} |-> part.cents]) = 0
        <4> DEFINE f == [part \in {} |-> part.cents]
        <4>1. DOMAIN f = {} /\ f = [part \in {} |-> 0]
          OBVIOUS
        <4> HIDE DEF f
        <4>2. SumFunction(f) = 0
          BY <4>1, SumOfNothing
        <4> QED
          BY <4>2 DEF f
      <3>2. PICK acc : acc = after[{}]
        OBVIOUS
      <3>3. acc.left = gross /\ acc.groups = {} /\ acc.parts = {}
        BY <1>9, <3>2
      <3>4. Reckoned(acc, gross, {})
        BY <3>1, <3>3, FS_EmptySet DEF Reckoned
      <3> HIDE DEF Bad
      <3> QED
        BY <2>4, <3>2, <3>4
    <2>6. PICK b : b = Last(T)
      OBVIOUS
    <2>7. b \in T /\ b \in rules
      BY <1>1, <2>4, <2>5, <2>6
    <2>8. PICK U : U = T \ {b}
      OBVIOUS
    <2>9. U \in SUBSET rules /\ b \notin U /\ U \cup {b} = T /\ U \notin Bad
      BY <2>3, <2>4, <2>7, <2>8
    <2>10. Reckoned(after[U], gross, U)
      BY <2>9
    <2>11. after[T] = Apply(after[U], b, gross)
      BY <1>9, <2>4, <2>5, <2>6, <2>8
    <2>12. Reckoned(Apply(after[U], b, gross), gross, U \cup {b})
      BY <2>7, <2>9, <2>10, ApplyReckons
    <2> HIDE DEF Bad
    <2> QED
      BY <2>4, <2>9, <2>11, <2>12
  <1>11. Reckoned(after[rules], gross, rules)
    BY <1>10
  <1> QED
    BY <1>0, <1>11

--------------------------------------------------------------------------------
\* Plans

\* The base of a member and all its enrolments
AllLives(x, month) == Roster[x].sports \cup {Base(x, month)}

\* The lives a plan leaves out have no day in the month.
LEMMA LivesOf ==
  ASSUME NEW x \in DOMAIN Roster, NEW month \in Int
  PROVE  /\ IsFiniteSet(AllLives(x, month)) /\ Lives(x, month) \in SUBSET AllLives(x, month)
         /\ \A life \in AllLives(x, month) : HasEnds(life)
         /\ \A s, t \in AllLives(x, month) : s.id = t.id => s = t
         /\ \A life \in AllLives(x, month) : life \notin Lives(x, month) => DaysOf(life, month) = {}
  <1> DEFINE all == Roster[x].sports \cup {Base(x, month)}
  <1>1. HasEnds(Period(month))
    BY GenerationAssumption DEF Period, HasEnds
  <1>2. PICK base : base = Base(x, month)
    OBVIOUS
  <1>3. base.id = "base" /\ HasEnds(base)
    BY <1>1, <1>2, RosterAssumption DEF Base, HasEnds
  <1>4. /\ IsFiniteSet(Roster[x].sports)
        /\ \A s \in Roster[x].sports : HasEnds(s) /\ s.id # "base"
        /\ \A s, t \in Roster[x].sports : s.id = t.id => s = t
    BY RosterAssumption DEF HasEnds
  <1>5. IsFiniteSet(all) /\ Lives(x, month) \in SUBSET all
    BY <1>4, FS_AddElement DEF Lives
  <1>6. ASSUME NEW life \in all, life \notin Lives(x, month), NEW d \in DaysOf(life, month)
        PROVE  FALSE
    <2>1. life \in Roster[x].sports /\ ~ Overlap(life, Period(month)) /\ HasEnds(life)
      BY <1>4, <1>6 DEF Lives
    <2>2. PICK m : m = Meet(life, Period(month))
      OBVIOUS
    <2>3. /\ HasEnds(m) /\ ~ (m.from < m.to)
          /\ m.from = life.from \/ m.from = Period(month).from
          /\ m.to = life.to \/ m.to = Period(month).to
      BY <1>1, <2>1, <2>2, MeetOf DEF Overlap
    <2>4. PICK a \in Int, b \in Int : a = Period(month).from /\ b = Period(month).to
      BY <1>1 DEF HasEnds
    <2>5. d \in Int /\ a <= d /\ d <= b - 1 /\ life.from <= d /\ d < life.to
      BY <1>6, <2>4 DEF DaysOf
    <2> QED
      BY <2>1, <2>3, <2>4, <2>5 DEF HasEnds
  <1> QED
    BY <1>2, <1>3, <1>4, <1>5, <1>6 DEF AllLives

\* Benefits of a member are rules.
LEMMA BenefitsAreRules ==
  ASSUME NEW x \in DOMAIN Roster
  PROVE  AreRules(Benefits[x])
  BY BenefitAssumption DEF AreRules

\* An entry that is ready is exact at the prices of its plan.
LEMMA ReadyEntryIsExact ==
  ASSUME NEW x \in DOMAIN Roster, NEW month \in Int, NEW P \in SUBSET DOMAIN Catalogue, NEW existing,
         NEW e, e = Entry(x, month, P, existing), e.status = "READY"
  PROVE  Exact(e, P)
  <1>a. PICK all : all = AllLives(x, month)
    OBVIOUS
  <1> DEFINE component == [life \in Lives(x, month) |-> Component(life, month, P)]
  <1>0. PICK L : L = Lives(x, month)
    OBVIOUS
  <1>1. /\ IsFiniteSet(all) /\ L \in SUBSET all /\ IsFiniteSet(L)
        /\ \A life \in all : HasEnds(life)
        /\ \A s, t \in all : s.id = t.id => s = t
        /\ \A life \in all : life \notin L => DaysOf(life, month) = {}
    <2>1. /\ IsFiniteSet(all) /\ L \in SUBSET all
          /\ \A life \in all : HasEnds(life)
          /\ \A s, t \in all : s.id = t.id => s = t
          /\ \A life \in all : life \notin L => DaysOf(life, month) = {}
      BY <1>0, <1>a, LivesOf
    <2> QED
      BY <2>1, FS_Subset
  <1>2. PICK gross : gross = SumFunction([life \in L |-> component[life].cents])
    OBVIOUS
  <1>3. PICK net : net = Applied(gross, Benefits[x])
    OBVIOUS
  <1> DEFINE costs == {[key |-> life.id, cents |-> component[life].cents] : life \in L}
             conflict == \E life \in L : ~component[life].ok
             known == <<x, month>> \in existing \/ net.left = 0
             status == CASE conflict -> "CONFLICT" [] known -> "REVIEW" [] OTHER -> "READY"
  <1>4. e = [member |-> x, month |-> month, status |-> status,
             net |-> IF status = "CONFLICT" THEN 0 ELSE net.left,
             parts |-> IF status = "CONFLICT" THEN {} ELSE net.parts \cup costs]
    BY <1>0, <1>2, <1>3 DEF Entry
  <1>5. ~conflict /\ ~known /\ e.member = x /\ e.month = month /\ e.net = net.left
        /\ e.parts = net.parts \cup costs
    <2> HIDE DEF conflict, known, costs
    <2>1. status = "READY"
      BY <1>4
    <2> QED
      BY <1>4, <2>1
  <1>6. \A life \in L : component[life].ok /\ component[life] = Component(life, month, P)
    BY <1>0, <1>5
  <1>7. \A life \in L : /\ component[life].cents = ByTheDay(life, month, P)
                        /\ component[life].cents \in Nat
    BY <1>1, <1>6, ComponentIsByTheDay
  <1> HIDE DEF component
  <1> DEFINE f == [life \in L |-> component[life].cents]
             full == [life \in all |-> ByTheDay(life, month, P)]
  <1>8. f \in [L -> Nat] /\ gross \in Nat
    <2>1. f \in [L -> Nat]
      BY <1>7
    <2> HIDE DEF f
    <2> QED
      BY <1>1, <1>2, <2>1, SumIsNat DEF f
  <1>9. Reckoned(net, gross, Benefits[x])
    BY <1>3, <1>8, BenefitsAreRules, AppliedIsReckoned
  <1>10. net.left \in Nat /\ net.left > 0
    BY <1>5, <1>8, <1>9 DEF Reckoned
  \* What the days cost adds up to the gross.
  <1>11. \A life \in all \ L : ByTheDay(life, month, P) = 0
    BY <1>1, NoDaysNoCharge
  <1>12. SumFunction(full) = gross
    <2>1. full \in [all -> Int]
      BY <1>7, <1>11
    <2>2. Part(full, L) = f
      BY <1>1, <1>7 DEF Part
    <2>3. Part(full, all \ L) \in [all \ L -> {0}] /\ IsFiniteSet(all \ L)
      BY <1>1, <1>11, FS_Subset DEF Part
    <2>4. L \cup (all \ L) = all /\ L \cap (all \ L) = {}
      BY <1>1
    <2> HIDE DEF full
    <2>5. SumFunction(full) = SumFunction(Part(full, L)) + SumFunction(Part(full, all \ L))
      BY <1>1, <2>1, <2>4, SumOfTwoParts
    <2>6. PICK n \in Nat : n = Cardinality(all \ L)
      BY <2>3, FS_CardinalityType
    <2>7. SumFunction(Part(full, all \ L)) = n * 0
      BY <2>3, <2>6, SumOfOneValue
    <2>8. SumFunction(f) = gross
      BY <1>2
    <2> QED
      BY <1>8, <2>2, <2>5, <2>7, <2>8
  \* So do the parts of the lives.
  <1> DEFINE g == [part \in costs |-> part.cents]
             h == [life \in L |-> [key |-> life.id, cents |-> component[life].cents]]
  <1>13. /\ IsFiniteSet(costs) /\ h \in [L -> costs] /\ g \in [costs -> Int]
         /\ \A life \in L : g[h[life]] = f[life]
         /\ \A s, t \in L : h[s] = h[t] => s = t
         /\ \A r \in costs : \E life \in L : h[life] = r
         /\ \A r \in costs : r.cents \in Nat
    <2>1. h \in Surjection(L, costs)
      BY DEF Surjection
    <2>2. IsFiniteSet(costs)
      <3> HIDE DEF h, costs
      <3> QED
        BY <1>1, <2>1, FS_Surjection
    <2>3. \A s, t \in L : h[s] = h[t] => s = t
      BY <1>1
    <2>4. \A life \in L : h[life] \in costs /\ h[life].cents = f[life]
      OBVIOUS
    <2>5. \A r \in costs : r.cents \in Nat
      BY <1>7
    <2>6. \A r \in costs : \E life \in L : h[life] = r
      OBVIOUS
    <2>7. h \in [L -> costs]
      OBVIOUS
    <2> HIDE DEF h, costs, f
    <2> QED
      BY <2>2, <2>3, <2>4, <2>5, <2>6, <2>7
  <1>14. SumFunction(g) = gross
    <2> HIDE DEF g, h, costs
    <2>1. f \in [L -> Int]
      BY <1>8
    <2>2. SumFunction(f) = gross
      BY <1>2
    <2> HIDE DEF f
    <2>3. SumFunction(g) = SumFunction(f)
      <3>1. IsFiniteSet(L) /\ IsFiniteSet(costs) /\ h \in [L -> costs] /\ g \in [costs -> Int]
        BY <1>1, <1>13
      <3>2. /\ \A life \in L : g[h[life]] = f[life]
            /\ \A s, t \in L : h[s] = h[t] => s = t
            /\ \A r \in costs : \E life \in L : h[life] = r
        BY <1>13
      <3> QED
        BY <2>1, <3>1, <3>2, SumOfImage
    <2> QED
      BY <2>2, <2>3
  \* With the discounts they add up to what is left.
  <1>15. /\ \A part \in net.parts : part.cents \in Int /\ part.cents < 0
         /\ IsFiniteSet(net.parts)
         /\ net.left = gross + SumFunction([part \in net.parts |-> part.cents])
    BY <1>9 DEF Reckoned
  <1> HIDE DEF costs
  <1>16. net.parts \cap costs = {} /\ {part \in e.parts : part.cents < 0} = net.parts
    BY <1>5, <1>13, <1>15
  <1> DEFINE sum == [part \in e.parts |-> part.cents]
             less == [part \in net.parts |-> part.cents]
  <1>17. less \in [net.parts -> Int] /\ SumFunction(less) \in Int
    <2>1. less \in [net.parts -> Int]
      BY <1>15
    <2> HIDE DEF less
    <2> QED
      BY <1>15, <2>1, SumIsInt
  <1>18. SumFunction(sum) = SumFunction(less) + SumFunction(g)
    <2>1. IsFiniteSet(e.parts)
      <3>1. IsFiniteSet(net.parts) /\ IsFiniteSet(costs)
        BY <1>13, <1>15
      <3>2. IsFiniteSet(net.parts \cup costs)
        BY <3>1, FS_Union
      <3> QED
        BY <1>5, <3>2
    <2>2. sum \in [e.parts -> Int]
      BY <1>5, <1>13, <1>15
    <2>3. Part(sum, net.parts) = less /\ Part(sum, costs) = g
      BY <1>5 DEF Part
    <2>4. net.parts \in SUBSET e.parts /\ costs \in SUBSET e.parts /\ net.parts \cup costs = e.parts
      BY <1>5
    <2> HIDE DEF sum, less, g
    <2>5. SumFunction(sum) = SumFunction(Part(sum, net.parts)) + SumFunction(Part(sum, costs))
      BY <1>16, <2>1, <2>2, <2>4, SumOfTwoParts
    <2> QED
      BY <2>3, <2>5
  <1>19. e.net > 0 /\ e.net = SumFunction(sum) /\ e.net = SumFunction(full) + SumFunction(less)
    <2>1. PICK n \in Int : n = SumFunction(less)
      BY <1>17
    <2>2. net.left = gross + n
      BY <1>15, <2>1
    <2> HIDE DEF sum, full, less, g
    <2> QED
      BY <1>5, <1>8, <1>10, <1>12, <1>14, <1>18, <2>1, <2>2
  <1>20. \A life \in all : full[life] > 0 => [key |-> life.id, cents |-> full[life]] \in e.parts
    <2> SUFFICES ASSUME NEW life \in all, full[life] > 0
                 PROVE  [key |-> life.id, cents |-> full[life]] \in costs
      BY <1>5
    <2>1. life \in L
      BY <1>11
    <2> QED
      BY <1>7, <2>1 DEF costs
  <1>21. \A part \in e.parts \ net.parts :
           \E life \in all : part = [key |-> life.id, cents |-> full[life]]
    <2> SUFFICES ASSUME NEW part \in costs
                 PROVE  \E life \in all : part = [key |-> life.id, cents |-> full[life]]
      BY <1>5
    <2>1. PICK life \in L : part = [key |-> life.id, cents |-> component[life].cents]
      BY DEF costs
    <2>2. life \in all /\ component[life].cents = full[life]
      BY <1>1, <1>7
    <2> QED
      BY <2>1, <2>2
  <1>22. \A a, b \in {y \in Benefits[x] : \E part \in net.parts : part.key = y.id} :
           a.group # None /\ a.group = b.group => a = b
    BY <1>9 DEF Reckoned, Discount
  <1> DEFINE D == {part \in e.parts : part.cents < 0}
             F == [life \in Roster[e.member].sports \cup {Base(e.member, e.month)} |->
                     ByTheDay(life, e.month, P)]
  <1>23. D = net.parts /\ F = full /\ DOMAIN F = all
    BY <1>5, <1>16, <1>a DEF AllLives
  <1>24. /\ e.net > 0 /\ e.net = SumFunction([part \in e.parts |-> part.cents])
         /\ e.net = SumFunction(F) + SumFunction([part \in D |-> part.cents])
         /\ \A life \in DOMAIN F :
              F[life] > 0 => [key |-> life.id, cents |-> F[life]] \in e.parts
         /\ \A part \in e.parts \ D :
              \E life \in DOMAIN F : part = [key |-> life.id, cents |-> F[life]]
         /\ \A a, b \in {y \in Benefits[e.member] : \E part \in D : part.key = y.id} :
              a.group # None /\ a.group = b.group => a = b
    <2> HIDE DEF full, F, D
    <2> QED
      BY <1>5, <1>19, <1>20, <1>21, <1>22, <1>23
  <1> QED
    BY <1>24 DEF Exact

\* A plan has one entry for a member and a month, and what it has ready is exact
\* at its prices.
OneEntryEach(plan) ==
  \A e, f \in plan.entries : e.member = f.member /\ e.month = f.month => e = f
Sound(plan) == OneEntryEach(plan) /\ \A e \in Ready(plan) : Exact(e, plan.prices)

LEMMA EntryIsOfItsTarget ==
  ASSUME NEW x, NEW month, NEW prices, NEW existing
  PROVE  /\ Entry(x, month, prices, existing).member = x
         /\ Entry(x, month, prices, existing).month = month
  BY DEF Entry

LEMMA PlansHaveOneEntryEach ==
  ASSUME NEW b, NEW live, NEW existing
  PROVE  OneEntryEach(PlanOf(b, live, existing))
  <1> DEFINE plan == PlanOf(b, live, existing)
             P == PricesOf(b, live)
             E(t) == Entry(t[1], t[2], P, existing)
  <1>1. plan.entries = {E(t) : t \in Targets(b)}
    BY DEF PlanOf
  <1>2. \A t : E(t).member = t[1] /\ E(t).month = t[2]
    BY EntryIsOfItsTarget
  <1>3. ASSUME NEW e \in plan.entries, NEW f \in plan.entries, e.member = f.member, e.month = f.month
        PROVE  e = f
    <2>1. PICK t \in Targets(b) : e = E(t)
      BY <1>1
    <2>2. PICK u \in Targets(b) : f = E(u)
      BY <1>1
    <2>3. t[1] = u[1] /\ t[2] = u[2]
      BY <1>2, <1>3, <2>1, <2>2
    <2> QED
      BY <2>1, <2>2, <2>3
  <1> QED
    BY <1>3 DEF OneEntryEach

\* The plan of a body, with prices of the catalogue, is sound.
LEMMA PlansAreSound ==
  ASSUME NEW scene \in Scenes, NEW r \in Request, NEW live \in SUBSET DOMAIN Catalogue, NEW existing
  PROVE  Sound(PlanOf(scene[r].body, live, existing))
  <1>1. PICK b : b = scene[r].body
    OBVIOUS
  <1>2. PICK P \in SUBSET DOMAIN Catalogue : P = PricesOf(b, live)
    BY DEF PricesOf
  <1>3. PICK plan : plan = PlanOf(b, live, existing)
    OBVIOUS
  <1>4. plan.prices = P /\ plan.entries = {Entry(t[1], t[2], P, existing) : t \in Targets(b)}
    BY <1>2, <1>3 DEF PlanOf
  <1>5. \A t \in Targets(b) : t[1] \in DOMAIN Roster /\ t[2] \in Int
    <2>1. \/ b.op = "generate" /\ b.month \in Int
          \/ b.op = "range" /\ b.from \in Int /\ b.through \in Int /\ b.member \in DOMAIN Roster
      BY <1>1, BodyAssumption
    <2> QED
      BY <2>1 DEF Targets, Months
  <1>6. ASSUME NEW e \in Ready(plan) PROVE Exact(e, P)
    <2>1. e \in plan.entries /\ e.status = "READY"
      BY <1>6 DEF Ready
    <2>2. PICK t \in Targets(b) : e = Entry(t[1], t[2], P, existing)
      BY <1>4, <2>1
    <2>3. PICK x \in DOMAIN Roster, month \in Int : e = Entry(x, month, P, existing)
      BY <1>5, <2>2
    <2> QED
      BY <2>1, <2>3, ReadyEntryIsExact
  <1>7. OneEntryEach(plan)
    BY <1>3, PlansHaveOneEntryEach
  <1>8. Sound(plan)
    BY <1>4, <1>6, <1>7 DEF Sound
  <1> QED
    BY <1>1, <1>3, <1>8

\* What is charged is worth what its entry is.
LEMMA ExactAsItsEntry ==
  ASSUME NEW P, NEW c, NEW e, c.member = e.member, c.month = e.month, c.net = e.net, c.parts = e.parts,
         Exact(e, P)
  PROVE  Exact(c, P)
  <1> DEFINE Worth(member, month, net, parts) ==
               LET discounts == {part \in parts : part.cents < 0}
                   full == [life \in Roster[member].sports \cup {Base(member, month)} |->
                              ByTheDay(life, month, P)]
               IN  /\ net > 0 /\ net = SumFunction([part \in parts |-> part.cents])
                   /\ net = SumFunction(full) + SumFunction([part \in discounts |-> part.cents])
                   /\ \A life \in DOMAIN full :
                        full[life] > 0 => [key |-> life.id, cents |-> full[life]] \in parts
                   /\ \A part \in parts \ discounts :
                        \E life \in DOMAIN full : part = [key |-> life.id, cents |-> full[life]]
                   /\ \A a, b \in {x \in Benefits[member] : \E part \in discounts : part.key = x.id} :
                        a.group # None /\ a.group = b.group => a = b
  <1>1. Worth(e.member, e.month, e.net, e.parts)
    BY DEF Exact
  <1>2. Worth(c.member, c.month, c.net, c.parts)
    <2> HIDE DEF Worth
    <2> QED
      BY <1>1
  <1> QED
    BY <1>2 DEF Exact

--------------------------------------------------------------------------------
\* The state

Places == {"idle", "claim", "lock", "first", "second", "insert"} \cup Ended

\* The variables are functions on the requests, of records with these fields.
IsCall(x) == x = [pc |-> x.pc, view |-> x.view, live |-> x.live, rows |-> x.rows, answer |-> x.answer]
IsPreview(x) == x = [pc |-> x.pc, live |-> x.live, existing |-> x.existing, plan |-> x.plan]
Shapes ==
  /\ ask \in Scenes
  /\ call = [r \in Request |-> call[r]] /\ preview = [r \in Request |-> preview[r]]
  /\ \A r \in Request :
       /\ IsCall(call[r]) /\ call[r].pc \in Places
       /\ IsPreview(preview[r])

\* What the operator of r has been shown, and what r may charge of it
Shown(r) == preview[ask[r].preview].pc = "shown"
Due(r) == {[by |-> r, member |-> e.member, month |-> e.month, net |-> e.net, parts |-> e.parts] :
             e \in Ready(Reviewed(r))}

\* What is shown is sound, and what a preview has read are prices.
PlanInv ==
  \A r \in Request : /\ preview[r].live \in SUBSET DOMAIN Catalogue
                     /\ preview[r].pc = "shown" => Sound(preview[r].plan)

\* A receipt is of its key, and tells what the review of its execution had ready.
ReceiptInv ==
  \A k \in DOMAIN receipt :
    /\ receipt[k].by \in Request /\ ask[receipt[k].by].key = k
    /\ Shown(receipt[k].by) /\ receipt[k].result = Due(receipt[k].by)

ChargesInv ==
  /\ charges = UNION {receipt[k].result : k \in DOMAIN receipt}
  /\ \A c, d \in charges : Pair(c) = Pair(d) => c = d

\* Who holds the receipt of a key is alone with it, and what is inserted and not
\* committed is nobody else's, committed or not.
HoldInv ==
  \A r \in Request :
    /\ HoldsReceipt(r) => /\ ask[r].key \notin DOMAIN receipt
                          /\ \A q \in Request \ {r} : HoldsReceipt(q) => ask[q].key # ask[r].key
    /\ \A c \in call[r].rows :
         /\ Pair(c) \notin Existing
         /\ \A q \in Request \ {r} : \A d \in call[q].rows : Pair(d) # Pair(c)

CallInv(r) ==
  /\ call[r].pc # "idle" => Shown(r)
  /\ call[r].pc = "insert" => call[r].answer = Due(r)
  /\ call[r].pc # "insert" => call[r].rows = {}
  /\ call[r].pc = "done" => /\ Claimed(r)
                            /\ call[r].answer = receipt[ask[r].key].result
                            /\ ask[receipt[ask[r].key].by].body = ask[r].body

Inv == /\ Shapes /\ PlanInv /\ ReceiptInv /\ ChargesInv /\ HoldInv
       /\ \A r \in Request : CallInv(r)

--------------------------------------------------------------------------------
\* What is charged

\* What is charged of a plan is charged once.
LEMMA DueOnce ==
  ASSUME NEW r, OneEntryEach(Reviewed(r)), NEW c \in Due(r), NEW d \in Due(r), Pair(c) = Pair(d)
  PROVE  c = d
  <1>1. PICK e \in Ready(Reviewed(r)) :
          c = [by |-> r, member |-> e.member, month |-> e.month, net |-> e.net, parts |-> e.parts]
    BY DEF Due
  <1>2. PICK f \in Ready(Reviewed(r)) :
          d = [by |-> r, member |-> f.member, month |-> f.month, net |-> f.net, parts |-> f.parts]
    BY DEF Due
  <1>3. e.member = f.member /\ e.month = f.month
    BY <1>1, <1>2 DEF Pair
  <1>4. e \in Reviewed(r).entries /\ f \in Reviewed(r).entries
    BY DEF Ready
  <1>5. e = f
    BY <1>3, <1>4 DEF OneEntryEach
  <1> QED
    BY <1>1, <1>2, <1>5

\* The members and months charged of a plan are those it has ready.
LEMMA PairsDue ==
  ASSUME NEW r, NEW result, result = Due(r)
  PROVE  {Pair(c) : c \in result} = {<<e.member, e.month>> : e \in Ready(Reviewed(r))}
  <1>1. PICK ready : ready = Ready(Reviewed(r))
    OBVIOUS
  <1>2. result = {[by |-> r, member |-> e.member, month |-> e.month, net |-> e.net, parts |-> e.parts] :
                    e \in ready}
    BY <1>1 DEF Due
  <1>3. \A c \in result : \E e \in ready : Pair(c) = <<e.member, e.month>>
    BY <1>2 DEF Pair
  <1>4. ASSUME NEW e \in ready PROVE \E c \in result : Pair(c) = <<e.member, e.month>>
    <2>1. PICK c : c = [by |-> r, member |-> e.member, month |-> e.month,
                        net |-> e.net, parts |-> e.parts]
      OBVIOUS
    <2>2. c \in result /\ Pair(c) = <<e.member, e.month>>
      BY <1>2, <2>1 DEF Pair
    <2> QED
      BY <2>2
  <1> QED
    BY <1>1, <1>3, <1>4

--------------------------------------------------------------------------------
\* What a step writes of one request

\* The call of r is another one.
LEMMA CallReplaced ==
  ASSUME Shapes, NEW r \in Request, NEW e, IsCall(e), e.pc \in Places,
         call' = [call EXCEPT ![r] = e], UNCHANGED <<ask, preview>>
  PROVE  /\ Shapes' /\ call'[r] = e
         /\ \A q \in Request : q # r => call'[q] = call[q]
  BY DEF Shapes

LEMMA GotoShape ==
  ASSUME Shapes, NEW r \in Request, NEW pc \in Places, Goto(r, pc), UNCHANGED <<ask, preview>>
  PROVE  /\ Shapes' /\ call'[r].pc = pc
         /\ call'[r].rows = call[r].rows /\ call'[r].answer = call[r].answer
         /\ \A q \in Request : q # r => call'[q] = call[q]
  <1>1. PICK e : e = [call[r] EXCEPT !.pc = pc]
    OBVIOUS
  <1>2. PICK a, b, c, d, f : call[r] = [pc |-> a, view |-> b, live |-> c, rows |-> d, answer |-> f]
    BY DEF Shapes, IsCall
  <1>3. IsCall(e) /\ e.pc = pc /\ e.rows = call[r].rows /\ e.answer = call[r].answer
    BY <1>1, <1>2 DEF IsCall
  <1>4. call' = [call EXCEPT ![r] = e]
    BY <1>1 DEF Goto
  <1> QED
    BY <1>3, <1>4, CallReplaced

LEMMA NewShape ==
  ASSUME Shapes, NEW r \in Request, NEW pc \in Places, NEW answer, UNCHANGED <<ask, preview>>,
         call' = [call EXCEPT ![r] = [NewCall EXCEPT !.pc = pc, !.answer = answer]]
  PROVE  /\ Shapes' /\ call'[r].pc = pc /\ call'[r].rows = {} /\ call'[r].answer = answer
         /\ \A q \in Request : q # r => call'[q] = call[q]
  <1>1. PICK e : e = [NewCall EXCEPT !.pc = pc, !.answer = answer]
    OBVIOUS
  <1>2. IsCall(e) /\ e.pc = pc /\ e.rows = {} /\ e.answer = answer
    BY <1>1 DEF NewCall, IsCall
  <1>3. call' = [call EXCEPT ![r] = e]
    BY <1>1
  <1> QED
    BY <1>2, <1>3, CallReplaced

LEMMA AbortShape ==
  ASSUME Shapes, NEW r \in Request, NEW why \in Places, Abort(r, why), UNCHANGED <<ask, preview>>
  PROVE  /\ Shapes' /\ call'[r].pc = why /\ call'[r].rows = {}
         /\ \A q \in Request : q # r => call'[q] = call[q]
  <1>1. PICK e : e = [NewCall EXCEPT !.pc = why]
    OBVIOUS
  <1>2. IsCall(e) /\ e.pc = why /\ e.rows = {}
    BY <1>1 DEF NewCall, IsCall
  <1>3. call' = [call EXCEPT ![r] = e]
    BY <1>1 DEF Abort
  <1> QED
    BY <1>2, <1>3, CallReplaced

LEMMA PreviewOfAsk ==
  ASSUME Shapes, NEW r \in Request
  PROVE  ask[r].preview \in Request
  BY GenerationAssumption DEF Shapes

\* One request goes on, and nothing is committed.
LEMMA OneCall ==
  ASSUME Inv, NEW r \in Request, Shapes', UNCHANGED <<charges, receipt, preview, ask>>,
         \A q \in Request : q # r => call'[q] = call[q],
         HoldsReceipt(r)' => /\ ask[r].key \notin DOMAIN receipt
                             /\ \A q \in Request \ {r} : HoldsReceipt(q) => ask[q].key # ask[r].key,
         \A c \in call'[r].rows :
           /\ Pair(c) \notin Existing
           /\ \A q \in Request \ {r} : \A d \in call[q].rows : Pair(d) # Pair(c),
         CallInv(r)'
  PROVE  Inv'
  <1>1. \A q \in Request : Shown(q)' = Shown(q) /\ Due(q)' = Due(q) /\ Claimed(q)' = Claimed(q)
    BY DEF Shown, Due, Reviewed, Claimed
  <1>2. Existing' = Existing
    BY DEF Existing
  <1>3. PlanInv' /\ ChargesInv'
    BY DEF Inv, PlanInv, ChargesInv
  <1>4. ReceiptInv'
    BY <1>1 DEF Inv, ReceiptInv
  <1>5. \A q \in Request : q # r => HoldsReceipt(q)' = HoldsReceipt(q)
    BY DEF HoldsReceipt
  <1>6. HoldInv'
    <2> SUFFICES ASSUME NEW q \in Request
                 PROVE  /\ HoldsReceipt(q)' =>
                             /\ ask[q].key \notin DOMAIN receipt
                             /\ \A s \in Request \ {q} : HoldsReceipt(s)' => ask[s].key # ask[q].key
                        /\ \A c \in call'[q].rows :
                             /\ Pair(c) \notin Existing
                             /\ \A s \in Request \ {q} : \A d \in call'[s].rows : Pair(d) # Pair(c)
      BY <1>2 DEF HoldInv
    <2>1. HoldInv
      BY DEF Inv
    <2>2. CASE q = r
      BY <1>5, <2>2
    <2>3. CASE q # r
      <3>1. /\ HoldsReceipt(q) => ask[q].key \notin DOMAIN receipt
            /\ \A c \in call[q].rows : Pair(c) \notin Existing
        BY <2>1 DEF HoldInv
      <3>2. ASSUME HoldsReceipt(q), NEW s \in Request \ {q}, HoldsReceipt(s)'
            PROVE  ask[s].key # ask[q].key
        BY <1>5, <2>1, <2>3, <3>2 DEF HoldInv
      <3>3. ASSUME NEW c \in call[q].rows, NEW s \in Request \ {q}, NEW d \in call'[s].rows
            PROVE  Pair(d) # Pair(c)
        <4>1. CASE s = r
          BY <2>3, <4>1
        <4>2. CASE s # r
          BY <2>1, <4>2 DEF HoldInv
        <4> QED
          BY <4>1, <4>2
      <3> QED
        BY <1>5, <2>3, <3>1, <3>2, <3>3
    <2> QED
      BY <2>2, <2>3
  <1>7. ASSUME NEW q \in Request, q # r PROVE CallInv(q)'
    <2>1. CallInv(q) /\ call'[q] = call[q]
      BY <1>7 DEF Inv
    <2> QED
      BY <1>1, <2>1 DEF CallInv
  <1> QED
    BY <1>3, <1>4, <1>6, <1>7 DEF Inv

\* ... a request that has nothing inserted, before it or after its end
LEMMA QuietCall ==
  ASSUME Inv, NEW r \in Request, Shapes', UNCHANGED <<charges, receipt, preview, ask>>,
         \A q \in Request : q # r => call'[q] = call[q],
         call'[r].rows = {}, call'[r].pc \notin {"idle", "done", "insert"}, Shown(r),
         HoldsReceipt(r)' => HoldsReceipt(r)
  PROVE  Inv'
  <1>1. Shown(r)' = Shown(r)
    BY DEF Shown
  <1>2. CallInv(r)'
    BY <1>1 DEF CallInv
  <1>3. HoldsReceipt(r)' => /\ ask[r].key \notin DOMAIN receipt
                            /\ \A q \in Request \ {r} : HoldsReceipt(q) => ask[q].key # ask[r].key
    BY DEF Inv, HoldInv
  <1> QED
    BY <1>2, <1>3, OneCall

--------------------------------------------------------------------------------
\* The steps of an execution

LEMMA BeginStep ==
  ASSUME Inv, NEW r \in Request, Begin(r)
  PROVE  Inv'
  <1>1. PICK v : call' = [call EXCEPT ![r] = [call[r] EXCEPT !.pc = "claim", !.view = v]]
    BY DEF Begin
  <1>2. call[r].pc = "idle" /\ Shown(r) /\ UNCHANGED <<charges, receipt, preview, ask>>
    BY DEF Begin, Shown
  <1>3. Shapes /\ call[r].rows = {}
    BY <1>2 DEF Inv, CallInv
  <1>4. PICK e : e = [call[r] EXCEPT !.pc = "claim", !.view = v]
    OBVIOUS
  <1>5. IsCall(e) /\ e.pc = "claim" /\ e.rows = call[r].rows
    <2>1. PICK a, b, c, d, f : call[r] = [pc |-> a, view |-> b, live |-> c, rows |-> d, answer |-> f]
      BY <1>3 DEF Shapes, IsCall
    <2> QED
      BY <1>4, <2>1 DEF IsCall
  <1>6. call' = [call EXCEPT ![r] = e]
    BY <1>1, <1>4
  <1>7. Shapes' /\ call'[r] = e /\ \A q \in Request : q # r => call'[q] = call[q]
    BY <1>2, <1>3, <1>5, <1>6, CallReplaced DEF Places
  <1>8. ~HoldsReceipt(r)'
    BY <1>5, <1>7 DEF HoldsReceipt
  <1> QED
    BY <1>2, <1>3, <1>5, <1>7, <1>8, QuietCall

LEMMA ClaimStep ==
  ASSUME Inv, NEW r \in Request, ClaimReceipt(r)
  PROVE  Inv'
  <1>0. /\ Shapes /\ Shown(r) /\ call[r].pc = "claim" /\ call[r].rows = {}
        /\ UNCHANGED <<charges, receipt, preview, ask>>
        /\ \A q \in Request : ask[q].key = ask[r].key => ~HoldsReceipt(q)
    BY DEF Inv, CallInv, ClaimReceipt
  <1>1. CASE Goto(r, "lock") /\ ~Claimed(r)
    <2>1. /\ Shapes' /\ call'[r].pc = "lock" /\ call'[r].rows = {}
          /\ \A q \in Request : q # r => call'[q] = call[q]
      BY <1>0, <1>1, GotoShape DEF Places
    <2>2. CallInv(r)'
      BY <1>0, <2>1 DEF CallInv, Shown
    <2> QED
      BY <1>0, <1>1, <2>1, <2>2, OneCall DEF Claimed
  <1>2. CASE \E why \in {"failed", "conflict"} : Abort(r, why)
    <2>1. PICK why \in {"failed", "conflict"} : Abort(r, why)
      BY <1>2
    <2>2. /\ Shapes' /\ call'[r].pc = why /\ call'[r].rows = {}
          /\ \A q \in Request : q # r => call'[q] = call[q]
      BY <1>0, <2>1, AbortShape DEF Places, Ended
    <2>3. ~HoldsReceipt(r)'
      BY <2>2 DEF HoldsReceipt
    <2> QED
      BY <1>0, <2>2, <2>3, QuietCall
  <1>3. CASE /\ Claimed(r) /\ ask[receipt[ask[r].key].by].body = ask[r].body
             /\ call' = [call EXCEPT ![r] =
                          [NewCall EXCEPT !.pc = "done", !.answer = receipt[ask[r].key].result]]
    <2>0. PICK answer : answer = receipt[ask[r].key].result
      OBVIOUS
    <2>1. PICK e : e = [NewCall EXCEPT !.pc = "done", !.answer = answer]
      OBVIOUS
    <2>2. IsCall(e) /\ e.pc = "done" /\ e.rows = {} /\ e.answer = answer
      BY <2>1 DEF NewCall, IsCall
    <2>3. "done" \in Places
      BY DEF Places, Ended
    <2>4. call' = [call EXCEPT ![r] = e]
      BY <1>3, <2>0, <2>1
    <2>5. Shapes' /\ call'[r] = e /\ \A q \in Request : q # r => call'[q] = call[q]
      BY <1>0, <2>2, <2>3, <2>4, CallReplaced
    <2>6. CallInv(r)'
      BY <1>0, <1>3, <2>0, <2>2, <2>5 DEF CallInv, Shown, Claimed
    <2>7. ~HoldsReceipt(r)'
      BY <2>2, <2>5 DEF HoldsReceipt
    <2> QED
      BY <1>0, <2>2, <2>5, <2>6, <2>7, OneCall
  <1> QED
    BY <1>0, <1>1, <1>2, <1>3 DEF ClaimReceipt

LEMMA WaitStep ==
  ASSUME Inv, NEW r \in Request, Lock(r) \/ ReadPrices(r) \/ Fail(r)
  PROVE  Inv'
  <1>0. /\ Shapes /\ Shown(r) /\ HoldsReceipt(r) /\ call[r].pc # "idle"
        /\ UNCHANGED <<charges, receipt, preview, ask>>
        /\ call[r].pc # "insert" => call[r].rows = {}
    BY DEF Inv, CallInv, Lock, ReadPrices, Fail, HoldsReceipt
  <1>1. CASE Lock(r)
    <2>1. PICK pc \in {"first", "second"} : Goto(r, pc) /\ call[r].pc = "lock"
      BY <1>1 DEF Lock
    <2>2. /\ Shapes' /\ call'[r].pc = pc /\ call'[r].rows = {}
          /\ \A q \in Request : q # r => call'[q] = call[q]
      BY <1>0, <2>1, GotoShape DEF Places
    <2> QED
      BY <1>0, <2>2, QuietCall
  <1>2. CASE ReadPrices(r)
    <2>1. PICK v : call' = [call EXCEPT ![r] = [call[r] EXCEPT !.pc = "second", !.live = v]]
      BY <1>2 DEF ReadPrices
    <2>2. call[r].rows = {}
      BY <1>0, <1>2 DEF ReadPrices
    <2>3. PICK e : e = [call[r] EXCEPT !.pc = "second", !.live = v]
      OBVIOUS
    <2>4. IsCall(e) /\ e.pc = "second" /\ e.rows = {}
      <3>1. PICK a, b, c, d, f : call[r] = [pc |-> a, view |-> b, live |-> c, rows |-> d, answer |-> f]
        BY <1>0 DEF Shapes, IsCall
      <3> QED
        BY <2>2, <2>3, <3>1 DEF IsCall
    <2>5. call' = [call EXCEPT ![r] = e]
      BY <2>1, <2>3
    <2>6. Shapes' /\ call'[r] = e /\ \A q \in Request : q # r => call'[q] = call[q]
      BY <1>0, <2>4, <2>5, CallReplaced DEF Places
    <2> QED
      BY <1>0, <2>4, <2>6, QuietCall
  <1>3. CASE Fail(r)
    <2>1. Abort(r, "failed")
      BY <1>3 DEF Fail
    <2>2. /\ Shapes' /\ call'[r].pc = "failed" /\ call'[r].rows = {}
          /\ \A q \in Request : q # r => call'[q] = call[q]
      BY <1>0, <2>1, AbortShape DEF Places, Ended
    <2> QED
      BY <1>0, <2>2, QuietCall
  <1> QED
    BY <1>1, <1>2, <1>3

\* What was planned again is what was reviewed: the execution charges that.
LEMMA ReplanStep ==
  ASSUME Inv, NEW r \in Request, Replan(r)
  PROVE  Inv'
  <1>0. /\ Shapes /\ Shown(r) /\ HoldsReceipt(r) /\ call[r].pc = "second" /\ call[r].rows = {}
        /\ UNCHANGED <<charges, receipt, preview, ask>>
    BY DEF Inv, CallInv, Replan, HoldsReceipt
  <1>1. CASE StillReviewed(r)
    <2>1. call' = [call EXCEPT ![r] = [NewCall EXCEPT !.pc = "insert", !.answer = Due(r)]]
      BY <1>1 DEF Replan, StillReviewed, Due
    <2>2. /\ Shapes' /\ call'[r].pc = "insert" /\ call'[r].rows = {} /\ call'[r].answer = Due(r)
          /\ \A q \in Request : q # r => call'[q] = call[q]
      BY <1>0, <2>1, NewShape DEF Places
    <2>3. Shown(r)' = Shown(r) /\ Due(r)' = Due(r)
      BY <1>0 DEF Shown, Due, Reviewed
    <2>4. CallInv(r)'
      BY <1>0, <2>2, <2>3 DEF CallInv
    <2>5. /\ ask[r].key \notin DOMAIN receipt
          /\ \A q \in Request \ {r} : HoldsReceipt(q) => ask[q].key # ask[r].key
      BY <1>0 DEF Inv, HoldInv
    <2> QED
      BY <1>0, <2>2, <2>4, <2>5, OneCall
  <1>2. CASE ~StillReviewed(r)
    <2>1. Abort(r, "conflict")
      BY <1>2 DEF Replan
    <2>2. /\ Shapes' /\ call'[r].pc = "conflict" /\ call'[r].rows = {}
          /\ \A q \in Request : q # r => call'[q] = call[q]
      BY <1>0, <2>1, AbortShape DEF Places, Ended
    <2> QED
      BY <1>0, <2>2, QuietCall
  <1> QED
    BY <1>1, <1>2

LEMMA InsertStep ==
  ASSUME Inv, NEW r \in Request, Insert(r)
  PROVE  Inv'
  <1>0. /\ Shapes /\ CallInv(r) /\ Shown(r) /\ HoldsReceipt(r) /\ call[r].pc = "insert"
        /\ UNCHANGED <<charges, receipt, preview, ask>>
    BY DEF Inv, CallInv, Insert, HoldsReceipt
  <1>1. PICK c : /\ \A q \in Request \ {r} : \A d \in call[q].rows : Pair(d) # Pair(c)
                 /\ \/ Taken(c) /\ Abort(r, "failed")
                    \/ ~Taken(c) /\ call' = [call EXCEPT ![r].rows = call[r].rows \cup {c}]
    BY DEF Insert
  <1>2. CASE Taken(c) /\ Abort(r, "failed")
    <2>1. /\ Shapes' /\ call'[r].pc = "failed" /\ call'[r].rows = {}
          /\ \A q \in Request : q # r => call'[q] = call[q]
      BY <1>0, <1>2, AbortShape DEF Places, Ended
    <2> QED
      BY <1>0, <2>1, QuietCall
  <1>3. CASE ~Taken(c) /\ call' = [call EXCEPT ![r].rows = call[r].rows \cup {c}]
    <2>1. /\ Shapes' /\ call'[r].pc = "insert" /\ call'[r].rows = call[r].rows \cup {c}
          /\ call'[r].answer = call[r].answer
          /\ \A q \in Request : q # r => call'[q] = call[q]
      <3>1. PICK e : e = [call[r] EXCEPT !.rows = call[r].rows \cup {c}]
        OBVIOUS
      <3>2. IsCall(e) /\ e.pc = "insert" /\ e.rows = call[r].rows \cup {c} /\ e.answer = call[r].answer
        <4>1. PICK a, b, x, d, f : call[r] = [pc |-> a, view |-> b, live |-> x, rows |-> d, answer |-> f]
          BY <1>0 DEF Shapes, IsCall
        <4> QED
          BY <1>0, <3>1, <4>1 DEF IsCall
      <3>3. call' = [call EXCEPT ![r] = e]
        BY <1>3, <3>1
      <3> QED
        BY <1>0, <3>2, <3>3, CallReplaced DEF Places
    <2>2. Shown(r)' = Shown(r) /\ Due(r)' = Due(r)
      BY <1>0 DEF Shown, Due, Reviewed
    <2>3. CallInv(r)'
      BY <1>0, <2>1, <2>2 DEF CallInv
    <2>4. /\ ask[r].key \notin DOMAIN receipt
          /\ \A q \in Request \ {r} : HoldsReceipt(q) => ask[q].key # ask[r].key
      BY <1>0 DEF Inv, HoldInv
    <2>5. \A d \in call'[r].rows :
            /\ Pair(d) \notin Existing
            /\ \A q \in Request \ {r} : \A e \in call[q].rows : Pair(e) # Pair(d)
      BY <1>1, <1>3, <2>1 DEF Inv, HoldInv, Taken
    <2> QED
      BY <1>0, <2>1, <2>3, <2>4, <2>5, OneCall
  <1> QED
    BY <1>1, <1>2, <1>3

--------------------------------------------------------------------------------
\* The commit

\* The receipts after the commit of r
LEMMA ReceiptWritten ==
  ASSUME NEW r, Finish(r), ask[r].key \notin DOMAIN receipt
  PROVE  /\ DOMAIN receipt' = DOMAIN receipt \cup {ask[r].key}
         /\ receipt'[ask[r].key].by = r /\ receipt'[ask[r].key].result = call[r].answer
         /\ \A k \in DOMAIN receipt : k # ask[r].key /\ receipt'[k] = receipt[k]
  BY DEF Finish

LEMMA FinishStep ==
  ASSUME Inv, NEW r \in Request, Finish(r)
  PROVE  Inv'
  <1>0. /\ Shapes /\ CallInv(r) /\ Shown(r) /\ HoldsReceipt(r) /\ call[r].rows = Due(r)
        /\ call[r].answer = Due(r) /\ UNCHANGED <<ask, preview>>
    BY DEF Inv, CallInv, Finish, HoldsReceipt
  <1>1. /\ ask[r].key \notin DOMAIN receipt
        /\ \A q \in Request \ {r} : HoldsReceipt(q) => ask[q].key # ask[r].key
    BY <1>0 DEF Inv, HoldInv
  <1>2. /\ DOMAIN receipt' = DOMAIN receipt \cup {ask[r].key}
        /\ receipt'[ask[r].key].by = r /\ receipt'[ask[r].key].result = Due(r)
        /\ \A k \in DOMAIN receipt : k # ask[r].key /\ receipt'[k] = receipt[k]
    BY <1>0, <1>1, ReceiptWritten
  <1>3. /\ Shapes' /\ call'[r].pc = "done" /\ call'[r].rows = {} /\ call'[r].answer = Due(r)
        /\ \A q \in Request : q # r => call'[q] = call[q]
    <2>1. call' = [call EXCEPT ![r] = [NewCall EXCEPT !.pc = "done", !.answer = Due(r)]]
      BY <1>0 DEF Finish
    <2>2. "done" \in Places
      BY DEF Places, Ended
    <2> QED
      BY <1>0, <2>1, <2>2, NewShape
  <1>4. \A q : Shown(q)' = Shown(q) /\ Due(q)' = Due(q)
    BY <1>0 DEF Shown, Due, Reviewed
  <1>5. charges' = charges \cup Due(r)
    BY <1>0 DEF Finish
  <1>6. \A c \in Due(r) : Pair(c) \notin Existing
    BY <1>0 DEF Inv, HoldInv
  <1>7. PlanInv'
    BY <1>0 DEF Inv, PlanInv
  <1>8. ReceiptInv'
    <2>1. /\ receipt'[ask[r].key].by \in Request
          /\ ask[receipt'[ask[r].key].by].key = ask[r].key
          /\ Shown(receipt'[ask[r].key].by)
          /\ receipt'[ask[r].key].result = Due(receipt'[ask[r].key].by)
      BY <1>0, <1>2
    <2>2. \A k \in DOMAIN receipt :
            /\ receipt'[k].by \in Request /\ ask[receipt'[k].by].key = k
            /\ Shown(receipt'[k].by) /\ receipt'[k].result = Due(receipt'[k].by)
      BY <1>2 DEF Inv, ReceiptInv
    <2>3. \A k \in DOMAIN receipt' :
            /\ receipt'[k].by \in Request /\ ask[receipt'[k].by].key = k
            /\ Shown(receipt'[k].by) /\ receipt'[k].result = Due(receipt'[k].by)
      BY <1>2, <2>1, <2>2
    <2> QED
      BY <1>0, <1>4, <2>3 DEF ReceiptInv
  <1>9. ChargesInv'
    <2>1. charges' = UNION {receipt'[k].result : k \in DOMAIN receipt'}
      <3>1. charges = UNION {receipt[k].result : k \in DOMAIN receipt}
        BY DEF Inv, ChargesInv
      <3>2. ASSUME NEW c \in charges' PROVE \E k \in DOMAIN receipt' : c \in receipt'[k].result
        <4>1. CASE c \in charges
          <5>1. PICK k \in DOMAIN receipt : c \in receipt[k].result
            BY <3>1, <4>1
          <5> QED
            BY <1>2, <5>1
        <4>2. CASE c \in Due(r)
          BY <1>2, <4>2
        <4> QED
          BY <1>5, <3>2, <4>1, <4>2
      <3>3. ASSUME NEW k \in DOMAIN receipt', NEW c \in receipt'[k].result PROVE c \in charges'
        <4>1. CASE k \in DOMAIN receipt
          BY <1>2, <1>5, <3>1, <3>3, <4>1
        <4>2. CASE k = ask[r].key
          BY <1>2, <1>5, <3>3, <4>2
        <4> QED
          BY <1>2, <3>3, <4>1, <4>2
      <3> QED
        BY <3>2, <3>3
    <2>2. ASSUME NEW c \in charges', NEW d \in charges', Pair(c) = Pair(d) PROVE c = d
      <3>1. CASE c \in charges /\ d \in charges
        BY <2>2, <3>1 DEF Inv, ChargesInv
      <3>2. CASE c \in Due(r) /\ d \in Due(r)
        <4>1. OneEntryEach(Reviewed(r))
          BY <1>0, PreviewOfAsk DEF Inv, PlanInv, Shown, Reviewed, Sound
        <4> QED
          BY <2>2, <3>2, <4>1, DueOnce
      <3>3. \A x \in charges, y \in Due(r) : Pair(x) # Pair(y)
        BY <1>6 DEF Existing
      <3> QED
        BY <1>5, <2>2, <3>1, <3>2, <3>3
    <2> QED
      BY <2>1, <2>2 DEF ChargesInv
  <1>10. HoldInv'
    <2>0. HoldInv
      BY DEF Inv
    <2>1. ~HoldsReceipt(r)' /\ \A q \in Request : q # r => HoldsReceipt(q)' = HoldsReceipt(q)
      BY <1>3 DEF HoldsReceipt
    <2>2. \A q \in Request : HoldsReceipt(q)' => ask[q].key \notin DOMAIN receipt'
      <3> SUFFICES ASSUME NEW q \in Request, HoldsReceipt(q)'
                   PROVE  ask[q].key \notin DOMAIN receipt'
        OBVIOUS
      <3>1. q # r /\ HoldsReceipt(q)
        BY <2>1
      <3>2. ask[q].key \notin DOMAIN receipt
        BY <2>0, <3>1 DEF HoldInv
      <3>3. ask[q].key # ask[r].key
        BY <1>1, <3>1
      <3> QED
        BY <1>2, <3>2, <3>3
    <2>3. \A q \in Request : \A s \in Request \ {q} :
            HoldsReceipt(q)' /\ HoldsReceipt(s)' => ask[s].key # ask[q].key
      BY <2>0, <2>1 DEF HoldInv
    <2>4. ASSUME NEW q \in Request, NEW c \in call'[q].rows PROVE Pair(c) \notin Existing'
      <3>1. q # r /\ c \in call[q].rows
        BY <1>3, <2>4
      <3>2. \A d \in charges : Pair(d) # Pair(c)
        BY <2>0, <3>1 DEF HoldInv, Existing
      <3>3. \A d \in Due(r) : Pair(d) # Pair(c)
        BY <1>0, <2>0, <3>1 DEF HoldInv
      <3> QED
        BY <1>5, <3>2, <3>3 DEF Existing
    <2>5. ASSUME NEW q \in Request, NEW c \in call'[q].rows,
                 NEW s \in Request \ {q}, NEW d \in call'[s].rows
          PROVE  Pair(d) # Pair(c)
      <3>1. q # r /\ s # r /\ c \in call[q].rows /\ d \in call[s].rows
        BY <1>3, <2>5
      <3> QED
        BY <2>0, <3>1 DEF HoldInv
    <2> QED
      BY <1>0, <2>2, <2>3, <2>4, <2>5 DEF HoldInv
  <1>11. ASSUME NEW q \in Request PROVE CallInv(q)'
    <2>1. CASE q = r
      BY <1>0, <1>2, <1>3, <1>4, <2>1 DEF CallInv, Claimed
    <2>2. CASE q # r
      <3>1. CallInv(q) /\ call'[q] = call[q]
        BY <1>3, <2>2 DEF Inv
      <3>2. Claimed(q) => /\ Claimed(q)' /\ receipt'[ask[q].key] = receipt[ask[q].key]
        BY <1>0, <1>2 DEF Claimed
      <3> QED
        BY <1>0, <1>4, <3>1, <3>2 DEF CallInv
    <2> QED
      BY <2>1, <2>2
  <1> QED
    BY <1>3, <1>7, <1>8, <1>9, <1>10, <1>11 DEF Inv

--------------------------------------------------------------------------------
\* The previews and the prices, and the whole

\* What an operator has been shown does not change; the operator of r gets
\* something else, or a plan.
LEMMA OnePreview ==
  ASSUME Inv, NEW r \in Request, NEW e, IsPreview(e), preview[r].pc # "shown",
         e.live \in SUBSET DOMAIN Catalogue, e.pc = "shown" => Sound(e.plan),
         preview' = [preview EXCEPT ![r] = e], UNCHANGED <<charges, receipt, call, ask>>
  PROVE  Inv'
  <1>0. Shapes
    BY DEF Inv
  <1>1. Shapes' /\ preview'[r] = e /\ \A q \in Request : q # r => preview'[q] = preview[q]
    BY <1>0 DEF Shapes
  <1>2. PlanInv'
    BY <1>1 DEF Inv, PlanInv
  <1>3. ASSUME NEW q \in Request, Shown(q) PROVE Shown(q)' /\ Due(q)' = Due(q)
    <2>1. ask[q].preview \in Request /\ ask[q].preview # r
      BY <1>0, <1>3, PreviewOfAsk DEF Shown
    <2>2. preview'[ask[q].preview] = preview[ask[q].preview]
      BY <1>1, <2>1
    <2> QED
      BY <1>3, <2>2 DEF Shown, Due, Reviewed
  <1>4. ReceiptInv'
    <2>1. \A k \in DOMAIN receipt :
            /\ receipt[k].by \in Request /\ ask[receipt[k].by].key = k
            /\ Shown(receipt[k].by)' /\ receipt[k].result = Due(receipt[k].by)'
      BY <1>3 DEF Inv, ReceiptInv
    <2> QED
      BY <2>1 DEF ReceiptInv
  <1>5. ChargesInv' /\ HoldInv'
    BY DEF Inv, ChargesInv, HoldInv, HoldsReceipt, Existing
  <1>6. ASSUME NEW q \in Request PROVE CallInv(q)'
    BY <1>3 DEF Inv, CallInv, Claimed
  <1> QED
    BY <1>1, <1>2, <1>4, <1>5, <1>6 DEF Inv

LEMMA PreviewStep ==
  ASSUME Inv, NEW r \in Request, Review(r)
  PROVE  Inv'
  <1>0. Shapes
    BY DEF Inv
  <1>1. CASE PreviewFirst(r)
    <2>1. PICK e : /\ preview' = [preview EXCEPT ![r] = e]
                   /\ \/ \E v : e = [preview[r] EXCEPT !.pc = "second", !.existing = v]
                      \/ e = [preview[r] EXCEPT !.pc = "second", !.live = Live]
      BY <1>1 DEF PreviewFirst
    <2>2. PICK live \in SUBSET DOMAIN Catalogue : live = Live
      BY DEF Live
    <2>3. preview[r].live \in SUBSET DOMAIN Catalogue
      BY DEF Inv, PlanInv
    <2>4. IsPreview(e) /\ e.pc = "second" /\ e.live \in SUBSET DOMAIN Catalogue
      <3>1. PICK a, b, c, d : preview[r] = [pc |-> a, live |-> b, existing |-> c, plan |-> d]
        BY <1>0 DEF Shapes, IsPreview
      <3> QED
        BY <2>1, <2>2, <2>3, <3>1 DEF IsPreview
    <2>5. preview[r].pc # "shown" /\ UNCHANGED <<charges, receipt, call, ask>>
      BY <1>1 DEF PreviewFirst
    <2> QED
      BY <2>1, <2>4, <2>5, OnePreview
  <1>2. CASE PreviewSecond(r)
    <2>0. Live \in SUBSET DOMAIN Catalogue /\ preview[r].live \in SUBSET DOMAIN Catalogue
      BY DEF Live, Inv, PlanInv
    <2>a. PICK live \in SUBSET DOMAIN Catalogue : \E existing :
            preview' = [preview EXCEPT ![r] =
              [Unread EXCEPT !.pc = "shown", !.plan = PlanOf(ask[r].body, live, existing)]]
      BY <1>2, <2>0 DEF PreviewSecond
    <2>1. PICK existing :
            preview' = [preview EXCEPT ![r] =
              [Unread EXCEPT !.pc = "shown", !.plan = PlanOf(ask[r].body, live, existing)]]
      BY <2>a
    <2>2. PICK plan : plan = PlanOf(ask[r].body, live, existing)
      OBVIOUS
    <2>3. PICK e : e = [Unread EXCEPT !.pc = "shown", !.plan = plan]
      OBVIOUS
    <2>4. IsPreview(e) /\ e.pc = "shown" /\ e.plan = plan /\ e.live = {}
      BY <2>3 DEF IsPreview, Unread
    <2>5. Sound(e.plan)
      <3>1. ask \in Scenes
        BY <1>0 DEF Shapes
      <3>2. Sound(PlanOf(ask[r].body, live, existing))
        BY <3>1, PlansAreSound
      <3> QED
        BY <2>2, <2>4, <3>2
    <2>6. preview' = [preview EXCEPT ![r] = e]
      BY <2>1, <2>2, <2>3
    <2>7. preview[r].pc # "shown" /\ UNCHANGED <<charges, receipt, call, ask>>
      BY <1>2 DEF PreviewSecond
    <2> QED
      BY <2>4, <2>5, <2>6, <2>7, OnePreview
  <1> QED
    BY <1>1, <1>2 DEF Review

LEMMA NothingOfOurs ==
  ASSUME Inv, UNCHANGED <<charges, receipt, preview, call, ask>>
  PROVE  Inv'
  <1>1. \A q : /\ Shown(q)' = Shown(q) /\ Due(q)' = Due(q) /\ Claimed(q)' = Claimed(q)
               /\ HoldsReceipt(q)' = HoldsReceipt(q)
    BY DEF Shown, Due, Reviewed, Claimed, HoldsReceipt
  <1>2. Existing' = Existing
    BY DEF Existing
  <1>3. Shapes' /\ PlanInv' /\ ChargesInv'
    BY DEF Inv, Shapes, PlanInv, ChargesInv
  <1>4. ReceiptInv'
    BY <1>1 DEF Inv, ReceiptInv
  <1>5. HoldInv'
    BY <1>1, <1>2 DEF Inv, HoldInv
  <1>6. ASSUME NEW q \in Request PROVE CallInv(q)'
    BY <1>1 DEF Inv, CallInv
  <1> QED
    BY <1>3, <1>4, <1>5, <1>6 DEF Inv

LEMMA NextInv ==
  ASSUME Inv, [Next]_vars
  PROVE  Inv'
  <1>1. CASE Prices
    BY <1>1, NothingOfOurs DEF Prices, CreatePrice, RevokePrice
  <1>2. ASSUME NEW r \in Request, Review(r) PROVE Inv'
    BY <1>2, PreviewStep
  <1>3. ASSUME NEW r \in Request, Execute(r) PROVE Inv'
    BY <1>3, BeginStep, ClaimStep, WaitStep, ReplanStep, InsertStep, FinishStep DEF Execute
  <1>4. CASE UNCHANGED vars
    BY <1>4, NothingOfOurs DEF vars
  <1> QED
    BY <1>1, <1>2, <1>3, <1>4 DEF Next

LEMMA InitInv ==
  ASSUME Init
  PROVE  Inv
  <1>1. \A r \in Request : call[r] = NewCall /\ preview[r] = Unread
    BY DEF Init
  <1>2. Shapes
    BY <1>1 DEF Init, Shapes, NewCall, Unread, IsCall, IsPreview, Places
  <1>3. \A r \in Request : preview[r].pc # "shown" /\ ~HoldsReceipt(r) /\ call[r].rows = {}
    BY <1>1 DEF NewCall, Unread, HoldsReceipt
  <1>4. PlanInv /\ HoldInv
    <2>1. \A r \in Request : preview[r].live = {}
      BY <1>1 DEF Unread
    <2> QED
      BY <1>3, <2>1 DEF PlanInv, HoldInv
  <1>5. DOMAIN receipt = {}
    BY DEF Init
  <1>6. ReceiptInv /\ ChargesInv
    BY <1>5 DEF Init, ReceiptInv, ChargesInv
  <1>7. \A r \in Request : CallInv(r)
    BY <1>1 DEF CallInv, NewCall
  <1> QED
    BY <1>2, <1>4, <1>6, <1>7 DEF Inv

\* Every reachable state satisfies the inductive invariant: what an operator is
\* shown is a sound plan, a receipt tells what the review of its execution had
\* ready, who holds the receipt of a key is alone with it, and no obligation in
\* flight is another's or is there already.
THEOREM GenerationInvariant == Spec => []Inv
  <1>1. Init => Inv
    BY InitInv
  <1>2. Inv /\ [Next]_vars => Inv'
    BY NextInv
  <1> QED
    BY <1>1, <1>2, PTL DEF Spec

\* For any members, prices, benefits and requests, a member is charged once for a
\* month, the charges are those of the committed receipts, and what is answered
\* under a key is the result of the one receipt of the key (generation.ts,
\* assessment-service.ts).
THEOREM MonthsAreChargedOnce == Spec => []ChargesAreAccounted
  <1>1. Inv => ChargesAreAccounted
    BY DEF Inv, ChargesInv, CallInv, ChargesAreAccounted
  <1> QED
    BY <1>1, GenerationInvariant, PTL

\* What a receipt charged is exactly what the plan the operator reviewed had
\* ready, entry by entry, whatever was executed, created or revoked in between
\* (the fingerprint compared in executeGeneration and executeRange).
ChargedAsReviewed ==
  \A k \in DOMAIN receipt :
    /\ receipt[k].by \in Request /\ ask[receipt[k].by].key = k
    /\ receipt[k].result = Due(receipt[k].by)
THEOREM ReceiptsChargeWhatWasReviewed == Spec => []ChargedAsReviewed
  <1>1. Inv => ChargedAsReviewed
    BY DEF Inv, ReceiptInv, ChargedAsReviewed
  <1> QED
    BY <1>1, GenerationInvariant, PTL

\* For any members, prices, enrolments and benefits the tables admit, and whatever
\* is executed, created or revoked meanwhile: a charge is worth each day of the
\* member at the price the operator was shown for it, rounded once for the base
\* and once for each enrolment, less the benefits, at most one of each exclusive
\* group; its parts add up to it; and an execution charges all that its preview
\* had ready (range-planner.ts, benefits.ts, generation-plan.ts, generation.ts).
THEOREM ChargesAreExactAlways == Spec => []ChargesAreExact
  <1>1. ASSUME Inv, NEW c \in charges PROVE Exact(c, Reviewed(c.by).prices)
    <2>1. PICK k \in DOMAIN receipt : c \in receipt[k].result
      BY <1>1 DEF Inv, ChargesInv
    <2>2. PICK r \in Request : Shown(r) /\ c \in Due(r)
      BY <1>1, <2>1 DEF Inv, ReceiptInv
    <2>3. PICK e \in Ready(Reviewed(r)) :
            c = [by |-> r, member |-> e.member, month |-> e.month, net |-> e.net, parts |-> e.parts]
      BY <2>2 DEF Due
    <2>4. /\ c.by = r /\ c.member = e.member /\ c.month = e.month
          /\ c.net = e.net /\ c.parts = e.parts
      BY <2>3
    <2>5. Exact(e, Reviewed(r).prices)
      BY <1>1, <2>2, <2>3, PreviewOfAsk DEF Inv, PlanInv, Shown, Reviewed, Sound
    <2>6. Exact(c, Reviewed(r).prices)
      BY <2>4, <2>5, ExactAsItsEntry
    <2> QED
      BY <2>4, <2>6
  <1>2. ASSUME Inv, NEW k \in DOMAIN receipt
        PROVE  {Pair(c) : c \in receipt[k].result} =
                 {<<e.member, e.month>> : e \in Ready(Reviewed(receipt[k].by))}
    <2>1. receipt[k].result = Due(receipt[k].by)
      BY <1>2 DEF Inv, ReceiptInv
    <2> QED
      BY <2>1, PairsDue
  <1>3. Inv => ChargesAreExact
    BY <1>1, <1>2 DEF ChargesAreExact
  <1> QED
    BY <1>3, GenerationInvariant, PTL
================================================================================
