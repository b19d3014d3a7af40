-------------------------- MODULE ReportReadsProofs --------------------------
(***************************************************************************)
(* Theorems about ReportReads, for any calendar, imports and bounds: what   *)
(* "complete" means, that a listing holds what it rests on, and that it     *)
(* shows every row once; and about ReportTree, for any rows: that the tree  *)
(* of a month builds, holds every row once and is honest about evidence,    *)
(* and that every debit is explained once.                                  *)
(***************************************************************************)
EXTENDS MCReports, FiniteSetTheorems, WellFoundedInduction, TLAPS

-----------------------------------------------------------------------------
(* Natural numbers *)

\* A nonempty set of naturals has a least element.
LEMMA LeastNatural ==
  ASSUME NEW T \in SUBSET Nat, T # {}
  PROVE  \E m \in T : \A y \in T : m <= y
<1>1. PICK m \in T : \A y \in T : ~(<<y, m>> \in OpToRel(<, Nat))
  BY WFMin, NatLessThanWellFounded, Zenon
<1>2. \A y \in T : ~(y < m)
  BY <1>1 DEF OpToRel
<1> QED BY <1>2

\* Induction, over a set instead of a predicate.
LEMMA NaturalInduction ==
  ASSUME NEW T, 0 \in T, \A n \in Nat : n \in T => n + 1 \in T
  PROVE  \A n \in Nat : n \in T
<1> DEFINE Rest == {n \in Nat : n \notin T}
<1>1. SUFFICES ASSUME Rest # {} PROVE FALSE
  OBVIOUS
<1>2. PICK n \in Rest : \A m \in Rest : n <= m
  BY <1>1, LeastNatural
<1>3. n # 0 /\ n - 1 \in Nat
  BY <1>2
<1>4. n - 1 \in T
  BY <1>2, <1>3
<1>5. (n - 1) + 1 = n
  BY <1>2
<1> QED BY <1>2, <1>3, <1>4, <1>5

-----------------------------------------------------------------------------
(* The calendar *)

\* A quotient is the one number of whole parts.
LEMMA Quotient ==
  ASSUME NEW d \in Nat, NEW k \in Nat \ {0}
  PROVE  /\ d \div k \in Nat
         /\ (d \div k) * k <= d /\ d < (d \div k) * k + k
         /\ \A q \in Nat : q * k <= d /\ d < q * k + k => d \div k = q
<1>1. d \div k \in Nat
  OBVIOUS
<1>2. k * (d \div k) <= d /\ d < k * (d \div k) + k
  OBVIOUS
<1>3. k * (d \div k) = (d \div k) * k
  BY <1>1
<1>4. ASSUME NEW q \in Nat, q * k <= d, d < q * k + k PROVE d \div k = q
  BY <1>4
<1> QED BY <1>1, <1>2, <1>3, <1>4

LEMMA Remainder ==
  ASSUME NEW d \in Nat, NEW k \in Nat \ {0}
  PROVE  \E q, e \in Nat : e < k /\ d = q * k + e /\ d \div k = q /\ d % k = e
<1> DEFINE q == d \div k
           e == d - q * k
<1>1. q \in Nat /\ q * k <= d /\ d < q * k + k
  BY Quotient
<1> HIDE DEF q
<1>2. q * k \in Nat
  BY <1>1
<1>3. e \in Nat /\ e < k /\ d = q * k + e
  BY <1>1, <1>2
<1> HIDE DEF e
<1>4. d % k = e
  BY <1>1, <1>3
<1> QED BY <1>1, <1>3, <1>4 DEF q

LEMMA ConstantsAreNumbers ==
  MonthsPerYear \in Nat \ {0} /\ DaysPerMonth \in Nat \ {0} /\ LastYear \in Nat \ {0}
BY ReadsAssumption

\* A month by its number, counted from the first.
Nth(year, month) == (year - 1) * MonthsPerYear + month - 1

\* Where the division of a day by months and years falls.
LEMMA MonthNumber ==
  ASSUME NEW year \in Nat \ {0}, NEW month \in 1..MonthsPerYear
  PROVE  /\ Nth(year, month) \in Nat /\ FirstDay(year, month) \in Nat
         /\ FirstDay(year, month) = Nth(year, month) * DaysPerMonth
<1>1. MonthsPerYear \in Nat /\ DaysPerMonth \in Nat /\ year - 1 \in Nat /\ month - 1 \in Nat
  BY ConstantsAreNumbers
<1>2. (year - 1) * MonthsPerYear \in Nat
  BY <1>1
<1> DEFINE p == (year - 1) * MonthsPerYear
<1>3. Nth(year, month) = p + (month - 1) /\ p \in Nat
  BY <1>1, <1>2 DEF Nth
<1> HIDE DEF p
<1>4. Nth(year, month) \in Nat
  BY <1>1, <1>3
<1>5. FirstDay(year, month) = Nth(year, month) * DaysPerMonth
  BY DEF FirstDay, Nth
<1> DEFINE n == Nth(year, month)
<1> HIDE DEF n
<1>6. n * DaysPerMonth \in Nat
  BY <1>1, <1>4 DEF n
<1> QED BY <1>4, <1>5, <1>6 DEF n

\* A day has the year and month whose first day it lies behind by less than
\* a month's length.
LEMMA DayIsInMonth ==
  ASSUME NEW day \in Nat, NEW year \in Nat \ {0}, NEW month \in 1..MonthsPerYear
  PROVE  /\ (YearOf(day) = year /\ MonthOf(day) = month) <=> day \div DaysPerMonth = Nth(year, month)
         /\ day \div DaysPerMonth = Nth(year, month) <=>
              FirstDay(year, month) <= day /\ day < FirstDay(year, month) + DaysPerMonth
<1> DEFINE M == MonthsPerYear
           D == DaysPerMonth
           q == day \div D
           n == Nth(year, month)
<1>1. M \in Nat \ {0} /\ D \in Nat \ {0} /\ M * D \in Nat \ {0}
  BY ConstantsAreNumbers
<1>2. q \in Nat /\ q * D <= day /\ day < q * D + D
  BY <1>1, Quotient
<1>3. n \in Nat /\ FirstDay(year, month) = n * D
  BY MonthNumber
<1>4. q = n <=> n * D <= day /\ day < n * D + D
  BY <1>1, <1>2, <1>3, Quotient
<1>5. YearOf(day) = q \div M + 1 /\ MonthOf(day) = (q % M) + 1
  <2> DEFINE y == q \div M
  <2>1. y \in Nat /\ y * M <= q /\ q < y * M + M
    BY <1>1, <1>2, Quotient
  <2> HIDE DEF q, y
  <2>2. y * M \in Nat /\ y * M + M \in Nat
    BY <1>1, <2>1
  <2>3. (y * M) * D <= q * D
    BY <1>1, <1>2, <2>1, <2>2
  <2>4. q + 1 <= y * M + M
    BY <1>1, <1>2, <2>1, <2>2
  <2>5. (q + 1) * D <= (y * M + M) * D
    BY <1>1, <1>2, <2>2, <2>4
  <2>6. (q + 1) * D = q * D + D /\ (y * M + M) * D = (y * M) * D + M * D /\ (y * M) * D = y * (M * D)
    BY <1>1, <1>2, <2>1, <2>2
  <2>7. y * (M * D) <= day /\ day < y * (M * D) + M * D
    BY <1>1, <1>2, <2>1, <2>2, <2>3, <2>5, <2>6
  <2>8. day \div (M * D) = y
    BY <1>1, <2>1, <2>7, Quotient
  <2> QED BY <2>8 DEF YearOf, MonthOf, q, y
<1>6. q \div M + 1 = year /\ (q % M) + 1 = month <=> q = n
  <2>1. PICK z, e \in Nat : e < M /\ q = z * M + e /\ q \div M = z /\ q % M = e
    BY <1>1, <1>2, Remainder
  <2> DEFINE y == year - 1
             m == month - 1
  <2>2. y \in Nat /\ m \in Nat /\ m < M
    BY <1>1
  <2>3. n = y * M + m
    <3>1. y * M \in Nat
      BY <1>1, <2>2
    <3> QED BY <1>1, <3>1 DEF Nth
  <2>4. q \div M + 1 = year /\ (q % M) + 1 = month <=> z = y /\ e = m
    <3>1. q \div M + 1 = year <=> z = y
      BY <2>1
    <3>2. (q % M) + 1 = month <=> e = m
      BY <1>1, <2>1
    <3> QED BY <3>1, <3>2
  <2> HIDE DEF q, n, y, m
  <2>5. z * M + e = y * M + m => z = y
    <3>1. ASSUME z < y PROVE z * M + M <= y * M
      BY <1>1, <2>1, <2>2, <3>1
    <3>2. ASSUME y < z PROVE y * M + M <= z * M
      BY <1>1, <2>1, <2>2, <3>2
    <3>3. z * M \in Nat /\ y * M \in Nat
      BY <1>1, <2>1, <2>2
    <3> QED BY <1>1, <2>1, <2>2, <3>1, <3>2, <3>3
  <2>6. q = n <=> z = y /\ e = m
    <3>1. z * M \in Nat /\ y * M \in Nat
      BY <1>1, <2>1, <2>2
    <3> QED BY <2>1, <2>2, <2>3, <2>5, <3>1
  <2> QED BY <2>4, <2>6
<1> HIDE DEF q, n
<1>7. (YearOf(day) = year /\ MonthOf(day) = month) <=> q = n
  BY <1>5, <1>6
<1> QED BY <1>3, <1>4, <1>7 DEF q, n

\* The last month of a year is followed by the first of the next.
LEMMA BoundsOfMonth ==
  ASSUME NEW year \in Nat \ {0}, NEW month \in 1..MonthsPerYear
  PROVE  MonthBounds(year, month) = <<FirstDay(year, month), FirstDay(year, month) + DaysPerMonth>>
<1> DEFINE n == Nth(year, month)
<1>1. /\ n \in Nat /\ FirstDay(year, month) = n * DaysPerMonth
      /\ DaysPerMonth \in Nat /\ MonthsPerYear \in Nat \ {0} /\ n * DaysPerMonth \in Nat
  BY MonthNumber, ConstantsAreNumbers
<1>2. (n + 1) * DaysPerMonth = n * DaysPerMonth + DaysPerMonth
  <2> HIDE DEF n
  <2> QED BY <1>1
<1>3. CASE month = MonthsPerYear
  <2>1. Nth(year + 1, 1) = n + 1
    <3> DEFINE y == year - 1
    <3>1. y \in Nat /\ y * MonthsPerYear \in Nat /\ year + 1 - 1 = y + 1
      BY <1>1
    <3>2. (y + 1) * MonthsPerYear = y * MonthsPerYear + MonthsPerYear
      BY <1>1, <3>1
    <3>3. n = y * MonthsPerYear + MonthsPerYear - 1
      BY <1>3 DEF Nth
    <3>4. Nth(year + 1, 1) = (year + 1 - 1) * MonthsPerYear + 1 - 1
      BY DEF Nth
    <3> HIDE DEF n, y
    <3> QED BY <1>1, <3>1, <3>2, <3>3, <3>4
  <2>2. year + 1 \in Nat \ {0} /\ 1 \in 1..MonthsPerYear
    BY <1>1
  <2>3. FirstDay(year + 1, 1) = (n + 1) * DaysPerMonth
    BY <2>1, <2>2, MonthNumber
  <2> QED BY <1>1, <1>2, <1>3, <2>3 DEF MonthBounds
<1>4. CASE month # MonthsPerYear
  <2>1. month + 1 \in 1..MonthsPerYear
    BY <1>1, <1>4
  <2>2. Nth(year, month + 1) = n + 1
    <3> DEFINE p == (year - 1) * MonthsPerYear
    <3>1. p \in Nat
      BY <1>1
    <3>2. n = p + month - 1 /\ Nth(year, month + 1) = p + (month + 1) - 1
      BY DEF Nth
    <3> HIDE DEF n, p
    <3> QED BY <1>1, <3>1, <3>2
  <2>3. FirstDay(year, month + 1) = (n + 1) * DaysPerMonth
    BY <2>1, <2>2, MonthNumber
  <2> QED BY <1>1, <1>2, <1>4, <2>3 DEF MonthBounds
<1> QED BY <1>3, <1>4

\* A day lies in the month it is dated, and in no other.
LEMMA InMonthIsDate ==
  ASSUME NEW day \in Nat, NEW year \in Nat \ {0}, NEW month \in 1..MonthsPerYear
  PROVE  InMonth(day, year, month) <=> YearOf(day) = year /\ MonthOf(day) = month
<1>1. MonthBounds(year, month)[1] = FirstDay(year, month)
      /\ MonthBounds(year, month)[2] = FirstDay(year, month) + DaysPerMonth
  BY BoundsOfMonth
<1> QED BY <1>1, DayIsInMonth DEF InMonth

LastDay == LastYear * MonthsPerYear * DaysPerMonth

\* The months of the years modelled, by the days in them.
LEMMA DateOfDay ==
  ASSUME NEW day \in 0..(LastDay - 1)
  PROVE  <<YearOf(day), MonthOf(day)>> \in Months
<1> DEFINE M == MonthsPerYear
           D == DaysPerMonth
           L == LastYear
           q == day \div D
<1>1. M \in Nat \ {0} /\ D \in Nat \ {0} /\ L \in Nat \ {0} /\ M * D \in Nat \ {0} /\ L * M \in Nat
      /\ LastDay = L * (M * D)
  BY ConstantsAreNumbers DEF LastDay
<1>2. day \in Nat /\ day < L * (M * D)
  BY <1>1
<1> DEFINE y == day \div (M * D)
<1>3. y \in Nat /\ y * (M * D) <= day
  BY <1>1, <1>2, Quotient
<1>4. y < L
  <2> DEFINE P == M * D
  <2>1. P \in Nat \ {0} /\ y * P < L * P
    BY <1>1, <1>2, <1>3
  <2> HIDE DEF P, y
  <2>2. ~(y < L) => L * P <= y * P
    BY <1>1, <1>3, <2>1
  <2>3. y * P \in Nat /\ L * P \in Nat
    BY <1>1, <1>3, <2>1
  <2> QED BY <1>1, <1>3, <2>1, <2>2, <2>3
<1>5. YearOf(day) \in 1..LastYear
  <2>1. YearOf(day) = y + 1
    BY DEF YearOf
  <2> HIDE DEF y
  <2> QED BY <1>1, <1>3, <1>4, <2>1
<1>6. MonthOf(day) \in 1..MonthsPerYear
  <2>1. q \in Nat
    BY <1>1, <1>2, Quotient
  <2>2. PICK z, e \in Nat : e < M /\ q % M = e
    BY <1>1, <2>1, Remainder
  <2> QED BY <1>1, <2>2 DEF MonthOf
<1> QED BY <1>5, <1>6 DEF Months

-----------------------------------------------------------------------------
(* Sorting *)

\* Of pairs there is a first one.
LEMMA LeastPair ==
  ASSUME NEW S \in SUBSET (Nat \X Nat), S # {}
  PROVE  \E m \in S : \A x \in S : x = m \/ Earlier(m, x)
<1> DEFINE firsts == {x[1] : x \in S}
<1>1. firsts \in SUBSET Nat /\ firsts # {}
  OBVIOUS
<1>2. PICK a \in firsts : \A y \in firsts : a <= y
  BY <1>1, LeastNatural
<1> DEFINE seconds == {x[2] : x \in {p \in S : p[1] = a}}
<1>3. seconds \in SUBSET Nat /\ seconds # {}
  OBVIOUS
<1>4. PICK b \in seconds : \A y \in seconds : b <= y
  BY <1>3, LeastNatural
<1>5. PICK m \in S : m[1] = a /\ m[2] = b
  OBVIOUS
<1>6. ASSUME NEW x \in S PROVE x = m \/ Earlier(m, x)
  <2>1. x[1] \in Nat /\ x[2] \in Nat /\ a \in Nat /\ b \in Nat /\ x = <<x[1], x[2]>> /\ m = <<a, b>>
    BY <1>5
  <2>2. a <= x[1]
    BY <1>2
  <2>3. x[1] = a => b <= x[2]
    BY <1>4
  <2> QED BY <1>5, <2>1, <2>2, <2>3 DEF Earlier
<1> QED BY <1>6

\* A finite set of pairs can be put in ascending order.
LEMMA AscendingExists ==
  ASSUME NEW S \in SUBSET (Nat \X Nat), IsFiniteSet(S)
  PROVE  /\ Cardinality(S) \in Nat
         /\ Ascending(S) \in [1..Cardinality(S) -> S] /\ Ascends(Ascending(S), Cardinality(S))
<1> DEFINE T == {n \in Nat : \A P \in SUBSET (Nat \X Nat) :
                   IsFiniteSet(P) /\ Cardinality(P) = n => \E f \in [1..n -> P] : Ascends(f, n)}
<1>1. 0 \in T
  <2> SUFFICES ASSUME NEW P \in SUBSET (Nat \X Nat) PROVE \E f \in [1..0 -> P] : Ascends(f, 0)
    OBVIOUS
  <2> DEFINE f == [i \in 1..0 |-> <<0, 0>>]
  <2>1. 1..0 = {}
    OBVIOUS
  <2>2. f \in [1..0 -> P] /\ Ascends(f, 0)
    BY <2>1 DEF Ascends
  <2> QED BY <2>2
<1>2. ASSUME NEW n \in Nat, n \in T PROVE n + 1 \in T
  <2> SUFFICES ASSUME NEW P \in SUBSET (Nat \X Nat), IsFiniteSet(P), Cardinality(P) = n + 1
               PROVE  \E f \in [1..(n + 1) -> P] : Ascends(f, n + 1)
    OBVIOUS
  <2>1. P # {}
    BY FS_EmptySet
  <2>2. PICK m \in P : \A x \in P : x = m \/ Earlier(m, x)
    BY <2>1, LeastPair
  <2>3. IsFiniteSet(P \ {m}) /\ Cardinality(P \ {m}) = n
    <3>1. IsFiniteSet(P \ {m}) /\ Cardinality(P \ {m}) = Cardinality(P) - 1
      BY FS_RemoveElement
    <3> QED BY <3>1
  <2>4. PICK g \in [1..n -> P \ {m}] : Ascends(g, n)
    BY <1>2, <2>3
  <2> DEFINE f == [i \in 1..(n + 1) |-> IF i = 1 THEN m ELSE g[i - 1]]
  <2>5. \A i \in 1..(n + 1) : i = 1 \/ i - 1 \in 1..n
    OBVIOUS
  <2>6. f \in [1..(n + 1) -> P]
    BY <2>4, <2>5
  <2>7. ASSUME NEW i \in 1..(n + 1), NEW j \in 1..(n + 1), i < j PROVE Earlier(f[i], f[j])
    <3>1. j - 1 \in 1..n /\ f[j] = g[j - 1] /\ g[j - 1] \in P \ {m}
      BY <2>4, <2>7
    <3>2. CASE i = 1
      BY <2>2, <3>1, <3>2
    <3>3. CASE i # 1
      <4>1. i - 1 \in 1..n /\ i - 1 < j - 1 /\ f[i] = g[i - 1]
        BY <2>7, <3>3
      <4> QED BY <2>4, <3>1, <4>1 DEF Ascends
    <3> QED BY <3>2, <3>3
  <2>8. Ascends(f, n + 1)
    BY <2>7 DEF Ascends
  <2> QED BY <2>6, <2>8
<1> HIDE DEF T
<1>3. Cardinality(S) \in Nat
  BY FS_CardinalityType
<1>4. Cardinality(S) \in T
  BY <1>1, <1>2, <1>3, NaturalInduction
<1>5. \E f \in [1..Cardinality(S) -> S] : Ascends(f, Cardinality(S))
  BY <1>4 DEF T
<1> QED BY <1>3, <1>5 DEF Ascending

\* Every pair has one place in it.
LEMMA AscendingIsOnto ==
  ASSUME NEW S \in SUBSET (Nat \X Nat), IsFiniteSet(S)
  PROVE  /\ \A i, j \in 1..Cardinality(S) : Ascending(S)[i] = Ascending(S)[j] => i = j
         /\ \A x \in S : \E i \in 1..Cardinality(S) : Ascending(S)[i] = x
<1> DEFINE n == Cardinality(S)
           f == Ascending(S)
<1>1. n \in Nat /\ f \in [1..n -> S] /\ Ascends(f, n)
  BY AscendingExists
<1> HIDE DEF n, f
<1>2. \A x \in S : ~Earlier(x, x)
  BY DEF Earlier
<1>3. \A i, j \in 1..n : f[i] = f[j] => i = j
  <2> SUFFICES ASSUME NEW i \in 1..n, NEW j \in 1..n, f[i] = f[j] PROVE i = j
    OBVIOUS
  <2>1. ~(i < j) /\ ~(j < i)
    BY <1>1, <1>2 DEF Ascends
  <2> QED BY <1>1, <2>1
<1>4. f \in Injection(1..n, S)
  BY <1>1, <1>3 DEF Injection, IsInjective
<1>5. IsFiniteSet(1..n) /\ Cardinality(1..n) = n
  BY <1>1, FS_Interval
<1>6. f \in Surjection(1..n, S)
  BY <1>4, <1>5, FS_Injection DEF n
<1>7. \A x \in S : \E i \in 1..n : f[i] = x
  BY <1>6 DEF Surjection
<1> QED BY <1>3, <1>7 DEF n, f

-----------------------------------------------------------------------------
(* Merging windows *)

Window == Nat \X Nat
Holds(window, day) == window[1] <= day /\ day <= window[2]

\* After k windows in ascending order: the spans hold the days those hold, and
\* between two of them there is a day that none holds.
Merged(spans, order, k) ==
  /\ spans \in Seq(Window)
  /\ \A day \in Nat : (\E i \in 1..Len(spans) : Holds(spans[i], day)) <=>
                      (\E j \in 1..k : Holds(order[j], day))
  /\ \A i, j \in 1..Len(spans) : i < j => spans[i][2] + 1 < spans[j][1]
  /\ spans # <<>> => k \in Nat \ {0} /\ spans[Len(spans)][1] <= order[k][1]

LEMMA MergeKeeps ==
  ASSUME NEW n \in Nat, NEW order, \A j \in 1..n : order[j] \in Window, Ascends(order, n),
         NEW k \in Nat, k + 1 \in 1..n, NEW spans, Merged(spans, order, k)
  PROVE  Merged(MergeNext(spans, order[k + 1]), order, k + 1)
<1> DEFINE w == order[k + 1]
           L == Len(spans)
           last == spans[L]
           next == MergeNext(spans, w)
<1>1. w \in Window /\ w[1] \in Nat /\ w[2] \in Nat
  BY DEF Window
<1>2. spans \in Seq(Window) /\ L \in Nat /\ DOMAIN spans = 1..L
      /\ \A i \in 1..L : spans[i] \in Window /\ spans[i][1] \in Nat /\ spans[i][2] \in Nat
  BY DEF Merged, Window
<1>3. spans # <<>> => k \in 1..n /\ L \in 1..L /\ last[1] <= w[1]
  <2>1. SUFFICES ASSUME spans # <<>> PROVE k \in 1..n /\ L \in 1..L /\ last[1] <= w[1]
    OBVIOUS
  <2>2. k \in 1..n /\ k < k + 1 /\ last[1] <= order[k][1]
    BY <2>1 DEF Merged
  <2>3. L \in 1..L
    BY <1>2, <2>1
  <2>4. Earlier(order[k], w)
    BY <2>2 DEF Ascends
  <2>5. order[k][1] \in Nat /\ order[k][1] <= w[1]
    BY <1>1, <2>2, <2>4 DEF Earlier, Window
  <2>6. last[1] \in Nat
    BY <1>2, <2>3
  <2> QED BY <1>1, <2>2, <2>3, <2>5, <2>6
<1>4. \A day \in Nat : (\E j \in 1..(k + 1) : Holds(order[j], day)) <=>
                       (\E j \in 1..k : Holds(order[j], day)) \/ Holds(w, day)
  <2>1. 1..(k + 1) = 1..k \cup {k + 1}
    OBVIOUS
  <2> QED BY <2>1
<1>5. \A day \in Nat : (\E j \in 1..(k + 1) : Holds(order[j], day)) <=>
                       (\E i \in 1..L : Holds(spans[i], day)) \/ Holds(w, day)
  BY <1>4 DEF Merged
<1>6. CASE spans # <<>> /\ w[1] <= last[2] + 1
  <2> DEFINE e == IF last[2] > w[2] THEN last[2] ELSE w[2]
             wide == <<last[1], e>>
  <2>1. last \in Window /\ last[1] \in Nat /\ last[2] \in Nat /\ last = <<last[1], last[2]>>
        /\ L \in 1..L /\ last[1] <= w[1]
    BY <1>2, <1>3, <1>6 DEF Window
  <2>2. e \in Nat /\ last[2] <= e /\ w[2] <= e /\ (e = last[2] \/ e = w[2])
    BY <1>1, <2>1
  <2>3. next = [spans EXCEPT ![L] = [last EXCEPT ![2] = e]]
    BY <1>2, <1>6, <2>1 DEF MergeNext
  <2>4. [last EXCEPT ![2] = e] = wide
    BY <2>1
  <2>5. wide \in Window /\ wide[1] = last[1] /\ wide[2] = e
    BY <2>1, <2>2 DEF Window
  <2> HIDE DEF e, wide, next
  <2>6. next \in Seq(Window) /\ Len(next) = L /\ next[L] = wide
        /\ \A i \in 1..L : i # L => next[i] = spans[i]
    <3> HIDE DEF L, w, last
    <3>1. next = [spans EXCEPT ![L] = wide]
      BY <2>3, <2>4
    <3>2. spans \in Seq(Window) /\ Len(spans) = L /\ DOMAIN spans = 1..L /\ L \in 1..L
      BY <1>2, <2>1 DEF L
    <3>3. wide \in Window
      BY <2>5
    <3> HIDE DEF Window
    <3> QED BY <3>1, <3>2, <3>3
  <2>7. \A day \in Nat : Holds(wide, day) <=> Holds(last, day) \/ Holds(w, day)
    <3> SUFFICES ASSUME NEW day \in Nat PROVE Holds(wide, day) <=> Holds(last, day) \/ Holds(w, day)
      OBVIOUS
    <3>1. last[1] <= day /\ day <= e <=>
            (last[1] <= day /\ day <= last[2]) \/ (w[1] <= day /\ day <= w[2])
      <4> DEFINE a == last[1]
                 b == last[2]
                 c == w[1]
                 f == w[2]
      <4>1. a \in Nat /\ b \in Nat /\ c \in Nat /\ f \in Nat /\ a <= c /\ c <= b + 1
        BY <1>1, <1>6, <2>1
      <4>2. e \in Nat /\ b <= e /\ f <= e /\ (e = b \/ e = f)
        BY <2>2
      <4> HIDE DEF a, b, c, f
      <4>3. a <= day /\ day <= e <=> (a <= day /\ day <= b) \/ (c <= day /\ day <= f)
        BY <4>1, <4>2
      <4> QED BY <4>3 DEF a, b, c, f
    <3> QED BY <2>5, <3>1 DEF Holds
  <2>8. \A day \in Nat : (\E i \in 1..L : Holds(next[i], day)) <=>
                         (\E i \in 1..L : Holds(spans[i], day)) \/ Holds(w, day)
    <3> HIDE DEF last, w, L
    <3> QED BY <2>1, <2>6, <2>7 DEF last, L
  <2>9. \A i, j \in 1..L : i < j => next[i][2] + 1 < next[j][1]
    <3> SUFFICES ASSUME NEW i \in 1..L, NEW j \in 1..L, i < j PROVE next[i][2] + 1 < next[j][1]
      OBVIOUS
    <3>1. i # L /\ next[i] = spans[i]
      <4> HIDE DEF L
      <4>1. i # L
        BY <1>2
      <4> QED BY <2>6, <4>1
    <3>2. next[j][1] = spans[j][1]
      BY <2>5, <2>6
    <3> QED BY <3>1, <3>2 DEF Merged
  <2>10. next # <<>> => next[L][1] <= w[1]
    BY <2>1, <2>5, <2>6
  <2>11. k + 1 \in Nat \ {0}
    OBVIOUS
  <2>12. Merged(next, order, k + 1)
    <3> HIDE DEF L
    <3>1. \A day \in Nat : (\E i \in 1..L : Holds(next[i], day)) <=>
                           (\E j \in 1..(k + 1) : Holds(order[j], day))
      BY <1>5, <2>8 DEF L
    <3> QED BY <2>6, <2>9, <2>10, <2>11, <3>1 DEF Merged, w
  <2> QED BY <2>12 DEF next
<1>7. CASE ~(spans # <<>> /\ w[1] <= last[2] + 1)
  <2>1. next = Append(spans, w)
    BY <1>7 DEF MergeNext
  <2>2. next \in Seq(Window) /\ Len(next) = L + 1 /\ next[L + 1] = w
        /\ \A i \in 1..L : next[i] = spans[i]
    BY <1>1, <1>2, <2>1
  <2> HIDE DEF next
  <2>3. \A day \in Nat : (\E i \in 1..(L + 1) : Holds(next[i], day)) <=>
                         (\E i \in 1..L : Holds(spans[i], day)) \/ Holds(w, day)
    <3>1. 1..(L + 1) = 1..L \cup {L + 1}
      BY <1>2
    <3> HIDE DEF w, L
    <3> QED BY <2>2, <3>1
  <2>4. \A i, j \in 1..(L + 1) : i < j => next[i][2] + 1 < next[j][1]
    <3> SUFFICES ASSUME NEW i \in 1..(L + 1), NEW j \in 1..(L + 1), i < j
                 PROVE  next[i][2] + 1 < next[j][1]
      OBVIOUS
    <3>1. i \in 1..L /\ next[i] = spans[i] /\ spans # <<>>
      BY <1>2, <2>2
    <3>2. CASE j \in 1..L
      BY <2>2, <3>1, <3>2 DEF Merged
    <3>3. CASE j = L + 1
      <4>1. last[2] + 1 < w[1] /\ last[1] <= w[1] /\ last[1] \in Nat /\ last[2] \in Nat
        BY <1>1, <1>2, <1>3, <1>7, <3>1
      <4>2. CASE i = L
        BY <2>2, <3>1, <3>3, <4>1, <4>2
      <4>3. CASE i # L
        <5>1. i < L /\ L \in 1..L
          <6> HIDE DEF L
          <6> QED BY <1>2, <3>1, <4>3
        <5>2. spans[i][2] + 1 < last[1]
          BY <3>1, <5>1 DEF Merged
        <5>3. spans[i][2] \in Nat
          BY <1>2, <3>1
        <5>4. spans[i][2] + 1 < w[1]
          <6> DEFINE a == spans[i][2]
                     b == last[1]
                     c == last[2]
                     d == w[1]
          <6>1. a + 1 < b /\ c + 1 < d /\ b <= d /\ a \in Nat /\ b \in Nat /\ c \in Nat /\ d \in Nat
            BY <1>1, <4>1, <5>2, <5>3
          <6> HIDE DEF a, b, c, d
          <6>2. a + 1 < d
            BY <6>1
          <6> QED BY <6>2 DEF a, d
        <5> QED BY <2>2, <3>1, <3>3, <5>4
      <4> QED BY <4>2, <4>3
    <3>4. j \in 1..L \/ j = L + 1
      <4> HIDE DEF L
      <4> QED BY <1>2
    <3> QED BY <3>2, <3>3, <3>4
  <2>5. next[L + 1][1] <= w[1]
    BY <1>1, <2>2
  <2>6. k + 1 \in Nat \ {0}
    OBVIOUS
  <2>7. Merged(next, order, k + 1)
    <3> DEFINE N == L + 1
    <3>1. Len(next) = N /\ next[N][1] <= w[1] /\ next \in Seq(Window)
      BY <2>2, <2>5
    <3>2. \A day \in Nat : (\E i \in 1..N : Holds(next[i], day)) <=>
                           (\E j \in 1..(k + 1) : Holds(order[j], day))
      BY <1>5, <2>3
    <3>3. \A i, j \in 1..N : i < j => next[i][2] + 1 < next[j][1]
      BY <2>4
    <3> HIDE DEF N
    <3> QED BY <2>6, <3>1, <3>2, <3>3 DEF Merged, w
  <2> QED BY <2>7 DEF next
<1> QED BY <1>6, <1>7

\* The recursion of MergeWindows, over a sequence of windows.
Merging(m, order, n) ==
  m = [k \in 0..n |-> IF k = 0 THEN <<>> ELSE MergeNext(m[k - 1], order[k])]

LEMMA MergingExists ==
  ASSUME NEW order, NEW n \in Nat
  PROVE  \E m : Merging(m, order, n)
<1> DEFINE T == {k \in Nat : \E m : Merging(m, order, k)}
<1>1. 0 \in T
  <2> DEFINE m == [k \in 0..0 |-> <<>>]
  <2>1. \A k \in 0..0 : k = 0
    OBVIOUS
  <2>2. Merging(m, order, 0)
    BY <2>1 DEF Merging
  <2> QED BY <2>2
<1>2. ASSUME NEW k \in Nat, k \in T PROVE k + 1 \in T
  <2>1. PICK g : Merging(g, order, k)
    BY <1>2
  <2>2. \A i \in 0..k : g[i] = IF i = 0 THEN <<>> ELSE MergeNext(g[i - 1], order[i])
    BY <2>1 DEF Merging
  <2> DEFINE m == [i \in 0..(k + 1) |-> IF i = k + 1 THEN MergeNext(g[k], order[k + 1]) ELSE g[i]]
  <2>3. ASSUME NEW i \in 0..(k + 1)
        PROVE  m[i] = IF i = 0 THEN <<>> ELSE MergeNext(m[i - 1], order[i])
    <3>1. CASE i = 0
      BY <2>2, <3>1
    <3>2. CASE i \in 1..k
      <4>1. i # 0 /\ i # k + 1 /\ i - 1 # k + 1 /\ i - 1 \in 0..(k + 1) /\ i \in 0..k
        BY <3>2
      <4>2. m[i] = g[i] /\ m[i - 1] = g[i - 1]
        BY <4>1
      <4> QED BY <2>2, <4>1, <4>2
    <3>3. CASE i = k + 1
      <4>1. i # 0 /\ i - 1 = k /\ k # k + 1 /\ k \in 0..(k + 1)
        BY <3>3
      <4>2. m[i] = MergeNext(g[k], order[i]) /\ m[i - 1] = g[k]
        BY <3>3, <4>1
      <4> QED BY <4>1, <4>2
    <3>4. i = 0 \/ i \in 1..k \/ i = k + 1
      OBVIOUS
    <3> QED BY <3>1, <3>2, <3>3, <3>4
  <2>4. Merging(m, order, k + 1)
    BY <2>3 DEF Merging
  <2> QED BY <2>4
<1> HIDE DEF T
<1>3. n \in T
  BY <1>1, <1>2, NaturalInduction
<1> QED BY <1>3 DEF T

\* The spans of a set of windows.
LEMMA WindowsMerge ==
  ASSUME NEW windows \in SUBSET Window, IsFiniteSet(windows)
  PROVE  /\ MergeWindows(windows) \in Seq(Window)
         /\ \A day \in Nat : (\E i \in 1..Len(MergeWindows(windows)) : Holds(MergeWindows(windows)[i], day))
                             <=> \E w \in windows : Holds(w, day)
         /\ \A i, j \in 1..Len(MergeWindows(windows)) :
              i < j => MergeWindows(windows)[i][2] + 1 < MergeWindows(windows)[j][1]
<1> DEFINE n == Cardinality(windows)
           order == Ascending(windows)
           m == CHOOSE f : f = [k \in 0..n |-> IF k = 0 THEN <<>> ELSE MergeNext(f[k - 1], order[k])]
<1>1. MergeWindows(windows) = m[n]
  BY DEF MergeWindows
<1>2. windows \in SUBSET (Nat \X Nat)
  BY DEF Window
<1>3. n \in Nat /\ order \in [1..n -> windows] /\ Ascends(order, n)
  BY <1>2, AscendingExists
<1>4. \A w \in windows : \E i \in 1..n : order[i] = w
  BY <1>2, AscendingIsOnto
<1>5. m = CHOOSE f : Merging(f, order, n)
  BY DEF Merging
<1> HIDE DEF n, order, m
<1>6. Merging(m, order, n)
  BY <1>3, <1>5, MergingExists
<1>7. \A k \in 0..n : m[k] = IF k = 0 THEN <<>> ELSE MergeNext(m[k - 1], order[k])
  BY <1>6 DEF Merging
<1> DEFINE T == {k \in Nat : k <= n => Merged(m[k], order, k)}
<1>8. 0 \in T
  <2>1. m[0] = <<>>
    BY <1>3, <1>7
  <2>2. Merged(<<>>, order, 0)
    BY DEF Merged
  <2> QED BY <2>1, <2>2
<1>9. ASSUME NEW k \in Nat, k \in T PROVE k + 1 \in T
  <2> SUFFICES ASSUME k + 1 <= n PROVE Merged(m[k + 1], order, k + 1)
    OBVIOUS
  <2>1. k + 1 \in 1..n /\ k + 1 \in 0..n /\ k + 1 # 0 /\ (k + 1) - 1 = k /\ k <= n
    BY <1>3
  <2>2. m[k + 1] = MergeNext(m[k], order[k + 1])
    BY <1>7, <2>1
  <2>3. Merged(m[k], order, k)
    BY <1>9, <2>1
  <2>4. \A j \in 1..n : order[j] \in Window
    BY <1>3
  <2> HIDE DEF T
  <2> QED BY <1>3, <2>1, <2>2, <2>3, <2>4, MergeKeeps
<1> HIDE DEF T
<1>10. n \in T
  BY <1>3, <1>8, <1>9, NaturalInduction
<1>11. Merged(m[n], order, n)
  BY <1>3, <1>10 DEF T
<1>12. \A day \in Nat : (\E j \in 1..n : Holds(order[j], day)) <=> \E w \in windows : Holds(w, day)
  BY <1>3, <1>4
<1> QED BY <1>1, <1>11, <1>12 DEF Merged

\* A month is covered exactly if each of its days lies in a window.
LEMMA CoveredMeansEveryDay ==
  ASSUME NEW windows \in SUBSET Window, IsFiniteSet(windows),
         NEW year \in Nat \ {0}, NEW month \in 1..MonthsPerYear
  PROVE  MonthIsCovered(year, month, windows) <=>
           \A day \in Nat : YearOf(day) = year /\ MonthOf(day) = month =>
             \E w \in windows : Holds(w, day)
<1> DEFINE spans == MergeWindows(windows)
           first == FirstDay(year, month)
           D == DaysPerMonth
           final == first + D - 1
<1>1. D \in Nat \ {0} /\ first \in Nat /\ final \in Nat /\ first <= final
  <2>1. D \in Nat \ {0} /\ first \in Nat
    BY ConstantsAreNumbers, MonthNumber
  <2> QED BY <2>1
<1>2. MonthIsCovered(year, month, windows) <=>
        \E i \in 1..Len(spans) : spans[i][1] <= first /\ spans[i][2] >= final
  <2>1. MonthBounds(year, month)[1] = first /\ MonthBounds(year, month)[2] - 1 = final
    <3>1. MonthBounds(year, month) = <<first, first + D>>
      BY BoundsOfMonth
    <3> DEFINE after == first + D
    <3>2. MonthBounds(year, month)[1] = first /\ MonthBounds(year, month)[2] = after
      BY <3>1
    <3> HIDE DEF after
    <3>3. MonthBounds(year, month)[2] - 1 = after - 1
      BY <3>2
    <3>4. after - 1 = final
      <4> HIDE DEF first, D
      <4> QED BY <1>1 DEF after
    <3> QED BY <3>2, <3>3, <3>4
  <2> QED BY <2>1 DEF MonthIsCovered
<1>3. ASSUME NEW day \in Nat
      PROVE  (YearOf(day) = year /\ MonthOf(day) = month) <=> first <= day /\ day <= final
  <2>1. (YearOf(day) = year /\ MonthOf(day) = month) <=> first <= day /\ day < first + D
    BY DayIsInMonth
  <2>2. day < first + D <=> day <= first + D - 1
    <3> HIDE DEF first, D
    <3> QED BY <1>1
  <2> QED BY <2>1, <2>2
<1>4. /\ spans \in Seq(Window)
      /\ \A day \in Nat : (\E i \in 1..Len(spans) : Holds(spans[i], day)) <=> \E w \in windows : Holds(w, day)
      /\ \A i, j \in 1..Len(spans) : i < j => spans[i][2] + 1 < spans[j][1]
  BY WindowsMerge
<1> HIDE DEF spans, first, final, D
<1>5. /\ Len(spans) \in Nat
      /\ \A i \in 1..Len(spans) : spans[i][1] \in Nat /\ spans[i][2] \in Nat
  BY <1>4 DEF Window
<1>6. ASSUME NEW i \in 1..Len(spans), spans[i][1] <= first, spans[i][2] >= final, NEW day \in Nat,
             first <= day, day <= final
      PROVE  \E w \in windows : Holds(w, day)
  <2>1. Holds(spans[i], day)
    BY <1>1, <1>5, <1>6 DEF Holds
  <2> QED BY <1>4, <2>1
<1>7. ASSUME \A day \in Nat : first <= day /\ day <= final => \E w \in windows : Holds(w, day)
      PROVE  \E i \in 1..Len(spans) : spans[i][1] <= first /\ spans[i][2] >= final
  <2>1. PICK i \in 1..Len(spans) : Holds(spans[i], first)
    BY <1>1, <1>4, <1>7
  <2>2. spans[i][1] <= first /\ first <= spans[i][2] /\ spans[i][1] \in Nat /\ spans[i][2] \in Nat
    BY <1>5, <2>1 DEF Holds
  <2>3. ASSUME spans[i][2] < final PROVE FALSE
    <3> DEFINE gap == spans[i][2] + 1
    <3>1. gap \in Nat /\ first <= gap /\ gap <= final
      BY <1>1, <2>2, <2>3
    <3>2. PICK j \in 1..Len(spans) : Holds(spans[j], gap)
      BY <1>4, <1>7, <3>1
    <3>3. spans[j][1] <= gap /\ gap <= spans[j][2] /\ spans[j][1] \in Nat /\ spans[j][2] \in Nat
      BY <1>5, <3>2 DEF Holds
    <3>4. j # i
      BY <2>2, <3>3
    <3>5. ~(i < j)
      BY <1>4, <3>3, <2>2
    <3>6. ~(j < i)
      <4> SUFFICES ASSUME j < i PROVE FALSE
        OBVIOUS
      <4>1. spans[j][2] + 1 < spans[i][1]
        BY <1>4
      <4>2. spans[i][1] <= spans[i][2]
        BY <1>1, <2>2
      <4>3. spans[i][2] < spans[j][2]
        BY <2>2, <3>3
      <4> QED BY <2>2, <3>3, <4>1, <4>2, <4>3
    <3> QED BY <1>5, <3>4, <3>5, <3>6
  <2> QED BY <1>1, <2>2, <2>3
<1> QED BY <1>2, <1>3, <1>6, <1>7

-----------------------------------------------------------------------------
(* The invariant of a request *)

Statements == [name : {"rows", "windows", "dates", "awaiting"}, year : 1..LastYear, month : 1..MonthsPerYear]

Dated(r, year, month) == YearOf(PostedOn[r]) = year /\ MonthOf(PostedOn[r]) = month
Same(a, b) == a.year = b.year /\ a.month = b.month

\* The tables grow, and a batch is stored with its rows.
TablesAreSound ==
  /\ imported \subseteq Batches /\ IsFiniteSet(imported) /\ stored \subseteq RowIds
  /\ \A b \in imported : BatchRows[b] \subseteq stored

\* A month that is loaded was judged by the windows it names.
Judged(report) ==
  /\ report.year \in 1..LastYear /\ report.month \in 1..MonthsPerYear
  /\ report.batches \subseteq Batches /\ IsFiniteSet(report.batches)
  /\ report.complete = MonthIsCovered(report.year, report.month, {BatchWindow[b] : b \in report.batches})

ReaderIsSound ==
  /\ seen \in [rows : SUBSET RowIds, batches : SUBSET imported, dated : SUBSET stored, verdicts : {seen.verdicts}]
  /\ plan \in Seq(Statements)
  /\ \E S : loaded \in Seq(S)
  /\ \A k \in DOMAIN loaded : Judged(loaded[k])
  /\ query = "none" => plan = <<>> /\ loaded = <<>>

\* Of a month, the rows of the dates that were found and of the batches in hand.
RowsAre(rows, year, month, batches) ==
  /\ \A r \in rows : r \in RowIds /\ Dated(r, year, month)
  /\ \A r \in seen.dated : Dated(r, year, month) => r \in rows
  /\ \A b \in batches : \A r \in BatchRows[b] : Dated(r, year, month) => r \in rows

\* Rows and queue of one month after the other.
InPairs ==
  \A i \in DOMAIN plan :
    /\ plan[i].name \in {"rows", "awaiting"}
    /\ plan[i].name = "rows" =>
         i + 1 \in DOMAIN plan /\ plan[i + 1] = Statement("awaiting", plan[i].year, plan[i].month)
    /\ plan[i].name = "awaiting" /\ i + 1 \in DOMAIN plan => plan[i + 1].name = "rows"

\* No month is loaded or planned twice.
Once ==
  /\ \A i, j \in DOMAIN plan :
       plan[i].name = "awaiting" /\ plan[j].name = "awaiting" /\ Same(plan[i], plan[j]) => i = j
  /\ \A i \in DOMAIN plan, k \in DOMAIN loaded : plan[i].name = "awaiting" => ~Same(plan[i], loaded[k])
  /\ \A j, k \in DOMAIN loaded : Same(loaded[j], loaded[k]) => j = k

\* Every row whose date was found has a month loaded or planned.
Foreseen ==
  \A r \in seen.dated :
    \/ \E k \in DOMAIN loaded : Dated(r, loaded[k].year, loaded[k].month)
    \/ \E i \in DOMAIN plan : plan[i].name = "awaiting" /\ Dated(r, plan[i].year, plan[i].month)

\* What is loaded, and the rows in hand between the SELECTs of a month.
Whole ==
  /\ \A k \in DOMAIN loaded :
       RowsAre(loaded[k].rows, loaded[k].year, loaded[k].month, loaded[k].batches)
  /\ plan # <<>> /\ plan[1].name = "awaiting" =>
       RowsAre(seen.rows, plan[1].year, plan[1].month, seen.batches)

ListingIsSound ==
  \/ plan = <<Statement("windows", 1, 1), Statement("dates", 1, 1)>> /\ loaded = <<>>
  \/ plan = <<Statement("dates", 1, 1)>> /\ loaded = <<>>
  \/ InPairs /\ Once /\ Foreseen /\ Whole

RInv == TablesAreSound /\ ReaderIsSound /\ (query = "months" => ListingIsSound)

-----------------------------------------------------------------------------
(* Sequences *)

\* What follows the first of a sequence, place by place.
LEMMA TailShifts ==
  ASSUME NEW S, NEW s \in Seq(S), s # <<>>
  PROVE  /\ Tail(s) \in Seq(S) /\ Head(s) = s[1] /\ 1 \in DOMAIN s /\ s[1] \in S
         /\ \A i \in DOMAIN Tail(s) : i \in Nat \ {0} /\ i + 1 \in DOMAIN s /\ Tail(s)[i] = s[i + 1]
         /\ \A i \in DOMAIN s : i = 1 \/ (i - 1 \in DOMAIN Tail(s) /\ Tail(s)[i - 1] = s[i])
         /\ \A i \in DOMAIN Tail(s) : i + 2 \in DOMAIN s => i + 1 \in DOMAIN Tail(s)
<1>1. /\ Len(s) \in Nat \ {0} /\ DOMAIN s = 1..Len(s)
      /\ Tail(s) \in Seq(S) /\ Len(Tail(s)) = Len(s) - 1 /\ DOMAIN Tail(s) = 1..(Len(s) - 1)
  OBVIOUS
<1>2. \A i \in 1..(Len(s) - 1) : Tail(s)[i] = s[i + 1]
  OBVIOUS
<1>3. Head(s) = s[1] /\ s[1] \in S
  BY <1>1
<1>4. \A i \in 1..(Len(s) - 1) : i \in Nat \ {0} /\ i + 1 \in 1..Len(s)
  BY <1>1
<1>5. \A i \in 1..Len(s) : i = 1 \/ (i - 1 \in 1..(Len(s) - 1) /\ (i - 1) + 1 = i)
  BY <1>1
<1>6. \A i \in 1..(Len(s) - 1) : i + 2 \in 1..Len(s) => i + 1 \in 1..(Len(s) - 1)
  BY <1>1
<1> QED BY <1>1, <1>2, <1>3, <1>4, <1>5, <1>6

\* A sequence with one more.
LEMMA AppendAdds ==
  ASSUME NEW S, NEW s \in Seq(S), NEW x
  PROVE  /\ Append(s, x) \in Seq(S \cup {x})
         /\ \A i \in DOMAIN s : i \in DOMAIN Append(s, x) /\ Append(s, x)[i] = s[i]
         /\ \E l \in DOMAIN Append(s, x) :
              /\ Append(s, x)[l] = x
              /\ \A i \in DOMAIN Append(s, x) : i = l \/ i \in DOMAIN s
<1>1. s \in Seq(S \cup {x}) /\ Len(s) \in Nat /\ DOMAIN s = 1..Len(s)
  OBVIOUS
<1>2. /\ Append(s, x) \in Seq(S \cup {x})
      /\ DOMAIN Append(s, x) = 1..(Len(s) + 1)
      /\ \A i \in 1..Len(s) : Append(s, x)[i] = s[i]
      /\ Append(s, x)[Len(s) + 1] = x
  BY <1>1
<1>3. /\ Len(s) + 1 \in 1..(Len(s) + 1)
      /\ \A i \in 1..(Len(s) + 1) : i = Len(s) + 1 \/ i \in 1..Len(s)
      /\ \A i \in 1..Len(s) : i \in 1..(Len(s) + 1)
  BY <1>1
<1> QED BY <1>1, <1>2, <1>3

-----------------------------------------------------------------------------
(* The plans *)

LEMMA LoadMonthIsAPlan ==
  ASSUME NEW ym \in Months
  PROVE  LoadMonth(ym) \in Seq(Statements)
BY DEF LoadMonth, Statement, Statements, Months

\* The month before one that is not the first.
LEMMA PreviousIsAMonth ==
  ASSUME NEW ym \in Months, ym # <<1, 1>>
  PROVE  PreviousMonth(ym[1], ym[2]) \in Months
<1> DEFINE year == ym[1]
           month == ym[2]
           n == Nth(year, month)
           first == FirstDay(year, month)
           M == MonthsPerYear
           D == DaysPerMonth
           L == LastYear
<1>1. year \in 1..L /\ month \in 1..M /\ (year # 1 \/ month # 1)
  BY DEF Months
<1>2. M \in Nat \ {0} /\ D \in Nat \ {0} /\ L \in Nat \ {0}
  BY ConstantsAreNumbers
<1>3. n \in Nat /\ first = n * D
  BY <1>1, <1>2, MonthNumber
<1>4. 1 <= n /\ n + 1 <= L * M
  <2> DEFINE y == year - 1
             p == y * M
  <2>1. y \in Nat /\ y + 1 <= L /\ (y # 0 \/ month # 1)
    BY <1>1, <1>2
  <2> HIDE DEF y
  <2>2. p \in Nat /\ (y # 0 => p >= M) /\ p + M <= L * M
    <3>1. y * M \in Nat /\ L * M \in Nat /\ (y + 1) * M = y * M + M
      BY <1>2, <2>1
    <3>2. y # 0 => y * M >= M
      BY <1>2, <2>1
    <3>3. (y + 1) * M <= L * M
      BY <1>2, <2>1
    <3> QED BY <3>1, <3>2, <3>3
  <2>3. n = p + month - 1
    BY DEF Nth, y
  <2>4. L * M \in Nat
    BY <1>2
  <2> HIDE DEF p, n
  <2> QED BY <1>1, <1>2, <2>1, <2>2, <2>3, <2>4
<1>5. first - 1 \in 0..(LastDay - 1)
  <2>1. D <= n * D /\ (n + 1) * D <= (L * M) * D /\ (n + 1) * D = n * D + D
    <3> DEFINE K == L * M
    <3>1. K \in Nat
      BY <1>2
    <3> HIDE DEF n, K
    <3>2. n * D \in Nat /\ D <= n * D
      BY <1>2, <1>3, <1>4
    <3>3. (n + 1) * D = n * D + D
      BY <1>2, <1>3
    <3>4. (n + 1) * D <= K * D
      BY <1>2, <1>3, <1>4, <3>1 DEF K
    <3> QED BY <3>2, <3>3, <3>4 DEF K
  <2>2. LastDay = (L * M) * D /\ (L * M) * D \in Nat
    BY <1>2 DEF LastDay
  <2>3. n * D \in Nat
    BY <1>2, <1>3
  <2> HIDE DEF n, first
  <2> DEFINE Z == (L * M) * D
             A == n * D
  <2>4. D <= A /\ A + D <= Z /\ LastDay = Z /\ Z \in Nat /\ A \in Nat /\ first = A
    BY <1>3, <2>1, <2>2, <2>3
  <2> HIDE DEF Z, A
  <2> QED BY <1>2, <2>4
<1> QED BY <1>5, DateOfDay DEF PreviousMonth

\* The last of a month's days is one of the years modelled.
LEMMA MonthEndsInTime ==
  ASSUME NEW year \in 1..LastYear, NEW month \in 1..MonthsPerYear
  PROVE  LastDay \in Nat /\ FirstDay(year, month) + DaysPerMonth <= LastDay
<1> DEFINE y == year - 1
           M == MonthsPerYear
           D == DaysPerMonth
           L == LastYear
           p == y * M
           n == Nth(year, month)
           K == L * M
<1>1. M \in Nat \ {0} /\ D \in Nat \ {0} /\ L \in Nat \ {0} /\ y \in Nat /\ y + 1 <= L /\ month <= M /\ month \in Nat
  BY ConstantsAreNumbers
<1>2. n \in Nat /\ FirstDay(year, month) = n * D
  BY <1>1, MonthNumber
<1>3. n = p + month - 1
  BY DEF Nth
<1>4. p \in Nat /\ K \in Nat /\ p + M <= K
  <2> HIDE DEF y
  <2>1. y * M \in Nat /\ L * M \in Nat /\ (y + 1) * M = y * M + M
    BY <1>1
  <2>2. (y + 1) * M <= L * M
    BY <1>1
  <2> QED BY <2>1, <2>2
<1>5. LastDay = K * D
  BY DEF LastDay
<1> HIDE DEF y, p, n, K
<1>6. n + 1 <= K
  BY <1>1, <1>2, <1>3, <1>4
<1>7. (n + 1) * D = n * D + D /\ n * D \in Nat /\ K * D \in Nat
  BY <1>1, <1>2, <1>4
<1>8. (n + 1) * D <= K * D
  BY <1>1, <1>2, <1>4, <1>6
<1> QED BY <1>1, <1>2, <1>5, <1>7, <1>8

\* The dates of the rows that are stored, in order.
DatesOf(rows) == {<<YearOf(PostedOn[r]), MonthOf(PostedOn[r])>> : r \in rows}

LEMMA RowsHaveDates ==
  /\ \A r \in RowIds : PostedOn[r] \in Nat /\ <<YearOf(PostedOn[r]), MonthOf(PostedOn[r])>> \in Months
  /\ \A rows \in SUBSET RowIds : DatesOf(rows) \in SUBSET Months
<1>1. ASSUME NEW r \in RowIds PROVE PostedOn[r] \in 0..(LastDay - 1)
  BY ReadsAssumption DEF LastDay
<1>2. \A r \in RowIds : <<YearOf(PostedOn[r]), MonthOf(PostedOn[r])>> \in Months
  BY <1>1, DateOfDay
<1>3. \A r \in RowIds : PostedOn[r] \in Nat
  BY <1>1
<1> QED BY <1>2, <1>3 DEF DatesOf

LEMMA MonthsAreSorted ==
  ASSUME NEW found \in SUBSET Months
  PROVE  /\ Cardinality(found) \in Nat
         /\ Ascending(found) \in [1..Cardinality(found) -> Months]
         /\ \A i, j \in 1..Cardinality(found) : Ascending(found)[i] = Ascending(found)[j] => i = j
         /\ \A x \in found : \E i \in 1..Cardinality(found) : Ascending(found)[i] = x
<1>1. LastYear \in Nat /\ MonthsPerYear \in Nat
  BY ConstantsAreNumbers
<1>2. IsFiniteSet(1..LastYear) /\ IsFiniteSet(1..MonthsPerYear)
  BY <1>1, FS_Interval
<1>3. IsFiniteSet(Months)
  BY <1>2, FS_Product DEF Months
<1>4. IsFiniteSet(found)
  BY <1>3, FS_Subset
<1>5. found \in SUBSET (Nat \X Nat)
  BY <1>1 DEF Months
<1>6. /\ Cardinality(found) \in Nat
      /\ Ascending(found) \in [1..Cardinality(found) -> found]
  BY <1>4, <1>5, AscendingExists
<1>7. /\ \A i, j \in 1..Cardinality(found) : Ascending(found)[i] = Ascending(found)[j] => i = j
      /\ \A x \in found : \E i \in 1..Cardinality(found) : Ascending(found)[i] = x
  BY <1>4, <1>5, AscendingIsOnto
<1> QED BY <1>6, <1>7

\* Two places of a plan for each month, in turn.
Planned(new, months, n) ==
  /\ new \in Seq(Statements) /\ DOMAIN new = 1..(2 * n)
  /\ \A k \in 1..n :
       /\ 2 * k - 1 \in 1..(2 * n) /\ 2 * k \in 1..(2 * n)
       /\ new[2 * k - 1] = Statement("rows", months[k][1], months[k][2])
       /\ new[2 * k] = Statement("awaiting", months[k][1], months[k][2])
  /\ \A i \in 1..(2 * n) : \E k \in 1..n : i = 2 * k - 1 \/ i = 2 * k

LEMMA PlanOfMonths ==
  ASSUME NEW n \in Nat, NEW months \in [1..n -> Months]
  PROVE  Planned(MonthsPlan(months), months, n)
<1>1. Len(months) = n
  OBVIOUS
<1> DEFINE f == MonthsPlan(months)
<1>2. f = [i \in 1..(2 * n) |-> Statement(IF i % 2 = 1 THEN "rows" ELSE "awaiting",
                                          months[(i + 1) \div 2][1], months[(i + 1) \div 2][2])]
  BY <1>1 DEF MonthsPlan
<1>3. \A i \in 1..(2 * n) : (i + 1) \div 2 \in 1..n /\ (i = 2 * ((i + 1) \div 2) - 1 \/ i = 2 * ((i + 1) \div 2))
  OBVIOUS
<1>4. \A k \in 1..n : /\ 2 * k - 1 \in 1..(2 * n) /\ 2 * k \in 1..(2 * n)
                      /\ (2 * k - 1) % 2 = 1 /\ (2 * k) % 2 = 0
                      /\ (2 * k - 1 + 1) \div 2 = k /\ (2 * k + 1) \div 2 = k
  OBVIOUS
<1>5. \A k \in 1..n : months[k][1] \in 1..LastYear /\ months[k][2] \in 1..MonthsPerYear
  BY DEF Months
<1>6. f \in [1..(2 * n) -> Statements]
  <2>1. \A i \in 1..(2 * n) : Statement(IF i % 2 = 1 THEN "rows" ELSE "awaiting",
                                        months[(i + 1) \div 2][1], months[(i + 1) \div 2][2]) \in Statements
    BY <1>3, <1>5 DEF Statement, Statements
  <2> QED BY <1>2, <2>1
<1>7. 2 * n \in Nat
  OBVIOUS
<1>8. f \in Seq(Statements)
  BY <1>6, <1>7
<1> HIDE DEF f
<1>9. ASSUME NEW k \in 1..n
      PROVE  /\ f[2 * k - 1] = Statement("rows", months[k][1], months[k][2])
             /\ f[2 * k] = Statement("awaiting", months[k][1], months[k][2])
  BY <1>2, <1>4
<1>10. Planned(f, months, n)
  BY <1>3, <1>4, <1>6, <1>8, <1>9 DEF Planned
<1> QED BY <1>10 DEF f

-----------------------------------------------------------------------------
(* The invariant holds initially and is kept *)

LEMMA InitIsSound ==
  ASSUME ReadsInit
  PROVE  RInv
<1>1. TablesAreSound
  BY FS_EmptySet DEF ReadsInit, TablesAreSound
<1>2. <<>> \in Seq({}) /\ <<>> \in Seq(Statements) /\ DOMAIN <<>> = {}
  OBVIOUS
<1>3. ReaderIsSound
  BY <1>2 DEF ReadsInit, ReaderIsSound, NothingSeen
<1> QED BY <1>1, <1>3 DEF ReadsInit, RInv

\* A writer leaves the reader what it has.
LEMMA WritersKeep ==
  ASSUME RInv, TablesAreSound', imported \subseteq imported', stored \subseteq stored', Idle
  PROVE  RInv'
<1>1. query' = query /\ plan' = plan /\ seen' = seen /\ loaded' = loaded
  BY DEF Idle
<1>2. ReaderIsSound'
  <2>1. seen \in [rows : SUBSET RowIds, batches : SUBSET (imported'), dated : SUBSET (stored'), verdicts : {seen.verdicts}]
    BY DEF RInv, ReaderIsSound
  <2>2. /\ plan \in Seq(Statements) /\ \E S : loaded \in Seq(S)
        /\ \A k \in DOMAIN loaded : Judged(loaded[k])
        /\ query = "none" => plan = <<>> /\ loaded = <<>>
    BY DEF RInv, ReaderIsSound
  <2> QED BY <1>1, <2>1, <2>2 DEF ReaderIsSound, Judged
<1>3. ListingIsSound' <=> ListingIsSound
  BY <1>1 DEF ListingIsSound, InPairs, Once, Foreseen, Whole, RowsAre
<1> QED BY <1>1, <1>2, <1>3 DEF RInv

LEMMA ImportKeeps ==
  ASSUME RInv, NEW b \in Batches, Import(b)
  PROVE  RInv'
<1>1. TablesAreSound
  BY DEF RInv
<1>2. imported' = imported \cup {b} /\ stored' = stored \cup BatchRows[b]
  BY DEF Import
<1>3. BatchRows[b] \subseteq RowIds
  BY ReadsAssumption
<1>4. IsFiniteSet(imported')
  BY <1>1, <1>2, FS_AddElement DEF TablesAreSound
<1>5. TablesAreSound'
  BY <1>1, <1>2, <1>3, <1>4 DEF TablesAreSound
<1> QED BY <1>2, <1>5, WritersKeep DEF Import

LEMMA EnterKeeps ==
  ASSUME RInv, NEW r \in RowIds, Enter(r)
  PROVE  RInv'
<1>1. imported' = imported /\ stored' = stored \cup {r}
  BY DEF Enter
<1>2. TablesAreSound'
  BY <1>1 DEF RInv, TablesAreSound
<1> QED BY <1>1, <1>2, WritersKeep DEF Enter

LEMMA LabelKeeps ==
  ASSUME RInv, NEW r \in RowIds, RecordSuggestion(r) \/ ConfirmLabel(r)
  PROVE  RInv'
<1>1. Idle /\ imported' = imported /\ stored' = stored
  BY DEF RecordSuggestion, ConfirmLabel, Label
<1>2. TablesAreSound'
  BY <1>1 DEF RInv, TablesAreSound
<1> QED BY <1>1, <1>2, WritersKeep

LEMMA AskKeeps ==
  ASSUME RInv, NEW kind \in {"months", "report", "compare"}, NEW ym \in Months, Ask(kind, ym)
  PROVE  RInv'
<1>1. /\ query' = kind /\ plan' = PlanOf(kind, ym) /\ UNCHANGED <<imported, stored, seen, loaded>>
      /\ Answerable(kind, ym) /\ query = "none"
  BY DEF Ask
<1>2. TablesAreSound' /\ loaded = <<>>
  BY <1>1 DEF RInv, TablesAreSound, ReaderIsSound
<1>3. 1 \in 1..LastYear /\ 1 \in 1..MonthsPerYear
  BY ConstantsAreNumbers
<1>4. PlanOf(kind, ym) \in Seq(Statements)
  <2>1. CASE kind = "months"
    BY <1>3, <2>1 DEF PlanOf, Statement, Statements
  <2>2. CASE kind = "report"
    BY <2>2, LoadMonthIsAPlan DEF PlanOf
  <2>3. CASE kind = "compare"
    <3>1. PreviousMonth(ym[1], ym[2]) \in Months
      BY <1>1, <2>3, PreviousIsAMonth DEF Answerable
    <3>2. LoadMonth(PreviousMonth(ym[1], ym[2])) \in Seq(Statements) /\ LoadMonth(ym) \in Seq(Statements)
      BY <3>1, LoadMonthIsAPlan
    <3>3. PlanOf(kind, ym) = LoadMonth(PreviousMonth(ym[1], ym[2])) \o LoadMonth(ym)
      BY <2>3 DEF PlanOf
    <3> QED BY <3>2, <3>3
  <2> QED BY <2>1, <2>2, <2>3
<1>5. ReaderIsSound'
  <2>1. ReaderIsSound
    BY DEF RInv
  <2>2. seen' \in [rows : SUBSET RowIds, batches : SUBSET (imported'), dated : SUBSET (stored'), verdicts : {(seen').verdicts}]
    BY <1>1, <2>1 DEF ReaderIsSound
  <2>3. \A k \in DOMAIN loaded' : Judged(loaded'[k])
    BY <1>1, <2>1 DEF ReaderIsSound
  <2>4. \E S : loaded' \in Seq(S)
    BY <1>1, <2>1 DEF ReaderIsSound
  <2>5. query' # "none"
    BY <1>1
  <2>6. plan' \in Seq(Statements)
    BY <1>1, <1>4
  <2> QED BY <2>2, <2>3, <2>4, <2>5, <2>6 DEF ReaderIsSound
<1>6. query' = "months" => ListingIsSound'
  <2> SUFFICES ASSUME query' = "months" PROVE ListingIsSound'
    OBVIOUS
  <2>1. plan' = <<Statement("windows", 1, 1), Statement("dates", 1, 1)>> /\ loaded' = <<>>
    BY <1>1, <1>2 DEF PlanOf
  <2> QED BY <2>1 DEF ListingIsSound
<1> QED BY <1>2, <1>5, <1>6 DEF RInv

\* The statement that is next, and what is planned once it has run.
LEMMA NextStatement ==
  ASSUME RInv, plan # <<>>
  PROVE  /\ Tail(plan) \in Seq(Statements) /\ Head(plan) = plan[1] /\ 1 \in DOMAIN plan
         /\ plan[1] \in Statements
         /\ \A i \in DOMAIN Tail(plan) : i \in Nat \ {0} /\ i + 1 \in DOMAIN plan /\ Tail(plan)[i] = plan[i + 1]
         /\ \A i \in DOMAIN plan : i = 1 \/ (i - 1 \in DOMAIN Tail(plan) /\ Tail(plan)[i - 1] = plan[i])
         /\ \A i \in DOMAIN Tail(plan) : i + 2 \in DOMAIN plan => i + 1 \in DOMAIN Tail(plan)
         /\ query # "none"
<1>1. plan \in Seq(Statements) /\ query # "none"
  BY DEF RInv, ReaderIsSound
<1> DEFINE S == Statements
<1>2. plan \in Seq(S)
  BY <1>1
<1> HIDE DEF S
<1>3. /\ Tail(plan) \in Seq(S) /\ Head(plan) = plan[1] /\ 1 \in DOMAIN plan /\ plan[1] \in S
      /\ \A i \in DOMAIN Tail(plan) : i \in Nat \ {0} /\ i + 1 \in DOMAIN plan /\ Tail(plan)[i] = plan[i + 1]
      /\ \A i \in DOMAIN plan : i = 1 \/ (i - 1 \in DOMAIN Tail(plan) /\ Tail(plan)[i - 1] = plan[i])
      /\ \A i \in DOMAIN Tail(plan) : i + 2 \in DOMAIN plan => i + 1 \in DOMAIN Tail(plan)
  BY <1>2, TailShifts
<1> QED BY <1>1, <1>3 DEF S

\* Pairs stay pairs when the first statement has run.
LEMMA PairsRemain ==
  ASSUME RInv, plan # <<>>, InPairs, plan' = Tail(plan)
  PROVE  InPairs'
<1>1. ASSUME NEW i \in DOMAIN plan'
      PROVE  /\ plan'[i].name \in {"rows", "awaiting"}
             /\ plan'[i].name = "rows" =>
                  i + 1 \in DOMAIN plan' /\ plan'[i + 1] = Statement("awaiting", plan'[i].year, plan'[i].month)
             /\ plan'[i].name = "awaiting" /\ i + 1 \in DOMAIN plan' => plan'[i + 1].name = "rows"
  <2> DEFINE j == i + 1
  <2>1. i \in Nat \ {0} /\ j \in DOMAIN plan /\ plan'[i] = plan[j]
    BY NextStatement
  <2>2. j + 1 \in DOMAIN plan => i + 1 \in DOMAIN plan' /\ plan'[i + 1] = plan[j + 1]
    <3>1. j + 1 = i + 2 /\ j + 1 # 1
      BY <2>1
    <3>2. (i + 1) + 1 = i + 2
      BY <2>1
    <3> QED BY <3>1, <3>2, NextStatement
  <2>3. i + 1 \in DOMAIN plan' => j + 1 \in DOMAIN plan
    <3>1. (i + 1) + 1 = j + 1
      OBVIOUS
    <3> QED BY <3>1, NextStatement
  <2> HIDE DEF j
  <2> QED BY <2>1, <2>2, <2>3 DEF InPairs
<1> QED BY <1>1 DEF InPairs

\* What the SELECTs leave alone.
LEMMA SelectsLeaveTables ==
  ASSUME RInv, Data
  PROVE  TablesAreSound' /\ imported' = imported /\ stored' = stored /\ query' = query
<1>1. imported' = imported /\ stored' = stored /\ query' = query
  BY DEF Data
<1> QED BY <1>1 DEF RInv, TablesAreSound

\* A listing whose next statement reads rows, or the queue, has its months planned.
LEMMA MonthsArePlanned ==
  ASSUME RInv, query = "months", plan # <<>>, plan[1].name \in {"rows", "awaiting"}
  PROVE  InPairs /\ Once /\ Foreseen /\ Whole
<1>1. ListingIsSound
  BY DEF RInv
<1>2. plan # <<Statement("windows", 1, 1), Statement("dates", 1, 1)>>
  BY DEF Statement
<1>3. plan # <<Statement("dates", 1, 1)>>
  BY DEF Statement
<1> QED BY <1>1, <1>2, <1>3 DEF ListingIsSound

LEMMA SelectRowsKeeps ==
  ASSUME RInv, SelectRows
  PROVE  RInv'
<1> DEFINE year == plan[1].year
           month == plan[1].month
<1>1. /\ plan # <<>> /\ plan[1].name = "rows" /\ plan' = Tail(plan) /\ loaded' = loaded
      /\ seen' = [seen EXCEPT !.rows = ForMonth(year, month), !.verdicts = verdict]
  BY NextStatement DEF SelectRows, Reads
<1>2. TablesAreSound' /\ imported' = imported /\ stored' = stored /\ query' = query
  BY SelectsLeaveTables DEF SelectRows
<1>3. TablesAreSound /\ ReaderIsSound
  BY DEF RInv
<1>4. /\ seen'.rows = ForMonth(year, month) /\ seen'.batches = seen.batches /\ seen'.dated = seen.dated
      /\ seen'.verdicts = verdict
      /\ seen' = [rows |-> ForMonth(year, month), batches |-> seen.batches, dated |-> seen.dated, verdicts |-> verdict]
  BY <1>1, <1>3 DEF ReaderIsSound
<1>5. year \in 1..LastYear /\ month \in 1..MonthsPerYear
  BY <1>1, NextStatement DEF Statements
<1>6. \A r \in stored : r \in ForMonth(year, month) <=> Dated(r, year, month)
  <2>1. ASSUME NEW r \in stored PROVE InMonth(PostedOn[r], year, month) <=> Dated(r, year, month)
    <3>1. r \in RowIds /\ year \in Nat \ {0}
      BY <1>3, <1>5, ConstantsAreNumbers DEF TablesAreSound
    <3>2. PostedOn[r] \in Nat
      BY <3>1, RowsHaveDates
    <3> QED BY <1>5, <3>1, <3>2, InMonthIsDate DEF Dated
  <2> QED BY <2>1 DEF ForMonth
<1>7. ForMonth(year, month) \subseteq stored /\ stored \subseteq RowIds
  BY <1>3 DEF ForMonth, TablesAreSound
<1> HIDE DEF year, month
<1>8. ReaderIsSound'
  <2>1. seen' \in [rows : SUBSET RowIds, batches : SUBSET (imported'), dated : SUBSET (stored'), verdicts : {(seen').verdicts}]
    BY <1>2, <1>3, <1>4, <1>7 DEF ReaderIsSound
  <2>2. plan' \in Seq(Statements) /\ query' # "none"
    BY <1>1, <1>2, NextStatement
  <2>3. (\E S : loaded' \in Seq(S)) /\ \A k \in DOMAIN loaded' : Judged(loaded'[k])
    BY <1>1, <1>3 DEF ReaderIsSound
  <2> QED BY <2>1, <2>2, <2>3 DEF ReaderIsSound
<1>9. ASSUME query' = "months" PROVE ListingIsSound'
  <2>1. InPairs /\ Once /\ Foreseen /\ Whole
    BY <1>1, <1>2, <1>9, MonthsArePlanned
  <2>2. InPairs'
    BY <1>1, <2>1, PairsRemain
  <2>3. /\ \A i \in DOMAIN plan' : i + 1 \in DOMAIN plan /\ plan'[i] = plan[i + 1]
        /\ \A i \in DOMAIN plan : plan[i].name = "awaiting" => i - 1 \in DOMAIN plan' /\ plan'[i - 1] = plan[i]
        /\ \A i \in DOMAIN plan' : i \in Nat \ {0}
    <3>1. \A i \in DOMAIN plan : plan[i].name = "awaiting" => i # 1
      BY <1>1
    <3> QED BY <1>1, <3>1, NextStatement
  <2>4. Once'
    <3>1. ASSUME NEW i \in DOMAIN plan', NEW j \in DOMAIN plan', plan'[i].name = "awaiting",
                 plan'[j].name = "awaiting", Same(plan'[i], plan'[j])
          PROVE  i = j
      <4>1. i + 1 = j + 1
        BY <2>1, <2>3, <3>1 DEF Once
      <4> QED BY <2>3, <4>1
    <3>2. ASSUME NEW i \in DOMAIN plan', NEW k \in DOMAIN loaded', plan'[i].name = "awaiting"
          PROVE  ~Same(plan'[i], loaded'[k])
      BY <1>1, <2>1, <2>3, <3>2 DEF Once
    <3>3. \A j, k \in DOMAIN loaded' : Same(loaded'[j], loaded'[k]) => j = k
      BY <1>1, <2>1 DEF Once
    <3> QED BY <3>1, <3>2, <3>3 DEF Once
  <2>5. Foreseen'
    <3> SUFFICES ASSUME NEW r \in seen'.dated
                 PROVE  \/ \E k \in DOMAIN loaded' : Dated(r, loaded'[k].year, loaded'[k].month)
                        \/ \E i \in DOMAIN plan' : plan'[i].name = "awaiting" /\ Dated(r, plan'[i].year, plan'[i].month)
      BY DEF Foreseen
    <3>1. \/ \E k \in DOMAIN loaded : Dated(r, loaded[k].year, loaded[k].month)
          \/ \E i \in DOMAIN plan : plan[i].name = "awaiting" /\ Dated(r, plan[i].year, plan[i].month)
      BY <1>4, <2>1 DEF Foreseen
    <3>2. CASE \E k \in DOMAIN loaded : Dated(r, loaded[k].year, loaded[k].month)
      BY <1>1, <3>2
    <3>3. CASE \E i \in DOMAIN plan : plan[i].name = "awaiting" /\ Dated(r, plan[i].year, plan[i].month)
      BY <2>3, <3>3
    <3> QED BY <3>1, <3>2, <3>3
  <2>6. \A k \in DOMAIN loaded' :
          RowsAre(loaded[k].rows, loaded[k].year, loaded[k].month, loaded[k].batches)'
    BY <1>1, <1>4, <2>1 DEF Whole, RowsAre
  <2>7. ASSUME plan' # <<>>, plan'[1].name = "awaiting"
        PROVE  RowsAre(seen.rows, plan[1].year, plan[1].month, seen.batches)'
    <3>1. 1 \in DOMAIN plan'
      <4>1. plan' \in Seq(Statements)
        BY <1>8 DEF ReaderIsSound
      <4> QED BY <2>7, <4>1, TailShifts
    <3>2. plan'[1] = plan[2] /\ 2 \in DOMAIN plan
      <4>1. 1 + 1 = 2
        OBVIOUS
      <4> QED BY <2>3, <3>1, <4>1
    <3>3. plan[2] = Statement("awaiting", plan[1].year, plan[1].month)
      <4>1. 1 + 1 = 2
        OBVIOUS
      <4>2. 1 \in DOMAIN plan
        BY <1>1, NextStatement
      <4> QED BY <1>1, <2>1, <4>1, <4>2 DEF InPairs
    <3>4. plan'[1].year = year /\ plan'[1].month = month
      BY <3>2, <3>3 DEF Statement, year, month
    <3>5. \A b \in seen.batches : BatchRows[b] \subseteq stored
      BY <1>3 DEF ReaderIsSound, TablesAreSound
    <3>6. seen.dated \subseteq stored
      BY <1>3 DEF ReaderIsSound
    <3>7. /\ \A r \in ForMonth(year, month) : r \in RowIds /\ Dated(r, year, month)
          /\ \A r \in seen.dated : Dated(r, year, month) => r \in ForMonth(year, month)
          /\ \A b \in seen.batches : \A r \in BatchRows[b] : Dated(r, year, month) => r \in ForMonth(year, month)
      BY <1>6, <1>7, <3>5, <3>6
    <3> QED BY <1>4, <3>4, <3>7 DEF RowsAre
  <2>8. Whole'
    BY <2>6, <2>7 DEF Whole
  <2> QED BY <2>2, <2>4, <2>5, <2>8 DEF ListingIsSound
<1> QED BY <1>2, <1>8, <1>9 DEF RInv

LEMMA SelectWindowsKeeps ==
  ASSUME RInv, SelectWindows
  PROVE  RInv'
<1>1. /\ plan # <<>> /\ plan[1].name = "windows" /\ plan' = Tail(plan) /\ loaded' = loaded
      /\ seen' = [seen EXCEPT !.batches = SnapshotBatches]
  BY NextStatement DEF SelectWindows, Reads
<1>2. TablesAreSound' /\ imported' = imported /\ stored' = stored /\ query' = query
  BY SelectsLeaveTables DEF SelectWindows
<1>3. TablesAreSound /\ ReaderIsSound
  BY DEF RInv
<1>4. SnapshotBatches \subseteq imported
  BY DEF SnapshotBatches
<1>5. ReaderIsSound'
  <2>1. seen' = [rows |-> seen.rows, batches |-> SnapshotBatches, dated |-> seen.dated, verdicts |-> seen.verdicts]
    BY <1>1, <1>3 DEF ReaderIsSound
  <2>2. seen' \in [rows : SUBSET RowIds, batches : SUBSET (imported'), dated : SUBSET (stored'), verdicts : {(seen').verdicts}]
    BY <1>2, <1>3, <1>4, <2>1 DEF ReaderIsSound
  <2>3. plan' \in Seq(Statements) /\ query' # "none"
    BY <1>1, <1>2, NextStatement
  <2>4. (\E S : loaded' \in Seq(S)) /\ \A k \in DOMAIN loaded' : Judged(loaded'[k])
    BY <1>1, <1>3 DEF ReaderIsSound
  <2> QED BY <2>2, <2>3, <2>4 DEF ReaderIsSound
<1>6. ASSUME query' = "months" PROVE ListingIsSound'
  <2>1. ListingIsSound
    BY <1>2, <1>6 DEF RInv
  <2>2. ~InPairs
    BY <1>1, NextStatement DEF InPairs
  <2>3. plan # <<Statement("dates", 1, 1)>>
    BY <1>1 DEF Statement
  <2>4. plan = <<Statement("windows", 1, 1), Statement("dates", 1, 1)>> /\ loaded = <<>>
    BY <2>1, <2>2, <2>3 DEF ListingIsSound
  <2>5. plan' = <<Statement("dates", 1, 1)>> /\ loaded' = <<>>
    BY <1>1, <2>4
  <2> QED BY <2>5 DEF ListingIsSound
<1> QED BY <1>2, <1>5, <1>6 DEF RInv

LEMMA SelectDatesKeeps ==
  ASSUME RInv, SelectDates
  PROVE  RInv'
<1> DEFINE found == DatesOf(stored)
           n == Cardinality(found)
           months == Ascending(found)
           new == MonthsPlan(months)
<1>1. /\ plan # <<>> /\ plan[1].name = "dates" /\ plan' = Tail(plan) \o new /\ loaded' = loaded
      /\ seen' = [seen EXCEPT !.dated = stored]
  BY NextStatement DEF SelectDates, Reads, DatesOf
<1>2. TablesAreSound' /\ imported' = imported /\ stored' = stored /\ query' = query
  BY SelectsLeaveTables DEF SelectDates
<1>3. TablesAreSound /\ ReaderIsSound
  BY DEF RInv
<1>4. found \in SUBSET Months
  BY <1>3, RowsHaveDates DEF TablesAreSound
<1>5. /\ n \in Nat /\ months \in [1..n -> Months]
      /\ \A i, j \in 1..n : months[i] = months[j] => i = j
      /\ \A x \in found : \E i \in 1..n : months[i] = x
  BY <1>4, MonthsAreSorted
<1> HIDE DEF n, months
<1>6. /\ new \in Seq(Statements) /\ DOMAIN new = 1..(2 * n)
      /\ \A k \in 1..n :
           /\ 2 * k - 1 \in 1..(2 * n) /\ 2 * k \in 1..(2 * n)
           /\ new[2 * k - 1] = Statement("rows", months[k][1], months[k][2])
           /\ new[2 * k] = Statement("awaiting", months[k][1], months[k][2])
      /\ \A i \in 1..(2 * n) : \E k \in 1..n : i = 2 * k - 1 \/ i = 2 * k
  <2>1. Planned(new, months, n)
    BY <1>5, PlanOfMonths
  <2> HIDE DEF new
  <2> QED BY <2>1 DEF Planned
<1> HIDE DEF new, found
<1>7. seen' = [rows |-> seen.rows, batches |-> seen.batches, dated |-> stored, verdicts |-> seen.verdicts]
  BY <1>1, <1>3 DEF ReaderIsSound
<1>8. ReaderIsSound'
  <2>1. seen' \in [rows : SUBSET RowIds, batches : SUBSET (imported'), dated : SUBSET (stored'), verdicts : {(seen').verdicts}]
    BY <1>2, <1>3, <1>7 DEF ReaderIsSound
  <2>2. Tail(plan) \in Seq(Statements) /\ query' # "none"
    BY <1>1, <1>2, NextStatement
  <2>3. plan' \in Seq(Statements)
    <3> DEFINE S == Statements
               t == Tail(plan)
    <3>1. t \in Seq(S) /\ new \in Seq(S) /\ plan' = t \o new
      BY <1>1, <1>6, <2>2
    <3> HIDE DEF S, t
    <3>2. plan' \in Seq(S)
      BY <3>1
    <3> QED BY <3>2 DEF S
  <2>4. (\E S : loaded' \in Seq(S)) /\ \A k \in DOMAIN loaded' : Judged(loaded'[k])
    BY <1>1, <1>3 DEF ReaderIsSound
  <2> QED BY <2>1, <2>2, <2>3, <2>4 DEF ReaderIsSound
<1>9. ASSUME query' = "months" PROVE ListingIsSound'
  <2>1. ListingIsSound
    BY <1>2, <1>9 DEF RInv
  <2>2. ~InPairs
    BY <1>1, NextStatement DEF InPairs
  <2>3. plan # <<Statement("windows", 1, 1), Statement("dates", 1, 1)>>
    BY <1>1 DEF Statement
  <2>4. plan = <<Statement("dates", 1, 1)>> /\ loaded = <<>>
    BY <2>1, <2>2, <2>3 DEF ListingIsSound
  <2>5. plan' = new /\ loaded' = <<>>
    <3>1. Tail(plan) = <<>>
      BY <2>4
    <3>2. <<>> \o new = new
      BY <1>6
    <3> QED BY <1>1, <2>4, <3>1, <3>2
  <2>6. DOMAIN loaded' = {}
    <3>1. DOMAIN <<>> = {}
      OBVIOUS
    <3> QED BY <2>5, <3>1, Zenon
  <2>7. \A i \in DOMAIN new : \E k \in 1..n :
          \/ i = 2 * k - 1 /\ new[i].name = "rows"
          \/ i = 2 * k /\ new[i] = Statement("awaiting", months[k][1], months[k][2])
    <3> SUFFICES ASSUME NEW i \in DOMAIN new
                 PROVE  \E k \in 1..n :
                          \/ i = 2 * k - 1 /\ new[i].name = "rows"
                          \/ i = 2 * k /\ new[i] = Statement("awaiting", months[k][1], months[k][2])
      OBVIOUS
    <3>1. PICK k \in 1..n : i = 2 * k - 1 \/ i = 2 * k
      BY <1>6
    <3>2. new[2 * k - 1] = Statement("rows", months[k][1], months[k][2])
      BY <1>6
    <3>3. Statement("rows", months[k][1], months[k][2]).name = "rows"
      BY DEF Statement
    <3>4. new[2 * k] = Statement("awaiting", months[k][1], months[k][2])
      BY <1>6
    <3> QED BY <3>1, <3>2, <3>3, <3>4
  <2>8. ASSUME NEW i \in DOMAIN new
        PROVE  /\ new[i].name \in {"rows", "awaiting"}
               /\ new[i].name = "rows" =>
                    i + 1 \in DOMAIN new /\ new[i + 1] = Statement("awaiting", new[i].year, new[i].month)
               /\ new[i].name = "awaiting" /\ i + 1 \in DOMAIN new => new[i + 1].name = "rows"
    <3>1. PICK k \in 1..n : i = 2 * k - 1 \/ i = 2 * k
      BY <1>6
    <3>2. CASE i = 2 * k - 1
      <4>1. i + 1 = 2 * k
        BY <1>5, <3>2
      <4>2. new[i] = Statement("rows", months[k][1], months[k][2]) /\ i + 1 \in DOMAIN new
            /\ new[i + 1] = Statement("awaiting", months[k][1], months[k][2])
        BY <1>6, <3>2, <4>1
      <4> QED BY <4>2 DEF Statement
    <3>3. CASE i = 2 * k
      <4>1. new[i] = Statement("awaiting", months[k][1], months[k][2])
        BY <1>6, <3>3
      <4>2. ASSUME i + 1 \in DOMAIN new PROVE new[i + 1].name = "rows"
        <5>1. k + 1 \in 1..n /\ i + 1 = 2 * (k + 1) - 1
          BY <1>5, <1>6, <3>3, <4>2
        <5>2. new[i + 1] = Statement("rows", months[k + 1][1], months[k + 1][2])
          BY <1>6, <5>1
        <5> QED BY <5>2 DEF Statement
      <4> QED BY <4>1, <4>2 DEF Statement
    <3> QED BY <3>1, <3>2, <3>3
  <2>9. InPairs'
    BY <2>5, <2>8 DEF InPairs
  <2>10. Once'
    <3>1. ASSUME NEW i \in DOMAIN new, NEW j \in DOMAIN new, new[i].name = "awaiting",
                 new[j].name = "awaiting", Same(new[i], new[j])
          PROVE  i = j
      <4>1. PICK k \in 1..n : i = 2 * k /\ new[i] = Statement("awaiting", months[k][1], months[k][2])
        BY <2>7, <3>1
      <4>2. PICK l \in 1..n : j = 2 * l /\ new[j] = Statement("awaiting", months[l][1], months[l][2])
        BY <2>7, <3>1
      <4>3. months[k][1] = months[l][1] /\ months[k][2] = months[l][2]
        BY <3>1, <4>1, <4>2 DEF Statement, Same
      <4>4. months[k] = months[l]
        <5>1. months[k] \in Months /\ months[l] \in Months
          BY <1>5
        <5>2. \A x \in Months : x = <<x[1], x[2]>>
          BY DEF Months
        <5> QED BY <4>3, <5>1, <5>2
      <4> QED BY <1>5, <4>1, <4>2, <4>4
    <3> QED BY <2>5, <2>6, <3>1 DEF Once
  <2>11. Foreseen'
    <3> SUFFICES ASSUME NEW r \in stored
                 PROVE  \E i \in DOMAIN new : new[i].name = "awaiting" /\ Dated(r, new[i].year, new[i].month)
      BY <1>7, <2>5 DEF Foreseen
    <3>1. <<YearOf(PostedOn[r]), MonthOf(PostedOn[r])>> \in found
      BY DEF found, DatesOf
    <3>2. PICK k \in 1..n : months[k] = <<YearOf(PostedOn[r]), MonthOf(PostedOn[r])>>
      BY <1>5, <3>1
    <3>3. 2 * k \in DOMAIN new /\ new[2 * k] = Statement("awaiting", months[k][1], months[k][2])
      BY <1>6
    <3> QED BY <3>2, <3>3 DEF Statement, Dated
  <2>12. Whole'
    <3>1. new # <<>> => new[1].name = "rows"
      <4> SUFFICES ASSUME new # <<>> PROVE new[1].name = "rows"
        OBVIOUS
      <4>1. 1 \in DOMAIN new
        <5> DEFINE S == Statements
        <5>1. new \in Seq(S)
          BY <1>6
        <5> HIDE DEF S
        <5> QED BY <5>1, TailShifts
      <4>2. PICK k \in 1..n : 1 = 2 * k - 1 \/ 1 = 2 * k
        BY <1>6, <4>1
      <4>3. 1 = 2 * k - 1
        BY <1>5, <4>2
      <4>4. new[1] = Statement("rows", months[k][1], months[k][2])
        BY <1>6, <4>3
      <4> QED BY <4>4 DEF Statement
    <3> QED BY <2>5, <2>6, <3>1 DEF Whole
  <2> QED BY <2>9, <2>10, <2>11, <2>12 DEF ListingIsSound
<1> QED BY <1>2, <1>8, <1>9 DEF RInv

LEMMA SelectAwaitingKeeps ==
  ASSUME RInv, SelectAwaiting
  PROVE  RInv'
<1> DEFINE year == plan[1].year
           month == plan[1].month
           report == [year |-> year, month |-> month, rows |-> seen.rows,
                      verdicts |-> [r \in seen.rows |-> seen.verdicts[r]],
                      batches |-> seen.batches,
                      complete |-> MonthIsCovered(year, month, {BatchWindow[b] : b \in seen.batches}),
                      classified |-> Cardinality({r \in seen.rows : IsClassified(seen.verdicts[r])}),
                      awaiting |-> Cardinality(AwaitingReview(year, month))]
<1>1. /\ plan # <<>> /\ plan[1].name = "awaiting" /\ plan' = Tail(plan) /\ seen' = seen
      /\ loaded' = Append(loaded, report)
  BY NextStatement DEF SelectAwaiting, Reads
<1>2. TablesAreSound' /\ imported' = imported /\ stored' = stored /\ query' = query
  BY SelectsLeaveTables DEF SelectAwaiting
<1>3. TablesAreSound /\ ReaderIsSound
  BY DEF RInv
<1>4. /\ report.year = year /\ report.month = month /\ report.rows = seen.rows /\ report.batches = seen.batches
      /\ report.complete = MonthIsCovered(year, month, {BatchWindow[b] : b \in seen.batches})
  OBVIOUS
<1>5. year \in 1..LastYear /\ month \in 1..MonthsPerYear
  BY <1>1, NextStatement DEF Statements
<1> HIDE DEF report, year, month
<1>6. Judged(report)
  <2>1. seen.batches \subseteq imported /\ imported \subseteq Batches /\ IsFiniteSet(imported)
    BY <1>3 DEF ReaderIsSound, TablesAreSound
  <2>2. IsFiniteSet(seen.batches)
    BY <2>1, FS_Subset
  <2> QED BY <1>4, <1>5, <2>1, <2>2 DEF Judged
<1>7. /\ \E S : loaded' \in Seq(S)
      /\ \A k \in DOMAIN loaded : k \in DOMAIN loaded' /\ loaded'[k] = loaded[k]
      /\ \E l \in DOMAIN loaded' : /\ loaded'[l] = report
                                   /\ \A k \in DOMAIN loaded' : k = l \/ k \in DOMAIN loaded
  <2>1. PICK S : loaded \in Seq(S)
    BY <1>3 DEF ReaderIsSound
  <2>2. /\ Append(loaded, report) \in Seq(S \cup {report})
        /\ \A i \in DOMAIN loaded : i \in DOMAIN Append(loaded, report) /\ Append(loaded, report)[i] = loaded[i]
        /\ \E l \in DOMAIN Append(loaded, report) :
             /\ Append(loaded, report)[l] = report
             /\ \A i \in DOMAIN Append(loaded, report) : i = l \/ i \in DOMAIN loaded
    BY <2>1, AppendAdds
  <2> QED BY <1>1, <2>2
<1>8. PICK l \in DOMAIN loaded' : loaded'[l] = report /\ \A k \in DOMAIN loaded' : k = l \/ k \in DOMAIN loaded
  BY <1>7
<1>9. ReaderIsSound'
  <2>1. seen' \in [rows : SUBSET RowIds, batches : SUBSET (imported'), dated : SUBSET (stored'), verdicts : {(seen').verdicts}]
    BY <1>1, <1>2, <1>3 DEF ReaderIsSound
  <2>2. plan' \in Seq(Statements) /\ query' # "none"
    BY <1>1, <1>2, NextStatement
  <2>3. ASSUME NEW k \in DOMAIN loaded' PROVE Judged(loaded'[k])
    <3>1. CASE k = l
      BY <1>6, <1>8, <3>1
    <3>2. CASE k \in DOMAIN loaded
      BY <1>3, <1>7, <3>2 DEF ReaderIsSound
    <3> QED BY <1>8, <3>1, <3>2
  <2>4. (\A k \in DOMAIN loaded : Judged(loaded[k]))'
    BY <2>3 DEF Judged
  <2> QED BY <1>7, <2>1, <2>2, <2>4 DEF ReaderIsSound
<1>10. ASSUME query' = "months" PROVE ListingIsSound'
  <2>1. InPairs /\ Once /\ Foreseen /\ Whole
    BY <1>1, <1>2, <1>10, MonthsArePlanned
  <2>2. InPairs'
    BY <1>1, <2>1, PairsRemain
  <2>3. /\ \A i \in DOMAIN plan' : i \in Nat \ {0} /\ i + 1 \in DOMAIN plan /\ i + 1 # 1 /\ plan'[i] = plan[i + 1]
        /\ \A i \in DOMAIN plan : i = 1 \/ (i - 1 \in DOMAIN plan' /\ plan'[i - 1] = plan[i])
        /\ 1 \in DOMAIN plan
    <3>1. \A i \in Nat \ {0} : i + 1 # 1
      OBVIOUS
    <3> QED BY <1>1, <3>1, NextStatement
  <2>4. \A k \in DOMAIN loaded : ~Same(plan[1], loaded[k])
    BY <1>1, <2>1, <2>3 DEF Once
  <2>5. ASSUME NEW i \in DOMAIN plan', plan'[i].name = "awaiting" PROVE ~Same(plan'[i], plan[1])
    BY <1>1, <2>1, <2>3, <2>5 DEF Once
  <2>6. Same(report, plan[1])
    BY <1>4 DEF Same, year, month
  <2>7. Once'
    <3>1. ASSUME NEW i \in DOMAIN plan', NEW j \in DOMAIN plan', plan'[i].name = "awaiting",
                 plan'[j].name = "awaiting", Same(plan'[i], plan'[j])
          PROVE  i = j
      <4>1. i + 1 = j + 1
        BY <2>1, <2>3, <3>1 DEF Once
      <4> QED BY <2>3, <4>1
    <3>2. ASSUME NEW i \in DOMAIN plan', NEW k \in DOMAIN loaded', plan'[i].name = "awaiting"
          PROVE  ~Same(plan'[i], loaded'[k])
      <4>1. CASE k = l
        BY <1>8, <2>5, <2>6, <3>2, <4>1 DEF Same
      <4>2. CASE k \in DOMAIN loaded
        BY <1>7, <2>1, <2>3, <3>2, <4>2 DEF Once
      <4> QED BY <1>8, <4>1, <4>2
    <3>3. ASSUME NEW j \in DOMAIN loaded', NEW k \in DOMAIN loaded', Same(loaded'[j], loaded'[k])
          PROVE  j = k
      <4>1. CASE j = l /\ k = l
        BY <4>1
      <4>2. CASE j = l /\ k \in DOMAIN loaded
        BY <1>7, <1>8, <2>4, <2>6, <3>3, <4>2 DEF Same
      <4>3. CASE j \in DOMAIN loaded /\ k = l
        BY <1>7, <1>8, <2>4, <2>6, <3>3, <4>3 DEF Same
      <4>4. CASE j \in DOMAIN loaded /\ k \in DOMAIN loaded
        BY <1>7, <2>1, <3>3, <4>4 DEF Once
      <4> QED BY <1>8, <4>1, <4>2, <4>3, <4>4
    <3> QED BY <3>1, <3>2, <3>3 DEF Once
  <2>8. Foreseen'
    <3> SUFFICES ASSUME NEW r \in seen.dated
                 PROVE  \/ \E k \in DOMAIN loaded' : Dated(r, loaded'[k].year, loaded'[k].month)
                        \/ \E i \in DOMAIN plan' : plan'[i].name = "awaiting" /\ Dated(r, plan'[i].year, plan'[i].month)
      BY <1>1 DEF Foreseen
    <3>1. CASE \E k \in DOMAIN loaded : Dated(r, loaded[k].year, loaded[k].month)
      BY <1>7, <3>1
    <3>2. CASE \E i \in DOMAIN plan : plan[i].name = "awaiting" /\ Dated(r, plan[i].year, plan[i].month)
      <4>1. PICK i \in DOMAIN plan : plan[i].name = "awaiting" /\ Dated(r, plan[i].year, plan[i].month)
        BY <3>2
      <4>2. CASE i = 1
        <5>1. Dated(r, report.year, report.month)
          BY <1>4, <4>1, <4>2 DEF year, month
        <5> QED BY <1>8, <5>1
      <4>3. CASE i # 1
        BY <2>3, <4>1, <4>3
      <4> QED BY <4>2, <4>3
    <3> QED BY <2>1, <3>1, <3>2 DEF Foreseen
  <2>9. ASSUME NEW k \in DOMAIN loaded'
        PROVE  RowsAre(loaded'[k].rows, loaded'[k].year, loaded'[k].month, loaded'[k].batches)
    <3>1. CASE k = l
      <4>1. RowsAre(seen.rows, year, month, seen.batches)
        BY <1>1, <2>1 DEF Whole, year, month
      <4> QED BY <1>4, <1>8, <3>1, <4>1
    <3>2. CASE k \in DOMAIN loaded
      BY <1>7, <2>1, <3>2 DEF Whole
    <3> QED BY <1>8, <3>1, <3>2
  <2>10. plan' # <<>> => plan'[1].name = "rows"
    <3> SUFFICES ASSUME plan' # <<>> PROVE plan'[1].name = "rows"
      OBVIOUS
    <3>1. 1 \in DOMAIN plan'
      <4> DEFINE S == Statements
      <4>1. plan' \in Seq(S)
        BY <1>9 DEF ReaderIsSound
      <4> HIDE DEF S
      <4> QED BY <4>1, TailShifts
    <3>2. 1 + 1 \in DOMAIN plan /\ plan'[1] = plan[1 + 1]
      BY <2>3, <3>1
    <3> QED BY <1>1, <2>1, <2>3, <3>2 DEF InPairs
  <2>11. Whole'
    BY <1>1, <2>9, <2>10 DEF Whole, RowsAre
  <2> QED BY <2>2, <2>7, <2>8, <2>11 DEF ListingIsSound
<1> QED BY <1>2, <1>9, <1>10 DEF RInv

LEMMA StutterKeeps ==
  ASSUME RInv, UNCHANGED readsVars
  PROVE  RInv'
<1>1. imported' = imported /\ stored' = stored /\ query' = query /\ plan' = plan /\ seen' = seen /\ loaded' = loaded
  BY DEF readsVars
<1>2. TablesAreSound' /\ ReaderIsSound'
  BY <1>1 DEF RInv, TablesAreSound, ReaderIsSound, Judged
<1>3. ListingIsSound' <=> ListingIsSound
  BY <1>1 DEF ListingIsSound, InPairs, Once, Foreseen, Whole, RowsAre
<1> QED BY <1>1, <1>2, <1>3 DEF RInv

\* What a request has in hand rests on what was committed when it read it.
THEOREM ReadsAreSound == ReadsSpec => []RInv
<1>1. ReadsInit => RInv
  BY InitIsSound
<1>2. RInv /\ [ReadsNext]_readsVars => RInv'
  <2> SUFFICES ASSUME RInv, [ReadsNext]_readsVars PROVE RInv'
    OBVIOUS
  <2>1. ASSUME NEW b \in Batches, Import(b) PROVE RInv'
    BY <2>1, ImportKeeps
  <2>2. ASSUME NEW r \in RowIds, Enter(r) PROVE RInv'
    BY <2>2, EnterKeeps
  <2>3. ASSUME NEW r \in RowIds, RecordSuggestion(r) \/ ConfirmLabel(r) PROVE RInv'
    BY <2>3, LabelKeeps
  <2>4. ASSUME NEW kind \in {"months", "report", "compare"}, NEW ym \in Months, Ask(kind, ym) PROVE RInv'
    BY <2>4, AskKeeps
  <2>5. CASE SelectRows
    BY <2>5, SelectRowsKeeps
  <2>6. CASE SelectWindows
    BY <2>6, SelectWindowsKeeps
  <2>7. CASE SelectDates
    BY <2>7, SelectDatesKeeps
  <2>8. CASE SelectAwaiting
    BY <2>8, SelectAwaitingKeeps
  <2>9. CASE UNCHANGED readsVars
    BY <2>9, StutterKeeps
  <2> QED BY <2>1, <2>2, <2>3, <2>4, <2>5, <2>6, <2>7, <2>8, <2>9 DEF ReadsNext, WriterStep, ReaderStep
<1> QED BY <1>1, <1>2, PTL DEF ReadsSpec

-----------------------------------------------------------------------------
(* What the invariant means *)

\* Windows are merged so that a month is called complete exactly if each of
\* its days lies in a window that a snapshot import declared (_merge_windows,
\* is_month_covered), however the windows overlap, adjoin or nest.
THEOREM CompleteIsEveryDay == ReadsSpec => []CompleteMeansEveryDay
<1>1. RInv => CompleteMeansEveryDay
  <2> SUFFICES ASSUME RInv, NEW k \in 1..Len(loaded)
               PROVE  loaded[k].complete <=>
                        \A day \in {d \in 0..(LastYear * MonthsPerYear * DaysPerMonth) :
                                      YearOf(d) = loaded[k].year /\ MonthOf(d) = loaded[k].month} :
                          \E b \in loaded[k].batches : BatchWindow[b][1] <= day /\ day <= BatchWindow[b][2]
    BY DEF CompleteMeansEveryDay
  <2> DEFINE year == loaded[k].year
             month == loaded[k].month
             windows == {BatchWindow[b] : b \in loaded[k].batches}
  <2>1. k \in DOMAIN loaded
    <3>1. \E S : loaded \in Seq(S)
      BY DEF RInv, ReaderIsSound
    <3> QED BY <3>1
  <2>2. Judged(loaded[k])
    BY <2>1 DEF RInv, ReaderIsSound
  <2>3. year \in 1..LastYear /\ month \in 1..MonthsPerYear /\ year \in Nat \ {0}
    BY <2>2, ConstantsAreNumbers DEF Judged
  <2>4. windows \in SUBSET Window
    BY <2>2, ReadsAssumption DEF Judged, Window
  <2>5. IsFiniteSet(windows)
    <3> DEFINE given == loaded[k].batches
               f == [b \in given |-> BatchWindow[b]]
    <3>1. f \in Surjection(given, windows)
      BY DEF Surjection
    <3>2. IsFiniteSet(given)
      BY <2>2 DEF Judged
    <3> HIDE DEF f, given, windows
    <3> QED BY <3>1, <3>2, FS_Surjection
  <2>6. loaded[k].complete = MonthIsCovered(year, month, windows)
    BY <2>2 DEF Judged
  <2>7. \A day \in Nat : (\E w \in windows : Holds(w, day)) <=>
                         \E b \in loaded[k].batches : BatchWindow[b][1] <= day /\ day <= BatchWindow[b][2]
    BY DEF Holds
  <2> HIDE DEF windows, year, month
  <2>8. MonthIsCovered(year, month, windows) <=>
          \A day \in Nat : YearOf(day) = year /\ MonthOf(day) = month => \E w \in windows : Holds(w, day)
    BY <2>3, <2>4, <2>5, CoveredMeansEveryDay
  <2>9. ASSUME NEW day \in Nat, YearOf(day) = year, MonthOf(day) = month
        PROVE  day \in 0..(LastYear * MonthsPerYear * DaysPerMonth)
    <3>1. FirstDay(year, month) <= day /\ day < FirstDay(year, month) + DaysPerMonth
      BY <2>3, <2>9, DayIsInMonth
    <3>2. LastDay \in Nat /\ FirstDay(year, month) + DaysPerMonth <= LastDay
      BY <2>3, MonthEndsInTime
    <3>3. FirstDay(year, month) \in Nat /\ DaysPerMonth \in Nat
      BY <2>3, MonthNumber, ConstantsAreNumbers
    <3>4. day \in 0..LastDay
      BY <3>1, <3>2, <3>3
    <3> QED BY <3>4 DEF LastDay
  <2>10. \A day \in 0..(LastYear * MonthsPerYear * DaysPerMonth) : day \in Nat
    OBVIOUS
  <2> QED BY <2>6, <2>7, <2>8, <2>9, <2>10 DEF year, month
<1> QED BY <1>1, ReadsAreSound, PTL

\* available_months reads the windows before any row, so a month that it
\* lists as complete has the rows of every import that made it so.
THEOREM ListedIsWhole == ReadsSpec => []ListedCompleteIsWhole
<1>1. RInv => ListedCompleteIsWhole
  <2> SUFFICES ASSUME RInv, query = "months", NEW k \in 1..Len(loaded)
               PROVE  HoldsItsImports(loaded[k])
    BY DEF ListedCompleteIsWhole
  <2>1. k \in DOMAIN loaded
    <3>1. \E S : loaded \in Seq(S)
      BY DEF RInv, ReaderIsSound
    <3> QED BY <3>1
  <2>2. ListingIsSound
    BY DEF RInv
  <2>3. loaded # <<>>
    <3>1. 1..Len(<<>>) = {}
      OBVIOUS
    <3> QED BY <3>1, Zenon
  <2>4. Whole
    BY <2>2, <2>3 DEF ListingIsSound
  <2>5. RowsAre(loaded[k].rows, loaded[k].year, loaded[k].month, loaded[k].batches)
    BY <2>1, <2>4 DEF Whole
  <2> QED BY <2>5 DEF HoldsItsImports, RowsAre, Dated
<1> QED BY <1>1, ReadsAreSound, PTL

\* The listing has every row that was stored when its months were found, in
\* one month and no other (_month_bounds, _months_with_rows).
THEOREM RowsAreListedOnce == ReadsSpec => []EveryRowInOneMonth
<1>1. RInv => EveryRowInOneMonth
  <2> SUFFICES ASSUME RInv, query = "months", plan = <<>>, NEW r \in seen.dated
               PROVE  Cardinality({i \in 1..Len(loaded) : r \in loaded[i].rows}) = 1
    BY DEF EveryRowInOneMonth
  <2>1. DOMAIN loaded = 1..Len(loaded)
    <3>1. \E S : loaded \in Seq(S)
      BY DEF RInv, ReaderIsSound
    <3> QED BY <3>1
  <2>2. Once /\ Foreseen /\ Whole
    BY DEF RInv, ListingIsSound
  <2>3. DOMAIN plan = {}
    <3>1. DOMAIN <<>> = {}
      OBVIOUS
    <3> QED BY <3>1, Zenon
  <2>4. PICK k \in DOMAIN loaded : Dated(r, loaded[k].year, loaded[k].month)
    BY <2>2, <2>3 DEF Foreseen
  <2>5. \A j \in DOMAIN loaded : RowsAre(loaded[j].rows, loaded[j].year, loaded[j].month, loaded[j].batches)
    BY <2>2 DEF Whole
  <2>6. r \in loaded[k].rows
    BY <2>4, <2>5 DEF RowsAre
  <2>7. ASSUME NEW j \in DOMAIN loaded, r \in loaded[j].rows PROVE j = k
    <3>1. Dated(r, loaded[j].year, loaded[j].month)
      BY <2>5, <2>7 DEF RowsAre
    <3>2. Same(loaded[j], loaded[k])
      BY <2>4, <3>1 DEF Dated, Same
    <3> QED BY <2>2, <3>2 DEF Once
  <2>8. {i \in 1..Len(loaded) : r \in loaded[i].rows} = {k}
    BY <2>1, <2>6, <2>7
  <2>9. Cardinality({k}) = 1
    BY FS_Singleton
  <2> QED BY <2>8, <2>9
<1> QED BY <1>1, ReadsAreSound, PTL

-----------------------------------------------------------------------------
(* Induction over finite sets *)

\* Induction over the subsets of a finite set, by one element more.
LEMMA SubsetInduction ==
  ASSUME NEW D, IsFiniteSet(D), NEW P, {} \in P,
         \A s \in SUBSET D : \A x \in D \ s : s \in P => s \cup {x} \in P
  PROVE  \A s \in SUBSET D : s \in P
<1> DEFINE T == {n \in Nat : \A s \in SUBSET D : Cardinality(s) = n => s \in P}
<1>1. \A s \in SUBSET D : IsFiniteSet(s) /\ Cardinality(s) \in Nat
  BY FS_Subset, FS_CardinalityType
<1>2. 0 \in T
  <2>1. \A s \in SUBSET D : Cardinality(s) = 0 => s = {}
    BY <1>1, FS_EmptySet
  <2> QED BY <2>1
<1>3. ASSUME NEW n \in Nat, n \in T PROVE n + 1 \in T
  <2> SUFFICES ASSUME NEW s \in SUBSET D, Cardinality(s) = n + 1 PROVE s \in P
    OBVIOUS
  <2>2. s # {}
    <3>1. Cardinality({}) = 0 /\ n + 1 # 0
      BY FS_EmptySet
    <3> QED BY <3>1
  <2>3. PICK x : x \in s
    BY <2>2
  <2>4. IsFiniteSet(s) /\ Cardinality(s \ {x}) = Cardinality(s) - 1
    BY <1>1, <2>3, FS_RemoveElement
  <2>5. s \ {x} \in P /\ s \ {x} \in SUBSET D /\ x \in D \ (s \ {x})
    BY <1>3, <2>3, <2>4
  <2>6. (s \ {x}) \cup {x} = s
    BY <2>3
  <2>7. (s \ {x}) \cup {x} \in P
    BY <2>5
  <2> QED BY <2>6, <2>7
<1> HIDE DEF T
<1>4. \A n \in Nat : n \in T
  BY <1>2, <1>3, NaturalInduction
<1>5. TAKE s \in SUBSET D
<1>6. Cardinality(s) \in Nat /\ Cardinality(s) \in T
  BY <1>1, <1>4
<1> QED BY <1>6 DEF T

-----------------------------------------------------------------------------
(* Sums *)

OneOf(s) == CHOOSE x \in s : TRUE

LEMMA OneOfIsIn ==
  ASSUME NEW s, s # {}
  PROVE  OneOf(s) \in s
BY DEF OneOf

\* The recursion of SumFunctionOnSet, which takes its elements in any order.
Sums(iter, f, D) ==
  iter = [s \in SUBSET D |-> IF s = {} THEN 0 ELSE f[OneOf(s)] + iter[s \ {OneOf(s)}]]

\* Sums, up to a number of elements.
SumsTo(iter, f, D, n) ==
  /\ DOMAIN iter = SUBSET D
  /\ \A s \in SUBSET D : Cardinality(s) <= n =>
       iter[s] = IF s = {} THEN 0 ELSE f[OneOf(s)] + iter[s \ {OneOf(s)}]

LEMMA SumExists ==
  ASSUME NEW D, IsFiniteSet(D), NEW f
  PROVE  \E iter : Sums(iter, f, D)
<1>1. \A s \in SUBSET D : IsFiniteSet(s) /\ Cardinality(s) \in Nat /\ Cardinality(s) <= Cardinality(D)
  BY FS_Subset, FS_CardinalityType
<1>2. \A s \in SUBSET D : s # {} =>
        OneOf(s) \in s /\ s \ {OneOf(s)} \in SUBSET D /\ Cardinality(s \ {OneOf(s)}) = Cardinality(s) - 1
  BY <1>1, OneOfIsIn, FS_RemoveElement
<1> DEFINE T == {n \in Nat : \E iter : SumsTo(iter, f, D, n)}
<1>3. 0 \in T
  <2> DEFINE g == [s \in SUBSET D |-> 0]
  <2>1. \A s \in SUBSET D : Cardinality(s) <= 0 => s = {}
    BY <1>1, FS_EmptySet
  <2>2. SumsTo(g, f, D, 0)
    BY <2>1 DEF SumsTo
  <2> QED BY <2>2
<1>4. ASSUME NEW n \in Nat, n \in T PROVE n + 1 \in T
  <2>1. PICK g : SumsTo(g, f, D, n)
    BY <1>4
  <2> DEFINE h == [s \in SUBSET D |-> IF Cardinality(s) <= n THEN g[s]
                                      ELSE f[OneOf(s)] + g[s \ {OneOf(s)}]]
  <2>2. ASSUME NEW s \in SUBSET D, Cardinality(s) <= n + 1
        PROVE  h[s] = IF s = {} THEN 0 ELSE f[OneOf(s)] + h[s \ {OneOf(s)}]
    <3>1. CASE s = {}
      <4>1. Cardinality(s) = 0
        BY <3>1, FS_EmptySet
      <4>2. h[s] = g[s]
        BY <4>1
      <4>3. g[s] = 0
        BY <2>1, <3>1, <4>1 DEF SumsTo
      <4> QED BY <3>1, <4>2, <4>3
    <3>2. CASE s # {}
      <4> DEFINE r == s \ {OneOf(s)}
      <4>1. r \in SUBSET D /\ Cardinality(r) <= n
        BY <1>1, <1>2, <2>2, <3>2
      <4>2. h[r] = g[r]
        BY <4>1
      <4>3. h[s] = f[OneOf(s)] + g[r]
        <5>1. CASE Cardinality(s) <= n
          BY <2>1, <3>2, <5>1 DEF SumsTo
        <5>2. CASE ~(Cardinality(s) <= n)
          BY <5>2
        <5> QED BY <5>1, <5>2
      <4> QED BY <3>2, <4>2, <4>3
    <3> QED BY <3>1, <3>2
  <2> HIDE DEF h
  <2>3. DOMAIN h = SUBSET D
    BY DEF h
  <2>4. SumsTo(h, f, D, n + 1)
    BY <2>2, <2>3 DEF SumsTo
  <2> QED BY <2>4
<1> HIDE DEF T
<1>5. Cardinality(D) \in T
  BY <1>1, <1>3, <1>4, NaturalInduction
<1>6. PICK g : SumsTo(g, f, D, Cardinality(D))
  BY <1>5 DEF T
<1> DEFINE k == [s \in SUBSET D |-> g[s]]
<1>7. ASSUME NEW s \in SUBSET D
      PROVE  k[s] = IF s = {} THEN 0 ELSE f[OneOf(s)] + k[s \ {OneOf(s)}]
  <2>1. s # {} => k[s \ {OneOf(s)}] = g[s \ {OneOf(s)}]
    BY <1>2
  <2>2. g[s] = IF s = {} THEN 0 ELSE f[OneOf(s)] + g[s \ {OneOf(s)}]
    BY <1>1, <1>6 DEF SumsTo
  <2> QED BY <2>1, <2>2
<1> DEFINE again == [s \in SUBSET D |-> IF s = {} THEN 0 ELSE f[OneOf(s)] + k[s \ {OneOf(s)}]]
<1>8. k = again
  <2>1. \A s \in SUBSET D : k[s] = again[s]
    <3> HIDE DEF k
    <3> QED BY <1>7
  <2> QED BY <2>1
<1>9. Sums(k, f, D)
  BY <1>8 DEF Sums
<1> QED BY <1>9

LEMMA SumUnfolds ==
  ASSUME NEW D, IsFiniteSet(D), NEW f
  PROVE  \E iter : Sums(iter, f, D) /\ SumFunctionOnSet(f, D) = iter[D]
<1> DEFINE iter == CHOOSE iter : iter = [s \in SUBSET D |->
                     IF s = {} THEN 0 ELSE f[CHOOSE x \in s : TRUE] + iter[s \ {CHOOSE x \in s : TRUE}]]
<1>1. SumFunctionOnSet(f, D) = iter[D]
  BY DEF SumFunctionOnSet, FoldFunctionOnSet, MapThenFoldSet
<1>2. iter = CHOOSE g : Sums(g, f, D)
  BY DEF Sums, OneOf
<1> HIDE DEF iter
<1>3. Sums(iter, f, D)
  BY <1>2, SumExists
<1> QED BY <1>1, <1>3

\* Two such recursions agree on the sets they share.
LEMMA SumsAgree ==
  ASSUME NEW A, NEW B, IsFiniteSet(A), A \subseteq B, NEW f, NEW g, NEW h, NEW k,
         Sums(g, f, A), Sums(h, k, B), \A x \in A : f[x] = k[x]
  PROVE  \A s \in SUBSET A : g[s] = h[s]
<1>1. \A s \in SUBSET A : g[s] = IF s = {} THEN 0 ELSE f[OneOf(s)] + g[s \ {OneOf(s)}]
  BY DEF Sums
<1>2. \A s \in SUBSET A : h[s] = IF s = {} THEN 0 ELSE k[OneOf(s)] + h[s \ {OneOf(s)}]
  <2>1. \A s \in SUBSET B : h[s] = IF s = {} THEN 0 ELSE k[OneOf(s)] + h[s \ {OneOf(s)}]
    BY DEF Sums
  <2>2. \A s \in SUBSET A : s \in SUBSET B
    OBVIOUS
  <2> QED BY <2>1, <2>2
<1>3. \A s \in SUBSET A : IsFiniteSet(s) /\ Cardinality(s) \in Nat
  BY FS_Subset, FS_CardinalityType
<1> DEFINE T == {n \in Nat : \A s \in SUBSET A : Cardinality(s) = n => g[s] = h[s]}
<1>4. 0 \in T
  <2>1. ASSUME NEW s \in SUBSET A, Cardinality(s) = 0 PROVE g[s] = h[s]
    <3>1. s = {}
      BY <1>3, <2>1, FS_EmptySet
    <3> QED BY <1>1, <1>2, <3>1
  <2> QED BY <2>1
<1>5. ASSUME NEW n \in Nat, n \in T PROVE n + 1 \in T
  <2>1. ASSUME NEW s \in SUBSET A, Cardinality(s) = n + 1 PROVE g[s] = h[s]
    <3>1. s # {}
      BY <2>1, FS_EmptySet
    <3>2. OneOf(s) \in s
      BY <3>1, OneOfIsIn
    <3>3. Cardinality(s \ {OneOf(s)}) = n /\ s \ {OneOf(s)} \in SUBSET A
      <4>1. Cardinality(s \ {OneOf(s)}) = Cardinality(s) - 1
        BY <1>3, <3>2, FS_RemoveElement
      <4> QED BY <2>1, <4>1
    <3>4. g[s \ {OneOf(s)}] = h[s \ {OneOf(s)}]
      BY <1>5, <3>3
    <3>5. f[OneOf(s)] = k[OneOf(s)]
      BY <3>2
    <3> QED BY <1>1, <1>2, <3>1, <3>4, <3>5
  <2> QED BY <2>1
<1> HIDE DEF T
<1>6. \A n \in Nat : n \in T
  BY <1>4, <1>5, NaturalInduction
<1> QED BY <1>3, <1>6 DEF T

\* A sum is of the values, taken in any order.
LEMMA SumsRemove ==
  ASSUME NEW D, IsFiniteSet(D), NEW f, \A x \in D : f[x] \in Int, NEW g, Sums(g, f, D),
         NEW whole \in SUBSET D
  PROVE  g[whole] \in Int /\ \A x \in whole : g[whole] = f[x] + g[whole \ {x}]
<1>1. \A s \in SUBSET D : g[s] = IF s = {} THEN 0 ELSE f[OneOf(s)] + g[s \ {OneOf(s)}]
  BY DEF Sums
<1>2. \A s \in SUBSET D : IsFiniteSet(s) /\ Cardinality(s) \in Nat
  BY FS_Subset, FS_CardinalityType
<1> DEFINE Good(s) == g[s] \in Int /\ \A x \in s : g[s] = f[x] + g[s \ {x}]
           T == {n \in Nat : \A s \in SUBSET D : Cardinality(s) <= n => Good(s)}
<1>3. Good({})
  <2>1. g[{}] = 0
    BY <1>1
  <2> QED BY <2>1
<1>4. 0 \in T
  <2>1. \A s \in SUBSET D : Cardinality(s) <= 0 => s = {}
    BY <1>2, FS_EmptySet
  <2> HIDE DEF Good
  <2> QED BY <1>3, <2>1
<1>5. ASSUME NEW n \in Nat, n \in T PROVE n + 1 \in T
  <2>1. ASSUME NEW s \in SUBSET D, Cardinality(s) <= n + 1, s # {} PROVE Good(s)
    <3> DEFINE o == OneOf(s)
    <3>1. o \in s
      BY <2>1, OneOfIsIn
    <3>2. ASSUME NEW x \in s PROVE Good(s \ {x})
      <4>1. Cardinality(s \ {x}) = Cardinality(s) - 1
        BY <1>2, FS_RemoveElement
      <4>2. Cardinality(s \ {x}) <= n /\ s \ {x} \in SUBSET D
        BY <1>2, <2>1, <4>1
      <4> QED BY <1>5, <4>2
    <3>3. g[s] = f[o] + g[s \ {o}] /\ f[o] \in Int /\ g[s \ {o}] \in Int
      BY <1>1, <2>1, <3>1, <3>2
    <3>4. ASSUME NEW x \in s, x # o PROVE g[s] = f[x] + g[s \ {x}]
      <4> DEFINE r == (s \ {o}) \ {x}
      <4>1. g[s \ {o}] = f[x] + g[r]
        BY <3>1, <3>2, <3>4
      <4>2. o \in s \ {x} /\ (s \ {x}) \ {o} = r
        BY <3>1, <3>4
      <4>3. g[s \ {x}] = f[o] + g[r]
        BY <3>2, <4>2
      <4>4. g[r] \in Int
        <5>1. Cardinality(s \ {x}) = Cardinality(s) - 1 /\ IsFiniteSet(s \ {x})
          BY <1>2, FS_RemoveElement
        <5>2. Cardinality((s \ {x}) \ {o}) = Cardinality(s \ {x}) - 1
          <6> HIDE DEF o, r
          <6> QED BY <4>2, <5>1, FS_RemoveElement
        <5>4. r \in SUBSET D
          OBVIOUS
        <5>5. Cardinality(r) = Cardinality(s \ {x}) - 1
          BY <4>2, <5>2, Zenon
        <5>6. Cardinality(s) \in Nat
          BY <1>2
        <5>3. Cardinality(r) <= n
          <6> HIDE DEF o, r
          <6> QED BY <2>1, <5>1, <5>5, <5>6
        <5> QED BY <1>5, <5>4, <5>3
      <4>5. f[x] \in Int
        OBVIOUS
      <4> HIDE DEF o, r
      <4> QED BY <3>3, <4>1, <4>3, <4>4, <4>5
    <3>5. g[s] \in Int
      BY <3>3
    <3> QED BY <3>3, <3>4, <3>5
  <2> HIDE DEF Good
  <2> QED BY <1>3, <2>1
<1> HIDE DEF T
<1>6. \A n \in Nat : n \in T
  BY <1>4, <1>5, NaturalInduction
<1>7. Good(whole)
  BY <1>2, <1>6 DEF T
<1> QED BY <1>7

\* What a sum is, one element at a time.
LEMMA SumOfNone ==
  ASSUME NEW f
  PROVE  SumFunctionOnSet(f, {}) = 0
<1>1. PICK g : Sums(g, f, {}) /\ SumFunctionOnSet(f, {}) = g[{}]
  BY SumUnfolds, FS_EmptySet
<1> QED BY <1>1 DEF Sums

LEMMA SumOfOneMore ==
  ASSUME NEW s, IsFiniteSet(s), NEW x, x \notin s, NEW f, \A y \in s \cup {x} : f[y] \in Int
  PROVE  SumFunctionOnSet(f, s \cup {x}) = f[x] + SumFunctionOnSet(f, s)
<1> DEFINE D == s \cup {x}
<1>1. IsFiniteSet(D)
  BY FS_AddElement
<1>2. PICK g : Sums(g, f, D) /\ SumFunctionOnSet(f, D) = g[D]
  BY <1>1, SumUnfolds
<1>3. PICK h : Sums(h, f, s) /\ SumFunctionOnSet(f, s) = h[s]
  BY SumUnfolds
<1>4. g[D] = f[x] + g[D \ {x}]
  <2>1. \A y \in D : f[y] \in Int
    OBVIOUS
  <2>2. x \in D
    OBVIOUS
  <2> HIDE DEF D
  <2>3. \A y \in D : g[D] = f[y] + g[D \ {y}]
    <3>1. IsFiniteSet(D) /\ Sums(g, f, D)
      BY <1>1, <1>2
    <3> QED BY <2>1, <3>1, SumsRemove
  <2> QED BY <2>2, <2>3
<1>5. D \ {x} = s
  OBVIOUS
<1>6. \A t \in SUBSET s : h[t] = g[t]
  <2>1. s \subseteq D /\ \A y \in s : f[y] = f[y]
    OBVIOUS
  <2> HIDE DEF D
  <2> QED BY <1>2, <1>3, <2>1, SumsAgree
<1>7. h[s] = g[s]
  BY <1>6
<1> QED BY <1>2, <1>3, <1>4, <1>5, <1>7

LEMMA SumIsWhole ==
  ASSUME NEW s, IsFiniteSet(s), NEW f, \A y \in s : f[y] \in Int
  PROVE  SumFunctionOnSet(f, s) \in Int
<1>1. PICK g : Sums(g, f, s) /\ SumFunctionOnSet(f, s) = g[s]
  BY SumUnfolds
<1>2. g[s] \in Int
  BY <1>1, SumsRemove
<1> QED BY <1>1, <1>2

\* A sum of sums.
LEMMA SumOfSums ==
  ASSUME NEW D, IsFiniteSet(D), NEW f, NEW g, NEW h,
         \A x \in D : f[x] \in Int /\ g[x] \in Int /\ h[x] = f[x] + g[x]
  PROVE  SumFunctionOnSet(h, D) = SumFunctionOnSet(f, D) + SumFunctionOnSet(g, D)
<1> DEFINE F(s) == SumFunctionOnSet(f, s)
           G(s) == SumFunctionOnSet(g, s)
           H(s) == SumFunctionOnSet(h, s)
           P == {s \in SUBSET D : H(s) = F(s) + G(s)}
<1>1. {} \in P
  BY SumOfNone
<1>2. ASSUME NEW s \in SUBSET D, NEW x \in D \ s, s \in P PROVE s \cup {x} \in P
  <2>1. IsFiniteSet(s)
    BY FS_Subset
  <2>2. F(s) \in Int /\ G(s) \in Int /\ H(s) = F(s) + G(s)
    BY <1>2, <2>1, SumIsWhole
  <2>3. F(s \cup {x}) = f[x] + F(s) /\ G(s \cup {x}) = g[x] + G(s) /\ H(s \cup {x}) = h[x] + H(s)
    <3>1. \A y \in s \cup {x} : f[y] \in Int /\ g[y] \in Int /\ h[y] \in Int
      OBVIOUS
    <3> QED BY <2>1, <3>1, SumOfOneMore
  <2>4. f[x] \in Int /\ g[x] \in Int /\ h[x] = f[x] + g[x]
    OBVIOUS
  <2> HIDE DEF F, G, H
  <2>5. H(s \cup {x}) = F(s \cup {x}) + G(s \cup {x})
    BY <2>2, <2>3, <2>4
  <2> QED BY <2>5
<1> HIDE DEF P
<1>3. D \in P
  BY <1>1, <1>2, SubsetInduction
<1> QED BY <1>3 DEF P

LEMMA SumsEqual ==
  ASSUME NEW D, IsFiniteSet(D), NEW f, NEW g, \A x \in D : f[x] = g[x]
  PROVE  SumFunctionOnSet(f, D) = SumFunctionOnSet(g, D)
<1>1. PICK h : Sums(h, f, D) /\ SumFunctionOnSet(f, D) = h[D]
  BY SumUnfolds
<1>2. PICK k : Sums(k, g, D) /\ SumFunctionOnSet(g, D) = k[D]
  BY SumUnfolds
<1>3. \A s \in SUBSET D : h[s] = k[s]
  <2>1. D \subseteq D
    OBVIOUS
  <2> QED BY <1>1, <1>2, <2>1, SumsAgree
<1> QED BY <1>1, <1>2, <1>3

\* A sum of nothing but zeros is twice itself.
LEMMA SumOfZeros ==
  ASSUME NEW D, IsFiniteSet(D), NEW f, \A x \in D : f[x] = 0
  PROVE  SumFunctionOnSet(f, D) = 0
<1>1. SumFunctionOnSet(f, D) \in Int
  BY SumIsWhole
<1>2. \A x \in D : f[x] \in Int /\ f[x] \in Int /\ f[x] = f[x] + f[x]
  OBVIOUS
<1> DEFINE whole == SumFunctionOnSet(f, D)
<1>3. whole = whole + whole /\ whole \in Int
  BY <1>1, <1>2, SumOfSums
<1> HIDE DEF whole
<1>4. whole = 0
  BY <1>3
<1> QED BY <1>4 DEF whole

\* Elements that add nothing may be left out.
LEMMA SumOnSubset ==
  ASSUME NEW D, IsFiniteSet(D), NEW A \in SUBSET D, NEW f, NEW g,
         \A x \in D : f[x] \in Int, \A x \in A : g[x] = f[x], \A x \in D \ A : f[x] = 0
  PROVE  SumFunctionOnSet(g, A) = SumFunctionOnSet(f, D)
<1> DEFINE R == D \ A
           P == {s \in SUBSET R : SumFunctionOnSet(f, A \cup s) = SumFunctionOnSet(f, A)}
<1>1. IsFiniteSet(A) /\ IsFiniteSet(R)
  BY FS_Subset
<1>2. {} \in P
  <2>1. A \cup {} = A
    OBVIOUS
  <2> QED BY <2>1
<1>3. ASSUME NEW s \in SUBSET R, NEW x \in R \ s, s \in P PROVE s \cup {x} \in P
  <2>1. IsFiniteSet(A \cup s) /\ x \notin A \cup s
    <3>1. A \cup s \in SUBSET D
      OBVIOUS
    <3> QED BY <3>1, FS_Subset
  <2>2. \A y \in (A \cup s) \cup {x} : f[y] \in Int
    OBVIOUS
  <2>3. SumFunctionOnSet(f, (A \cup s) \cup {x}) = f[x] + SumFunctionOnSet(f, A \cup s)
    BY <2>1, <2>2, SumOfOneMore
  <2>4. SumFunctionOnSet(f, A \cup s) \in Int /\ f[x] = 0
    BY <2>1, <2>2, SumIsWhole
  <2>5. (A \cup s) \cup {x} = A \cup (s \cup {x})
    OBVIOUS
  <2>6. SumFunctionOnSet(f, (A \cup s) \cup {x}) = SumFunctionOnSet(f, A \cup s)
    <3> DEFINE before == SumFunctionOnSet(f, A \cup s)
               after == SumFunctionOnSet(f, (A \cup s) \cup {x})
    <3>1. after = f[x] + before /\ before \in Int /\ f[x] = 0
      BY <2>3, <2>4
    <3> HIDE DEF before, after
    <3>2. after = before
      BY <3>1
    <3> QED BY <3>2 DEF before, after
  <2>7. SumFunctionOnSet(f, A \cup s) = SumFunctionOnSet(f, A)
    BY <1>3
  <2>8. SumFunctionOnSet(f, A \cup (s \cup {x})) = SumFunctionOnSet(f, A)
    BY <2>5, <2>6, <2>7
  <2> QED BY <2>8
<1> HIDE DEF P
<1>4. R \in P
  <2> HIDE DEF R
  <2>1. \A s \in SUBSET R : s \in P
    BY <1>1, <1>2, <1>3, SubsetInduction
  <2> QED BY <2>1
<1>5. A \cup R = D
  OBVIOUS
<1>6. SumFunctionOnSet(g, A) = SumFunctionOnSet(f, A)
  BY <1>1, SumsEqual
<1> QED BY <1>4, <1>5, <1>6 DEF P

\* What is summed is split by class, and the classes hold whatever counts.
Splits(part, class, g, S, C) ==
  /\ \A x \in S : g[x] \in Int /\ (g[x] # 0 => class[x] \in C)
  /\ \A c \in C : \A x \in S : part[c][x] = IF class[x] = c THEN g[x] ELSE 0

\* A sum may be taken class by class.
LEMMA SumByClass ==
  ASSUME NEW S, IsFiniteSet(S), NEW C, IsFiniteSet(C), NEW g, NEW class, NEW part, NEW t,
         Splits(part, class, g, S, C),
         \A c \in C : t[c] = SumFunctionOnSet(part[c], S)
  PROVE  SumFunctionOnSet(t, C) = SumFunctionOnSet(g, S)
<1> DEFINE Of(s) == [x \in S |-> IF class[x] \in s THEN g[x] ELSE 0]
           P == {s \in SUBSET C : SumFunctionOnSet(t, s) = SumFunctionOnSet(Of(s), S)}
<1>1. {} \in P
  <2>1. \A x \in S : Of({})[x] = 0
    OBVIOUS
  <2> HIDE DEF Of
  <2>2. SumFunctionOnSet(Of({}), S) = 0
    BY <2>1, SumOfZeros
  <2> QED BY <2>2, SumOfNone
<1>4. \A c \in C : t[c] \in Int
  <2> TAKE c \in C
  <2>1. \A x \in S : part[c][x] \in Int
    BY DEF Splits
  <2>2. SumFunctionOnSet(part[c], S) \in Int
    BY <2>1, SumIsWhole
  <2> QED BY <2>2
<1>5. ASSUME NEW s \in SUBSET C, NEW c \in C \ s, s \in P PROVE s \cup {c} \in P
  <2> DEFINE one == part[c]
             some == Of(s)
             more == Of(s \cup {c})
  <2>1. \A x \in S : one[x] \in Int /\ some[x] \in Int /\ more[x] = one[x] + some[x]
    BY DEF Splits
  <2>2. IsFiniteSet(s) /\ c \notin s
    BY FS_Subset
  <2>3. t[c] = SumFunctionOnSet(one, S)
    OBVIOUS
  <2>4. SumFunctionOnSet(t, s) = SumFunctionOnSet(some, S)
    BY <1>5
  <2>5. \A d \in s \cup {c} : t[d] \in Int
    BY <1>4
  <2> HIDE DEF one, some, more
  <2>6. SumFunctionOnSet(more, S) = SumFunctionOnSet(one, S) + SumFunctionOnSet(some, S)
    BY <2>1, SumOfSums
  <2>7. SumFunctionOnSet(t, s \cup {c}) = t[c] + SumFunctionOnSet(t, s)
    BY <2>2, <2>5, SumOfOneMore
  <2>8. SumFunctionOnSet(t, s \cup {c}) = SumFunctionOnSet(more, S)
    BY <2>3, <2>4, <2>6, <2>7
  <2> QED BY <2>8 DEF more
<1>6. \A x \in S : Of(C)[x] = g[x]
  BY DEF Splits
<1> HIDE DEF P
<1>7. C \in P
  <2>1. \A s \in SUBSET C : s \in P
    BY <1>1, <1>5, SubsetInduction
  <2> QED BY <2>1
<1>8. SumFunctionOnSet(t, C) = SumFunctionOnSet(Of(C), S)
  BY <1>7 DEF P
<1> HIDE DEF Of
<1>9. SumFunctionOnSet(Of(C), S) = SumFunctionOnSet(g, S)
  BY <1>6, SumsEqual
<1> QED BY <1>8, <1>9

-----------------------------------------------------------------------------
(* The tree of a month *)

IsMonth(rows) ==
  /\ IsFiniteSet(DOMAIN rows) /\ DOMAIN rows \cap Codes = {}
  /\ \A r \in DOMAIN rows :
       rows[r].amount \in Int /\ rows[r].label \in Recognised /\ rows[r].confirmed \in BOOLEAN

\* What the rows with these labels add up to.
Counted(rows, labels) == [r \in DOMAIN rows |-> IF rows[r].label \in labels THEN rows[r].amount ELSE 0]
Held(rows, labels) == SumFunctionOnSet(Counted(rows, labels), DOMAIN rows)

LEMMA HeldIsWhole ==
  ASSUME NEW rows, IsMonth(rows), NEW labels
  PROVE  Held(rows, labels) \in Int
<1>1. \A r \in DOMAIN rows : Counted(rows, labels)[r] \in Int
  BY DEF IsMonth, Counted
<1>2. IsFiniteSet(DOMAIN rows)
  BY DEF IsMonth
<1> QED BY <1>1, <1>2, SumIsWhole DEF Held

LEMMA LeafIsSound ==
  ASSUME NEW row
  PROVE  /\ Leaf(row).amount = row.amount /\ Leaf(row).ok
         /\ DOMAIN Leaf(row).children = {}
         /\ Leaf(row).evidence = IF Confirmed(row) THEN "USER_CONFIRMED" ELSE "ASSUMED"
<1>1. DOMAIN << >> = {}
  OBVIOUS
<1> QED BY <1>1 DEF Leaf, Node

LEMMA GroupIsSound ==
  ASSUME NEW nodes, \A k \in DOMAIN nodes : nodes[k].ok
  PROVE  /\ Group(nodes).amount = Total(nodes) /\ Group(nodes).ok
         /\ Group(nodes).children = nodes
         /\ Group(nodes).evidence = Weakest(EvidenceOf(nodes))
BY DEF Group, Node

LEMMA TotalIsASum ==
  ASSUME NEW items
  PROVE  Total(items) = SumFunctionOnSet([k \in DOMAIN items |-> items[k].amount], DOMAIN items)
BY DEF Total, SumFunction

LEMMA GroupUnderAdds ==
  ASSUME NEW rows, IsMonth(rows), NEW labels
  PROVE  /\ GroupUnder(rows, labels).amount = Held(rows, labels)
         /\ GroupUnder(rows, labels).ok
         /\ GroupUnder(rows, labels).children = [r \in Labelled(rows, labels) |-> Leaf(rows[r])]
<1> DEFINE S == DOMAIN rows
           A == Labelled(rows, labels)
           leaves == [r \in A |-> Leaf(rows[r])]
           amounts == [r \in A |-> leaves[r].amount]
<1>1. \A r \in DOMAIN leaves : leaves[r].ok
  BY LeafIsSound
<1>2. /\ GroupUnder(rows, labels).amount = Total(leaves)
      /\ GroupUnder(rows, labels).ok /\ GroupUnder(rows, labels).children = leaves
  <2>1. GroupUnder(rows, labels) = Group(leaves)
    BY DEF GroupUnder
  <2> HIDE DEF leaves
  <2> QED BY <1>1, <2>1, GroupIsSound
<1>3. Total(leaves) = SumFunctionOnSet(amounts, A)
  BY TotalIsASum
<1>4. \A r \in A : amounts[r] = Counted(rows, labels)[r]
  BY LeafIsSound DEF Labelled, Counted
<1>5. \A r \in S \ A : Counted(rows, labels)[r] = 0
  BY DEF Labelled, Counted
<1>6. \A r \in S : Counted(rows, labels)[r] \in Int
  BY DEF Counted, IsMonth
<1>7. IsFiniteSet(S) /\ A \in SUBSET S
  BY DEF IsMonth, Labelled
<1>8. SumFunctionOnSet(amounts, A) = SumFunctionOnSet(Counted(rows, labels), S)
  <2> HIDE DEF amounts, A, S
  <2> QED BY <1>4, <1>5, <1>6, <1>7, SumOnSubset
<1> QED BY <1>2, <1>3, <1>8 DEF Held

\* Each of these labels has one code.
Codifies(labelOf, labels) ==
  /\ IsFiniteSet(DOMAIN labelOf)
  /\ \A c, d \in DOMAIN labelOf : labelOf[c] = labelOf[d] => c = d
  /\ \A c \in DOMAIN labelOf : labelOf[c] \in labels
  /\ \A label \in labels : \E c \in DOMAIN labelOf : labelOf[c] = label

\* A branch with one group for each label of some: groups without rows are left
\* out of it, and add nothing.
LEMMA DetailedAdds ==
  ASSUME NEW rows, IsMonth(rows), NEW labelOf, NEW labels, Codifies(labelOf, labels)
  PROVE  /\ Detailed(rows, labelOf).amount = Held(rows, labels)
         /\ Detailed(rows, labelOf).ok
         /\ Detailed(rows, labelOf).children =
              [c \in {d \in DOMAIN labelOf : Labelled(rows, {labelOf[d]}) # {}} |-> GroupUnder(rows, {labelOf[c]})]
<1> DEFINE S == DOMAIN rows
           C == DOMAIN labelOf
           groups == [c \in C |-> GroupUnder(rows, {labelOf[c]})]
           kept == {c \in C : Labelled(rows, {labelOf[c]}) # {}}
           nodes == [c \in kept |-> GroupUnder(rows, {labelOf[c]})]
           amounts == [c \in kept |-> nodes[c].amount]
           all == [c \in C |-> groups[c].amount]
           class == [r \in S |-> CHOOSE c \in C : labelOf[c] = rows[r].label]
           g == Counted(rows, labels)
           part == [c \in C |-> Counted(rows, {labelOf[c]})]
<1>1. \A c \in C : /\ groups[c].amount = Held(rows, {labelOf[c]}) /\ groups[c].ok
                   /\ DOMAIN groups[c].children = Labelled(rows, {labelOf[c]})
  <2> TAKE c \in C
  <2>1. /\ GroupUnder(rows, {labelOf[c]}).amount = Held(rows, {labelOf[c]})
        /\ GroupUnder(rows, {labelOf[c]}).ok
        /\ GroupUnder(rows, {labelOf[c]}).children = [r \in Labelled(rows, {labelOf[c]}) |-> Leaf(rows[r])]
    BY GroupUnderAdds
  <2>2. groups[c] = GroupUnder(rows, {labelOf[c]})
    OBVIOUS
  <2> HIDE DEF groups
  <2> QED BY <2>1, <2>2
<1>2. NonEmpty(groups) = nodes
  <2>1. {c \in DOMAIN groups : DOMAIN groups[c].children # {}} = kept
    BY <1>1
  <2>2. NonEmpty(groups) = [c \in kept |-> groups[c]]
    BY <2>1 DEF NonEmpty, Restrict
  <2> QED BY <2>2
<1>3. /\ Detailed(rows, labelOf).amount = Total(nodes)
      /\ Detailed(rows, labelOf).ok /\ Detailed(rows, labelOf).children = nodes
  <2>1. Detailed(rows, labelOf) = Group(nodes)
    BY <1>2 DEF Detailed
  <2>2. \A c \in DOMAIN nodes : nodes[c].ok
    BY <1>1
  <2> HIDE DEF nodes
  <2> QED BY <2>1, <2>2, GroupIsSound
<1>4. Total(nodes) = SumFunctionOnSet(amounts, kept)
  BY TotalIsASum
<1>5. \A c \in C : all[c] \in Int
  BY <1>1, HeldIsWhole
<1>6. \A c \in kept : amounts[c] = all[c]
  OBVIOUS
<1>7. ASSUME NEW c \in C \ kept PROVE all[c] = 0
  <2>1. Labelled(rows, {labelOf[c]}) = {}
    OBVIOUS
  <2>2. \A r \in S : Counted(rows, {labelOf[c]})[r] = 0
    BY <2>1 DEF Labelled, Counted
  <2>3. Held(rows, {labelOf[c]}) = 0
    BY <2>2, SumOfZeros DEF Held, IsMonth
  <2> QED BY <1>1, <2>3
<1>8. SumFunctionOnSet(amounts, kept) = SumFunctionOnSet(all, C)
  <2>1. kept \in SUBSET C /\ IsFiniteSet(C)
    BY DEF Codifies
  <2> HIDE DEF amounts, kept, all, C
  <2> QED BY <1>5, <1>6, <1>7, <2>1, SumOnSubset
<1>9. \A r \in S : g[r] \in Int /\ (g[r] # 0 => class[r] \in C)
  BY DEF Counted, IsMonth, Codifies
<1>10. ASSUME NEW c \in C, NEW r \in S
       PROVE  part[c][r] = IF class[r] = c THEN g[r] ELSE 0
  <2>1. part[c][r] = IF rows[r].label = labelOf[c] THEN rows[r].amount ELSE 0
    BY DEF Counted
  <2>2. g[r] = IF rows[r].label \in labels THEN rows[r].amount ELSE 0
    BY DEF Counted
  <2>3. rows[r].label \in labels => class[r] \in C /\ labelOf[class[r]] = rows[r].label
    BY DEF Codifies
  <2>4. rows[r].label = labelOf[c] => rows[r].label \in labels
    BY DEF Codifies
  <2>5. \A d \in C : labelOf[d] = labelOf[c] => d = c
    BY DEF Codifies
  <2> HIDE DEF part, class, g, C, S
  <2> QED BY <2>1, <2>2, <2>3, <2>4, <2>5
<1>11. \A c \in C : all[c] = SumFunctionOnSet(part[c], S)
  BY <1>1 DEF Held
<1>12. SumFunctionOnSet(all, C) = SumFunctionOnSet(g, S)
  <2>1. IsFiniteSet(S) /\ IsFiniteSet(C)
    BY DEF IsMonth, Codifies
  <2>2. Splits(part, class, g, S, C)
    <3> HIDE DEF g, class, C, S, part
    <3> QED BY <1>9, <1>10 DEF Splits
  <2> HIDE DEF all, g, class, C, S, part
  <2> QED BY <1>11, <2>1, <2>2, SumByClass
<1> QED BY <1>3, <1>4, <1>8, <1>12 DEF Held

\* The labels of a branch, and the branch of a label.
LabelsOf(code) ==
  CASE code = "income" -> {"INCOME"}
    [] code = "spending" -> SpendingLabels
    [] code = "refunds" -> {"REFUND"}
    [] code = "transfers" -> {"TRANSFER"}
    [] code = "unclassified" -> {NoLabel, Abstain}

BranchFor(label) ==
  IF label = "INCOME" THEN "income"
  ELSE IF label = "REFUND" THEN "refunds"
  ELSE IF label = "TRANSFER" THEN "transfers"
  ELSE IF label \in {NoLabel, Abstain} THEN "unclassified" ELSE "spending"

LEMMA LabelsHaveOneBranch ==
  ASSUME NEW label \in Recognised
  PROVE  /\ BranchFor(label) \in BranchCodes
         /\ \A code \in BranchCodes : label \in LabelsOf(code) <=> BranchFor(label) = code
<1>1. label \in SpendingLabels \/ label \in {"INCOME", "REFUND", "TRANSFER", NoLabel, Abstain}
  BY DEF Recognised, Kinds
<1>2. label \in SpendingLabels => label \notin {"INCOME", "REFUND", "TRANSFER", NoLabel, Abstain}
  BY SpendingAssumption DEF Kinds
<1> QED BY <1>1, <1>2 DEF BranchFor, LabelsOf, BranchCodes, NoLabel, Abstain

LEMMA CategoriesCodify ==
  DOMAIN Categories = SpendingLabels /\ Codifies(Categories, SpendingLabels)
BY SpendingAssumption DEF Categories, Codifies

LEMMA ReasonsCodify ==
  DOMAIN Reasons = {"never_examined", "examined_no_answer"} /\ Codifies(Reasons, {NoLabel, Abstain})
<1>1. DOMAIN Reasons = {"never_examined", "examined_no_answer"}
  BY DEF Reasons
<1>2. IsFiniteSet({"never_examined", "examined_no_answer"})
  <2>1. IsFiniteSet({"never_examined"})
    BY FS_Singleton
  <2>2. IsFiniteSet({"never_examined"} \cup {"examined_no_answer"})
    BY <2>1, FS_AddElement
  <2>3. {"never_examined"} \cup {"examined_no_answer"} = {"never_examined", "examined_no_answer"}
    OBVIOUS
  <2> QED BY <2>2, <2>3
<1>3. Reasons["never_examined"] = NoLabel /\ Reasons["examined_no_answer"] = Abstain
  BY DEF Reasons
<1>4. NoLabel # Abstain
  BY DEF NoLabel, Abstain
<1> QED BY <1>1, <1>2, <1>3, <1>4 DEF Codifies

LEMMA BranchAdds ==
  ASSUME NEW rows, IsMonth(rows), NEW code \in BranchCodes
  PROVE  Branch(rows, code).amount = Held(rows, LabelsOf(code)) /\ Branch(rows, code).ok
<1>1. \A labels : /\ GroupUnder(rows, labels).amount = Held(rows, labels)
                  /\ GroupUnder(rows, labels).ok
  BY GroupUnderAdds
<1>2. /\ Detailed(rows, Categories).amount = Held(rows, SpendingLabels)
      /\ Detailed(rows, Categories).ok
  BY CategoriesCodify, DetailedAdds
<1>3. /\ Detailed(rows, Reasons).amount = Held(rows, {NoLabel, Abstain})
      /\ Detailed(rows, Reasons).ok
  BY ReasonsCodify, DetailedAdds
<1>4. \/ code = "income" /\ Branch(rows, code) = GroupUnder(rows, {"INCOME"}) /\ LabelsOf(code) = {"INCOME"}
      \/ code = "spending" /\ Branch(rows, code) = Detailed(rows, Categories) /\ LabelsOf(code) = SpendingLabels
      \/ code = "refunds" /\ Branch(rows, code) = GroupUnder(rows, {"REFUND"}) /\ LabelsOf(code) = {"REFUND"}
      \/ code = "transfers" /\ Branch(rows, code) = GroupUnder(rows, {"TRANSFER"}) /\ LabelsOf(code) = {"TRANSFER"}
      \/ code = "unclassified" /\ Branch(rows, code) = Detailed(rows, Reasons) /\ LabelsOf(code) = {NoLabel, Abstain}
  BY DEF Branch, LabelsOf, BranchCodes
<1> QED BY <1>1, <1>2, <1>3, <1>4

\* The branches add up to the rows, which is what the root demands of them.
LEMMA BranchesAdd ==
  ASSUME NEW rows, IsMonth(rows)
  PROVE  Total(Branches(rows)) = Total(rows)
<1> DEFINE S == DOMAIN rows
           g == [r \in S |-> rows[r].amount]
           class == [r \in S |-> BranchFor(rows[r].label)]
           part == [code \in BranchCodes |-> Counted(rows, LabelsOf(code))]
           t == [code \in BranchCodes |-> Branch(rows, code).amount]
<1>1. \A r \in S : g[r] \in Int /\ class[r] \in BranchCodes
  BY LabelsHaveOneBranch DEF IsMonth
<1>2. ASSUME NEW code \in BranchCodes, NEW r \in S
      PROVE  part[code][r] = IF class[r] = code THEN g[r] ELSE 0
  <2>1. rows[r].label \in LabelsOf(code) <=> BranchFor(rows[r].label) = code
    BY LabelsHaveOneBranch DEF IsMonth
  <2>2. part[code][r] = IF rows[r].label \in LabelsOf(code) THEN rows[r].amount ELSE 0
    BY DEF Counted
  <2> QED BY <2>1, <2>2
<1>3. Splits(part, class, g, S, BranchCodes)
  <2> HIDE DEF part, class, g, S
  <2> QED BY <1>1, <1>2 DEF Splits
<1>4. \A code \in BranchCodes : t[code] = SumFunctionOnSet(part[code], S)
  BY BranchAdds DEF Held
<1>5. IsFiniteSet(S) /\ IsFiniteSet(BranchCodes)
  <2> DEFINE two == {"income", "spending"}
             three == two \cup {"refunds"}
             four == three \cup {"transfers"}
  <2>1. IsFiniteSet({"income"}) /\ two = {"income"} \cup {"spending"}
    BY FS_Singleton
  <2>2. IsFiniteSet(two)
    BY <2>1, FS_AddElement
  <2>3. IsFiniteSet(three)
    BY <2>2, FS_AddElement
  <2>4. IsFiniteSet(four)
    BY <2>3, FS_AddElement
  <2>5. BranchCodes = four \cup {"unclassified"}
    BY DEF BranchCodes
  <2>6. IsFiniteSet(four \cup {"unclassified"})
    BY <2>4, FS_AddElement
  <2> QED BY <2>5, <2>6 DEF IsMonth
<1>6. SumFunctionOnSet(t, BranchCodes) = SumFunctionOnSet(g, S)
  <2> HIDE DEF part, class, g, S, t
  <2> QED BY <1>3, <1>4, <1>5, SumByClass
<1>7. Total(rows) = SumFunctionOnSet(g, S)
  BY TotalIsASum
<1>8. Total(Branches(rows)) = SumFunctionOnSet(t, BranchCodes)
  <2>1. DOMAIN Branches(rows) = BranchCodes
    BY DEF Branches
  <2>2. [code \in BranchCodes |-> Branches(rows)[code].amount] = t
    BY DEF Branches
  <2> QED BY <2>1, <2>2, TotalIsASum
<1> QED BY <1>6, <1>7, <1>8

LEMMA RootIsSound ==
  ASSUME NEW rows, IsMonth(rows)
  PROVE  /\ BuildMonthlyReport(rows).ok
         /\ BuildMonthlyReport(rows).children = Branches(rows)
         /\ BuildMonthlyReport(rows).evidence = RootEvidence(Branches(rows))
<1> DEFINE root == Node(Total(rows), RootEvidence(Branches(rows)), Branches(rows))
<1>1. \A code \in DOMAIN Branches(rows) : Branches(rows)[code].ok
  BY BranchAdds DEF Branches
<1>2. root.ok /\ root.children = Branches(rows) /\ root.evidence = RootEvidence(Branches(rows))
  BY <1>1, BranchesAdd DEF Node
<1>3. \A r \in DOMAIN rows : rows[r].label \in Recognised
  BY DEF IsMonth
<1>4. BuildMonthlyReport(rows) = [root EXCEPT !.ok = @ /\ \A r \in DOMAIN rows : rows[r].label \in Recognised]
  BY DEF BuildMonthlyReport
<1>5. root = [amount |-> root.amount, evidence |-> root.evidence, children |-> root.children, ok |-> root.ok]
  BY DEF Node
<1> HIDE DEF root
<1> QED BY <1>2, <1>3, <1>4, <1>5

-----------------------------------------------------------------------------
(* What a branch rests on *)

LEMMA WeakestOfTwo ==
  ASSUME NEW E, \A x \in E : x = "ASSUMED" \/ x = "USER_CONFIRMED"
  PROVE  Weakest(E) = IF E # {} /\ (\A x \in E : x = "USER_CONFIRMED") THEN "USER_CONFIRMED" ELSE "ASSUMED"
<1> DEFINE First(i) == Levels[i] \in E /\ \A j \in 1..(i - 1) : Levels[j] \notin E
           one == CHOOSE i \in 1..4 : First(i)
<1>1. Levels[1] = "ASSUMED" /\ Levels[2] = "DERIVED" /\ Levels[3] = "USER_CONFIRMED" /\ Levels[4] = "SOURCED"
  BY DEF Levels
<1>2. E # {} => Weakest(E) = Levels[one]
  BY DEF Weakest
<1>3. E = {} => Weakest(E) = "ASSUMED"
  BY DEF Weakest
<1>4. \A i \in 1..4 : First(i) => i = 1 \/ i = 3
  BY <1>1
<1>5. CASE "ASSUMED" \in E
  <2>1. First(1) /\ \A i \in 1..4 : First(i) => i = 1
    BY <1>1, <1>5
  <2> HIDE DEF First
  <2>2. one = 1
    BY <2>1
  <2> QED BY <1>1, <1>2, <1>5, <2>2
<1>6. CASE "ASSUMED" \notin E /\ E # {}
  <2>1. "USER_CONFIRMED" \in E /\ \A x \in E : x = "USER_CONFIRMED"
    BY <1>6
  <2>2. First(3) /\ \A i \in 1..4 : First(i) => i = 3
    <3>1. \A j \in 1..(3 - 1) : j = 1 \/ j = 2
      OBVIOUS
    <3>2. First(3)
      BY <1>1, <2>1, <3>1
    <3>3. ~First(1)
      BY <1>1, <1>6
    <3> HIDE DEF First
    <3> QED BY <1>4, <3>2, <3>3
  <2> HIDE DEF First
  <2>3. one = 3
    BY <2>2
  <2> QED BY <1>1, <1>2, <2>1, <2>3
<1> QED BY <1>3, <1>5, <1>6

\* What honest evidence is for the rows with these labels.
Backed(rows, labels) == Labelled(rows, labels) # {} /\ \A r \in Labelled(rows, labels) : Confirmed(rows[r])
Sureness(rows, labels) == IF Backed(rows, labels) THEN "USER_CONFIRMED" ELSE "ASSUMED"

LEMMA GroupIsHonest ==
  ASSUME NEW rows, NEW labels
  PROVE  GroupUnder(rows, labels).evidence = Sureness(rows, labels)
<1> DEFINE A == Labelled(rows, labels)
           leaves == [r \in A |-> Leaf(rows[r])]
           E == EvidenceOf(leaves)
<1>1. GroupUnder(rows, labels).evidence = Weakest(E)
  BY DEF GroupUnder, Group, Node
<1>2. \A r \in A : leaves[r].evidence = IF Confirmed(rows[r]) THEN "USER_CONFIRMED" ELSE "ASSUMED"
  BY LeafIsSound
<1>3. DOMAIN leaves = A
  OBVIOUS
<1>4. \A x : x \in E <=> \E r \in A : x = IF Confirmed(rows[r]) THEN "USER_CONFIRMED" ELSE "ASSUMED"
  <2> HIDE DEF leaves, A
  <2> QED BY <1>2, <1>3 DEF EvidenceOf
<1> HIDE DEF E, A, leaves
<1>5. Weakest(E) = IF E # {} /\ (\A x \in E : x = "USER_CONFIRMED") THEN "USER_CONFIRMED" ELSE "ASSUMED"
  BY <1>4, WeakestOfTwo
<1>6. (E # {} /\ (\A x \in E : x = "USER_CONFIRMED")) <=> Backed(rows, labels)
  BY <1>4 DEF A, Backed
<1> QED BY <1>1, <1>5, <1>6 DEF Sureness

\* The rows with these labels in several groups, none of them empty, and what
\* the groups rest on.
Groups(E, K, parts, rows, labels) ==
  /\ \A x : x \in E <=> \E k \in K : x = Sureness(rows, parts[k])
  /\ \A k \in K : Labelled(rows, parts[k]) # {}
  /\ \A r : r \in Labelled(rows, labels) <=> \E k \in K : r \in Labelled(rows, parts[k])

\* Rows are as sure as their groups.
LEMMA WeakestOfGroups ==
  ASSUME NEW rows, NEW labels, NEW K, NEW parts, NEW E, Groups(E, K, parts, rows, labels)
  PROVE  Weakest(E) = Sureness(rows, labels)
<1>1. Weakest(E) = IF E # {} /\ (\A x \in E : x = "USER_CONFIRMED") THEN "USER_CONFIRMED" ELSE "ASSUMED"
  BY WeakestOfTwo DEF Sureness, Groups
<1>2. (E # {} /\ (\A x \in E : x = "USER_CONFIRMED")) <=> Backed(rows, labels)
  <2>1. (E # {} /\ (\A x \in E : x = "USER_CONFIRMED")) <=> K # {} /\ \A k \in K : Backed(rows, parts[k])
    BY DEF Sureness, Groups
  <2>2. (K # {} /\ \A k \in K : Backed(rows, parts[k])) <=> Backed(rows, labels)
    BY DEF Backed, Groups
  <2> QED BY <2>1, <2>2
<1> QED BY <1>1, <1>2 DEF Sureness

LEMMA DetailedIsHonest ==
  ASSUME NEW rows, IsMonth(rows), NEW labelOf, NEW labels, Codifies(labelOf, labels)
  PROVE  /\ Detailed(rows, labelOf).evidence = Sureness(rows, labels)
         /\ DOMAIN Detailed(rows, labelOf).children # {} <=> Labelled(rows, labels) # {}
<1> DEFINE kept == {d \in DOMAIN labelOf : Labelled(rows, {labelOf[d]}) # {}}
           nodes == [c \in kept |-> GroupUnder(rows, {labelOf[c]})]
           parts == [c \in kept |-> {labelOf[c]}]
           E == EvidenceOf(nodes)
<1>1. Detailed(rows, labelOf).children = nodes
  BY DetailedAdds
<1>2. Detailed(rows, labelOf).evidence = Weakest(E)
  <2>1. Detailed(rows, labelOf).evidence = Weakest(EvidenceOf(Detailed(rows, labelOf).children))
    BY DEF Detailed, Group, Node
  <2> QED BY <1>1, <2>1
<1>3. \A c \in kept : nodes[c].evidence = Sureness(rows, parts[c])
  BY GroupIsHonest
<1>4. \A c \in kept : Labelled(rows, parts[c]) # {}
  OBVIOUS
<1>5. \A r : r \in Labelled(rows, labels) <=> \E c \in kept : r \in Labelled(rows, parts[c])
  <2>1. \A r : r \in Labelled(rows, labels) <=> \E c \in DOMAIN labelOf : r \in Labelled(rows, {labelOf[c]})
    BY DEF Codifies, Labelled
  <2> QED BY <2>1
<1>6. DOMAIN nodes = kept
  OBVIOUS
<1> HIDE DEF kept, nodes, parts
<1>7. \A x : x \in E <=> \E c \in kept : x = Sureness(rows, parts[c])
  BY <1>3, <1>6 DEF EvidenceOf
<1> HIDE DEF E
<1>8. Weakest(E) = Sureness(rows, labels)
  <2>1. Groups(E, kept, parts, rows, labels)
    BY <1>4, <1>5, <1>7 DEF Groups
  <2> QED BY <2>1, WeakestOfGroups
<1> QED BY <1>1, <1>2, <1>4, <1>5, <1>6, <1>8

LEMMA BranchIsHonest ==
  ASSUME NEW rows, IsMonth(rows), NEW code \in BranchCodes
  PROVE  /\ Branch(rows, code).evidence = Sureness(rows, LabelsOf(code))
         /\ DOMAIN Branch(rows, code).children # {} <=> Labelled(rows, LabelsOf(code)) # {}
<1>1. \A labels : /\ GroupUnder(rows, labels).evidence = Sureness(rows, labels)
                  /\ DOMAIN GroupUnder(rows, labels).children # {} <=> Labelled(rows, labels) # {}
  <2> TAKE labels
  <2>1. GroupUnder(rows, labels).children = [r \in Labelled(rows, labels) |-> Leaf(rows[r])]
    BY GroupUnderAdds
  <2> QED BY <2>1, GroupIsHonest
<1>2. /\ Detailed(rows, Categories).evidence = Sureness(rows, SpendingLabels)
      /\ DOMAIN Detailed(rows, Categories).children # {} <=> Labelled(rows, SpendingLabels) # {}
  BY CategoriesCodify, DetailedIsHonest
<1>3. /\ Detailed(rows, Reasons).evidence = Sureness(rows, {NoLabel, Abstain})
      /\ DOMAIN Detailed(rows, Reasons).children # {} <=> Labelled(rows, {NoLabel, Abstain}) # {}
  BY ReasonsCodify, DetailedIsHonest
<1>4. \/ code = "income" /\ Branch(rows, code) = GroupUnder(rows, {"INCOME"}) /\ LabelsOf(code) = {"INCOME"}
      \/ code = "spending" /\ Branch(rows, code) = Detailed(rows, Categories) /\ LabelsOf(code) = SpendingLabels
      \/ code = "refunds" /\ Branch(rows, code) = GroupUnder(rows, {"REFUND"}) /\ LabelsOf(code) = {"REFUND"}
      \/ code = "transfers" /\ Branch(rows, code) = GroupUnder(rows, {"TRANSFER"}) /\ LabelsOf(code) = {"TRANSFER"}
      \/ code = "unclassified" /\ Branch(rows, code) = Detailed(rows, Reasons) /\ LabelsOf(code) = {NoLabel, Abstain}
  BY DEF Branch, LabelsOf, BranchCodes
<1> QED BY <1>1, <1>2, <1>3, <1>4

\* A month claims confirmation exactly if a person confirmed every row of it.
LEMMA EvidenceHolds ==
  ASSUME NEW rows, IsMonth(rows)
  PROVE  EvidenceIsHonestFor(rows)
<1> DEFINE branches == Branches(rows)
           kept == {code \in BranchCodes : Labelled(rows, LabelsOf(code)) # {}}
           nodes == NonEmpty(branches)
           parts == [code \in BranchCodes |-> LabelsOf(code)]
           E == EvidenceOf(nodes)
<1>1. BuildMonthlyReport(rows).evidence = Weakest(E)
  BY RootIsSound DEF RootEvidence
<1>2. \A code \in BranchCodes : branches[code] = Branch(rows, code)
  BY DEF Branches
<1>3. DOMAIN nodes = kept /\ \A code \in kept : nodes[code] = Branch(rows, code)
  <2>1. {k \in DOMAIN branches : DOMAIN branches[k].children # {}} = kept
    BY BranchIsHonest DEF Branches
  <2>2. nodes = [code \in kept |-> branches[code]]
    BY <2>1 DEF NonEmpty, Restrict
  <2> HIDE DEF branches
  <2> QED BY <1>2, <2>2
<1>4. \A code \in kept : nodes[code].evidence = Sureness(rows, parts[code])
  BY <1>3, BranchIsHonest
<1>5. \A code \in kept : Labelled(rows, parts[code]) # {}
  OBVIOUS
<1>6. Labelled(rows, Recognised) = DOMAIN rows
  BY DEF Labelled, IsMonth
<1>7. \A r : r \in Labelled(rows, Recognised) <=> \E code \in kept : r \in Labelled(rows, parts[code])
  <2>1. ASSUME NEW r \in DOMAIN rows PROVE \E code \in BranchCodes : r \in Labelled(rows, LabelsOf(code))
    <3>1. rows[r].label \in Recognised
      BY DEF IsMonth
    <3>2. BranchFor(rows[r].label) \in BranchCodes /\ rows[r].label \in LabelsOf(BranchFor(rows[r].label))
      BY <3>1, LabelsHaveOneBranch
    <3> QED BY <3>2 DEF Labelled
  <2>2. \A labels : Labelled(rows, labels) \subseteq DOMAIN rows
    BY DEF Labelled
  <2> QED BY <1>6, <2>1, <2>2
<1>8. kept \subseteq BranchCodes
  OBVIOUS
<1> HIDE DEF kept, nodes, parts
<1>9. \A x : x \in E <=> \E code \in kept : x = Sureness(rows, parts[code])
  BY <1>3, <1>4 DEF EvidenceOf
<1> HIDE DEF E
<1>10. Weakest(E) = Sureness(rows, Recognised)
  <2>1. Groups(E, kept, parts, rows, Recognised)
    BY <1>5, <1>7, <1>9 DEF Groups
  <2> QED BY <2>1, WeakestOfGroups
<1>11. "USER_CONFIRMED" # "ASSUMED"
  OBVIOUS
<1> QED BY <1>1, <1>6, <1>10, <1>11 DEF EvidenceIsHonestFor, Sureness, Backed

-----------------------------------------------------------------------------
(* Walking the tree *)

LEMMA BelowIs ==
  ASSUME NEW places, NEW x
  PROVE  x \in Below(places) <=>
           \E p \in places : \E k \in DOMAIN p.node.children :
             x = [path |-> Append(p.path, k), node |-> p.node.children[k]]
<1> DEFINE F(p) == {[path |-> Append(p.path, k), node |-> p.node.children[k]] : k \in DOMAIN p.node.children}
<1>1. Below(places) = UNION {F(p) : p \in places}
  BY DEF Below
<1>2. \A p : x \in F(p) <=> \E k \in DOMAIN p.node.children :
                              x = [path |-> Append(p.path, k), node |-> p.node.children[k]]
  OBVIOUS
<1> HIDE DEF F
<1>3. x \in Below(places) <=> \E p \in places : x \in F(p)
  BY <1>1
<1> QED BY <1>2, <1>3

\* The places below one node are its children, with their codes.
Under(path, node) ==
  {[path |-> Append(path, k), node |-> node.children[k]] : k \in DOMAIN node.children}

LEMMA UnderIs ==
  ASSUME NEW path, NEW node, NEW x
  PROVE  x \in Under(path, node) <=>
           \E k \in DOMAIN node.children : x = [path |-> Append(path, k), node |-> node.children[k]]
BY DEF Under

LEMMA BelowIsUnder ==
  ASSUME NEW places, NEW x
  PROVE  x \in Below(places) <=> \E p \in places : x \in Under(p.path, p.node)
BY BelowIs, UnderIs

\* Nothing is below a row.
LEMMA NothingUnderLeaf ==
  ASSUME NEW path, NEW row, NEW x
  PROVE  x \notin Under(path, Leaf(row))
BY LeafIsSound, UnderIs

\* Where a row is, below a group that holds it.
Place(path, rows, r) == [path |-> Append(path, r), node |-> Leaf(rows[r])]

IsRowBelow(x, path, rows, labels) == \E r \in Labelled(rows, labels) : x = Place(path, rows, r)

LEMMA UnderGroup ==
  ASSUME NEW rows, IsMonth(rows), NEW labels, NEW path, NEW x
  PROVE  x \in Under(path, GroupUnder(rows, labels)) <=> IsRowBelow(x, path, rows, labels)
<1> DEFINE A == Labelled(rows, labels)
           leaves == [r \in A |-> Leaf(rows[r])]
<1>1. GroupUnder(rows, labels).children = leaves
  BY GroupUnderAdds
<1>2. DOMAIN leaves = A /\ \A r \in A : leaves[r] = Leaf(rows[r])
  OBVIOUS
<1> HIDE DEF A, leaves
<1>3. x \in Under(path, GroupUnder(rows, labels)) <=>
        \E r \in A : x = [path |-> Append(path, r), node |-> leaves[r]]
  BY <1>1, <1>2, UnderIs
<1> QED BY <1>2, <1>3 DEF IsRowBelow, Place, A

\* Where the group of a label is, below a branch with groups.
GroupPlace(path, rows, labelOf, c) == [path |-> Append(path, c), node |-> GroupUnder(rows, {labelOf[c]})]
IsGroupBelow(x, path, rows, labelOf) ==
  \E c \in DOMAIN labelOf : Labelled(rows, {labelOf[c]}) # {} /\ x = GroupPlace(path, rows, labelOf, c)

LEMMA UnderDetailed ==
  ASSUME NEW rows, IsMonth(rows), NEW labelOf, NEW labels, Codifies(labelOf, labels), NEW path, NEW x
  PROVE  x \in Under(path, Detailed(rows, labelOf)) <=> IsGroupBelow(x, path, rows, labelOf)
<1> DEFINE kept == {d \in DOMAIN labelOf : Labelled(rows, {labelOf[d]}) # {}}
           nodes == [c \in kept |-> GroupUnder(rows, {labelOf[c]})]
<1>1. Detailed(rows, labelOf).children = nodes
  BY DetailedAdds
<1>2. DOMAIN nodes = kept /\ \A c \in kept : nodes[c] = GroupUnder(rows, {labelOf[c]})
  OBVIOUS
<1> HIDE DEF kept, nodes
<1>3. x \in Under(path, Detailed(rows, labelOf)) <=>
        \E c \in kept : x = [path |-> Append(path, c), node |-> nodes[c]]
  BY <1>1, <1>2, UnderIs
<1> QED BY <1>2, <1>3 DEF kept, IsGroupBelow, GroupPlace

LEMMA CodeOfPlace ==
  ASSUME NEW S, NEW path \in Seq(S), NEW k, NEW node
  PROVE  /\ [path |-> Append(path, k), node |-> node].path # <<>>
         /\ Code([path |-> Append(path, k), node |-> node]) = k
<1> DEFINE longer == Append(path, k)
<1>1. path \in Seq(S \cup {k}) /\ k \in S \cup {k}
  OBVIOUS
<1>2. Len(longer) = Len(path) + 1 /\ longer[Len(path) + 1] = k /\ Len(path) \in Nat
  BY <1>1
<1>3. longer # <<>>
  BY <1>2
<1>4. longer[Len(longer)] = k
  BY <1>2
<1> QED BY <1>3, <1>4 DEF Code

\* A row's place among these or right below them.
IsLeafAt(x, rows, places) == x \in places \cup Below(places) /\ Code(x) \in DOMAIN rows

IsRowInGroup(x, path, rows, labelOf) ==
  \E c \in DOMAIN labelOf : \E r \in Labelled(rows, {labelOf[c]}) : x = Place(Append(path, c), rows, r)

\* The rows below a branch with one group for each label: each below the
\* group of its label.
LEMMA RowsUnderDetailed ==
  ASSUME NEW rows, IsMonth(rows), NEW labelOf, NEW labels, Codifies(labelOf, labels),
         DOMAIN labelOf \subseteq Codes, NEW S, NEW path \in Seq(S), NEW x
  PROVE  LET groups == Under(path, Detailed(rows, labelOf))
         IN /\ IsLeafAt(x, rows, groups) <=> IsRowInGroup(x, path, rows, labelOf)
            /\ x \notin Below(Below(groups))
<1> DEFINE groups == Under(path, Detailed(rows, labelOf))
           At(c) == GroupPlace(path, rows, labelOf, c)
           RowAt(c, r) == Place(Append(path, c), rows, r)
<1>1. \A y : y \in groups <=> \E c \in DOMAIN labelOf : Labelled(rows, {labelOf[c]}) # {} /\ y = At(c)
  <2> TAKE y
  <2>1. y \in Under(path, Detailed(rows, labelOf)) <=> IsGroupBelow(y, path, rows, labelOf)
    BY UnderDetailed
  <2> QED BY <2>1 DEF IsGroupBelow
<1>2. \A c, y : y \in Under(At(c).path, At(c).node) <=> \E r \in Labelled(rows, {labelOf[c]}) : y = RowAt(c, r)
  <2> TAKE c, y
  <2>1. At(c).path = Append(path, c) /\ At(c).node = GroupUnder(rows, {labelOf[c]})
    BY DEF GroupPlace
  <2> HIDE DEF At, RowAt
  <2>2. y \in Under(Append(path, c), GroupUnder(rows, {labelOf[c]})) <=>
          IsRowBelow(y, Append(path, c), rows, {labelOf[c]})
    BY UnderGroup
  <2> QED BY <2>1, <2>2 DEF RowAt, IsRowBelow
<1>3. \A y : y \in Below(groups) <=> \E g \in groups : y \in Under(g.path, g.node)
  BY BelowIsUnder
<1>4. \A c : Code(At(c)) = c
  BY CodeOfPlace DEF GroupPlace
<1>5. \A c, r : Code(RowAt(c, r)) = r
  <2> TAKE c, r
  <2>1. Append(path, c) \in Seq(S \cup {c})
    <3>1. path \in Seq(S \cup {c}) /\ c \in S \cup {c}
      OBVIOUS
    <3> QED BY <3>1
  <2> QED BY <2>1, CodeOfPlace DEF Place
<1>6. DOMAIN labelOf \cap DOMAIN rows = {}
  BY DEF IsMonth
<1>7. \A some : \A r \in Labelled(rows, some) : r \in DOMAIN rows
  BY DEF Labelled
<1>8. \A c, r, y : y \notin Under(RowAt(c, r).path, RowAt(c, r).node)
  BY NothingUnderLeaf DEF Place
<1> HIDE DEF groups, At, RowAt
<1>9. \A y : y \in Below(groups) <=> \E c \in DOMAIN labelOf : \E r \in Labelled(rows, {labelOf[c]}) : y = RowAt(c, r)
  <2> TAKE y
  <2>1. ASSUME y \in Below(groups)
        PROVE  \E c \in DOMAIN labelOf : \E r \in Labelled(rows, {labelOf[c]}) : y = RowAt(c, r)
    <3>1. PICK g \in groups : y \in Under(g.path, g.node)
      BY <1>3, <2>1
    <3>2. PICK c \in DOMAIN labelOf : g = At(c)
      BY <1>1, <3>1
    <3> QED BY <1>2, <3>1, <3>2
  <2>2. ASSUME NEW c \in DOMAIN labelOf, NEW r \in Labelled(rows, {labelOf[c]}), y = RowAt(c, r)
        PROVE  y \in Below(groups)
    <3>1. At(c) \in groups
      BY <1>1
    <3> QED BY <1>2, <1>3, <2>2, <3>1
  <2> QED BY <2>1, <2>2
<1>10. x \in groups \cup Below(groups) /\ Code(x) \in DOMAIN rows <=>
         \E c \in DOMAIN labelOf : \E r \in Labelled(rows, {labelOf[c]}) : x = RowAt(c, r)
  <2>1. x \in groups => Code(x) \notin DOMAIN rows
    BY <1>1, <1>4, <1>6
  <2>2. x \in Below(groups) => Code(x) \in DOMAIN rows
    <3>1. SUFFICES ASSUME x \in Below(groups) PROVE Code(x) \in DOMAIN rows
      OBVIOUS
    <3>2. PICK c \in DOMAIN labelOf : \E r \in Labelled(rows, {labelOf[c]}) : x = RowAt(c, r)
      BY <1>9, <3>1
    <3> QED BY <1>5, <1>7, <3>2
  <2> QED BY <1>9, <2>1, <2>2
<1>11. x \notin Below(Below(groups))
  <2>1. x \in Below(Below(groups)) => \E y \in Below(groups) : x \in Under(y.path, y.node)
    BY BelowIsUnder
  <2> QED BY <1>8, <1>9, <2>1
<1> QED BY <1>10, <1>11 DEF groups, RowAt, IsLeafAt, IsRowInGroup

\* The codes that lead to a row with this label.
CodeFor(label) ==
  IF label = NoLabel THEN "never_examined" ELSE IF label = Abstain THEN "examined_no_answer" ELSE label

PathTo(label) ==
  IF BranchFor(label) \in {"spending", "unclassified"} THEN Append(<<BranchFor(label)>>, CodeFor(label))
  ELSE <<BranchFor(label)>>

IsRowOf(x, rows, labels) == \E r \in Labelled(rows, labels) : x = Place(PathTo(rows[r].label), rows, r)

LEMMA PlainBranchRows ==
  ASSUME NEW rows, IsMonth(rows), NEW code \in BranchCodes, NEW label,
         Branch(rows, code) = GroupUnder(rows, {label}), PathTo(label) = <<code>>, NEW x
  PROVE  IsLeafAt(x, rows, Under(<<code>>, Branch(rows, code))) <=> IsRowOf(x, rows, {label})
<1> DEFINE places == Under(<<code>>, Branch(rows, code))
<1>1. \A y : y \in places <=> IsRowBelow(y, <<code>>, rows, {label})
  BY UnderGroup
<1>2. \A y : IsRowBelow(y, <<code>>, rows, {label}) <=> IsRowOf(y, rows, {label})
  BY DEF IsRowBelow, IsRowOf, Labelled
<1> HIDE DEF places
<1>3. \A y \in places : \E r \in DOMAIN rows : y = Place(<<code>>, rows, r)
  BY <1>1 DEF IsRowBelow, Labelled
<1>4. \A y : y \notin Below(places)
  <2> SUFFICES ASSUME NEW y, y \in Below(places) PROVE FALSE
    OBVIOUS
  <2>1. PICK p \in places : y \in Under(p.path, p.node)
    BY BelowIsUnder
  <2>2. PICK r \in DOMAIN rows : p = Place(<<code>>, rows, r)
    BY <1>3
  <2> QED BY <2>1, <2>2, NothingUnderLeaf DEF Place
<1>5. x \in places => Code(x) \in DOMAIN rows
  <2>1. <<code>> \in Seq({code})
    OBVIOUS
  <2>2. \A r : Code(Place(<<code>>, rows, r)) = r
    BY <2>1, CodeOfPlace DEF Place
  <2> QED BY <1>3, <2>2
<1> QED BY <1>1, <1>2, <1>4, <1>5 DEF IsLeafAt, places

LEMMA DetailedBranchRows ==
  ASSUME NEW rows, IsMonth(rows), NEW code \in BranchCodes, NEW labelOf, NEW labels,
         Codifies(labelOf, labels), DOMAIN labelOf \subseteq Codes,
         Branch(rows, code) = Detailed(rows, labelOf),
         \A c \in DOMAIN labelOf : PathTo(labelOf[c]) = Append(<<code>>, c), NEW x
  PROVE  IsLeafAt(x, rows, Under(<<code>>, Branch(rows, code))) <=> IsRowOf(x, rows, labels)
<1>1. <<code>> \in Seq({code})
  OBVIOUS
<1>2. IsLeafAt(x, rows, Under(<<code>>, Detailed(rows, labelOf))) <=> IsRowInGroup(x, <<code>>, rows, labelOf)
  BY <1>1, RowsUnderDetailed
<1>3. IsRowInGroup(x, <<code>>, rows, labelOf) <=> IsRowOf(x, rows, labels)
  <2>1. \A r : r \in Labelled(rows, labels) <=> \E c \in DOMAIN labelOf : r \in Labelled(rows, {labelOf[c]})
    BY DEF Codifies, Labelled
  <2>2. \A c \in DOMAIN labelOf : \A r \in Labelled(rows, {labelOf[c]}) :
          Place(PathTo(rows[r].label), rows, r) = Place(Append(<<code>>, c), rows, r)
    BY DEF Labelled
  <2> QED BY <2>1, <2>2 DEF IsRowInGroup, IsRowOf
<1> QED BY <1>2, <1>3

LEMMA BranchRows ==
  ASSUME NEW rows, IsMonth(rows), NEW code \in BranchCodes, NEW x
  PROVE  IsLeafAt(x, rows, Under(<<code>>, Branch(rows, code))) <=> IsRowOf(x, rows, LabelsOf(code))
<1>1. ASSUME code \notin {"spending", "unclassified"}
      PROVE  \E label : /\ Branch(rows, code) = GroupUnder(rows, {label})
                        /\ LabelsOf(code) = {label} /\ PathTo(label) = <<code>>
  <2>1. \/ code = "income" /\ Branch(rows, code) = GroupUnder(rows, {"INCOME"}) /\ LabelsOf(code) = {"INCOME"}
        \/ code = "refunds" /\ Branch(rows, code) = GroupUnder(rows, {"REFUND"}) /\ LabelsOf(code) = {"REFUND"}
        \/ code = "transfers" /\ Branch(rows, code) = GroupUnder(rows, {"TRANSFER"}) /\ LabelsOf(code) = {"TRANSFER"}
    BY <1>1 DEF Branch, LabelsOf, BranchCodes
  <2>2. PathTo("INCOME") = <<"income">> /\ PathTo("REFUND") = <<"refunds">> /\ PathTo("TRANSFER") = <<"transfers">>
    BY DEF PathTo, BranchFor
  <2> QED BY <2>1, <2>2
<1>2. CASE code \notin {"spending", "unclassified"}
  BY <1>1, <1>2, PlainBranchRows
<1>3. CASE code = "spending"
  <2>1. DOMAIN Categories = SpendingLabels /\ Codifies(Categories, SpendingLabels)
    BY CategoriesCodify
  <2>2. Branch(rows, code) = Detailed(rows, Categories) /\ LabelsOf(code) = SpendingLabels
    BY <1>3 DEF Branch, LabelsOf
  <2>3. SpendingLabels \subseteq Codes
    BY DEF Codes
  <2>4. ASSUME NEW c \in SpendingLabels PROVE PathTo(Categories[c]) = Append(<<code>>, c)
    <3>1. Categories[c] = c
      BY DEF Categories
    <3>2. c \notin {"INCOME", "REFUND", "TRANSFER", NoLabel, Abstain}
      BY SpendingAssumption DEF Kinds
    <3>3. PathTo(c) = Append(<<"spending">>, c)
      BY <3>2 DEF PathTo, BranchFor, CodeFor
    <3> QED BY <1>3, <3>1, <3>3
  <2> QED BY <2>1, <2>2, <2>3, <2>4, DetailedBranchRows
<1>4. CASE code = "unclassified"
  <2>1. DOMAIN Reasons = {"never_examined", "examined_no_answer"} /\ Codifies(Reasons, {NoLabel, Abstain})
    BY ReasonsCodify
  <2>2. Branch(rows, code) = Detailed(rows, Reasons) /\ LabelsOf(code) = {NoLabel, Abstain}
    BY <1>4 DEF Branch, LabelsOf
  <2>3. DOMAIN Reasons \subseteq Codes
    BY <2>1 DEF Codes
  <2>4. ASSUME NEW c \in DOMAIN Reasons PROVE PathTo(Reasons[c]) = Append(<<code>>, c)
    <3>1. \/ c = "never_examined" /\ Reasons[c] = NoLabel
          \/ c = "examined_no_answer" /\ Reasons[c] = Abstain
      BY <2>1 DEF Reasons
    <3>2. PathTo(Reasons[c]) = Append(<<"unclassified">>, c)
      BY <3>1 DEF PathTo, BranchFor, CodeFor, NoLabel, Abstain
    <3> QED BY <1>4, <3>2
  <2> QED BY <2>1, <2>2, <2>3, <2>4, DetailedBranchRows
<1> QED BY <1>2, <1>3, <1>4

\* The rows a walk meets from the root: every row once, at its place.
LEMMA RowLeavesAre ==
  ASSUME NEW rows, IsMonth(rows), NEW x
  PROVE  x \in RowLeaves(BuildMonthlyReport(rows), rows) <=> IsRowOf(x, rows, Recognised)
<1> DEFINE root == BuildMonthlyReport(rows)
           L0 == {[path |-> <<>>, node |-> root]}
           L1 == Below(L0)
           L2 == Below(L1)
           L3 == Below(L2)
           At(code) == [path |-> Append(<<>>, code), node |-> Branch(rows, code)]
           Of(code) == Under(<<code>>, Branch(rows, code))
<1>1. root.children = Branches(rows)
  BY RootIsSound
<1>2. DOMAIN Branches(rows) = BranchCodes /\ \A code \in BranchCodes : Branches(rows)[code] = Branch(rows, code)
  BY DEF Branches
<1>3. \A code : At(code).path = <<code>> /\ At(code).node = Branch(rows, code) /\ Code(At(code)) = code
  <2> TAKE code
  <2>1. Append(<<>>, code) = <<code>>
    OBVIOUS
  <2>2. <<>> \in Seq({})
    OBVIOUS
  <2> QED BY <2>1, <2>2, CodeOfPlace
<1>4. \A y : y \in L1 <=> \E code \in BranchCodes : y = At(code)
  <2> TAKE y
  <2> DEFINE here == [path |-> <<>>, node |-> root]
  <2>1. y \in L1 <=> y \in Under(here.path, here.node)
    <3>1. L0 = {here}
      OBVIOUS
    <3> HIDE DEF here, L0
    <3> QED BY <3>1, BelowIsUnder
  <2>2. here.path = <<>> /\ here.node = root
    OBVIOUS
  <2> HIDE DEF here, root
  <2>3. y \in Under(<<>>, root) <=>
          \E k \in DOMAIN root.children : y = [path |-> Append(<<>>, k), node |-> root.children[k]]
    BY DEF Under
  <2> QED BY <1>1, <1>2, <2>1, <2>2, <2>3
<1>5. \A y : y \in L2 <=> \E p \in L1 : y \in Under(p.path, p.node)
  BY BelowIsUnder
<1>6. \A y : y \in L3 <=> \E p \in L2 : y \in Under(p.path, p.node)
  BY BelowIsUnder
<1>7. \A code, y : y \in Below(Of(code)) <=> \E p \in Of(code) : y \in Under(p.path, p.node)
  BY BelowIsUnder
<1>8. Walk(root) = L0 \cup L1 \cup L2 \cup L3
  BY DEF Walk
<1>9. BranchCodes \cap DOMAIN rows = {}
  BY DEF IsMonth, Codes
<1>10. \A p \in L0 : p.path = <<>>
  OBVIOUS
<1>11. x \in RowLeaves(root, rows) <=> x \in Walk(root) /\ x.path # <<>> /\ Code(x) \in DOMAIN rows
  BY DEF RowLeaves
<1>12. \A code \in BranchCodes : IsLeafAt(x, rows, Of(code)) <=> IsRowOf(x, rows, LabelsOf(code))
  BY BranchRows
<1> HIDE DEF root, L0, L1, L2, L3, At, Of
<1>13. \A y : y \in L2 <=> \E code \in BranchCodes : y \in Of(code)
  <2> TAKE y
  <2>1. \A code : y \in Under(At(code).path, At(code).node) <=> y \in Of(code)
    BY <1>3 DEF Of
  <2> QED BY <1>4, <1>5, <2>1
<1>14. \A y : y \in L3 <=> \E code \in BranchCodes : y \in Below(Of(code))
  BY <1>6, <1>7, <1>13
<1>15. (x \in L2 \cup L3 /\ Code(x) \in DOMAIN rows) <=> \E code \in BranchCodes : IsRowOf(x, rows, LabelsOf(code))
  BY <1>12, <1>13, <1>14 DEF IsLeafAt
<1>16. IsRowOf(x, rows, Recognised) <=> \E code \in BranchCodes : IsRowOf(x, rows, LabelsOf(code))
  <2>1. \A r \in DOMAIN rows : rows[r].label \in Recognised
    BY DEF IsMonth
  <2>2. \A r \in DOMAIN rows : \E code \in BranchCodes : rows[r].label \in LabelsOf(code)
    BY <2>1, LabelsHaveOneBranch
  <2> QED BY <2>1, <2>2 DEF IsRowOf, Labelled
<1>17. x \in L1 => Code(x) \notin DOMAIN rows
  BY <1>3, <1>4, <1>9
<1>18. IsRowOf(x, rows, Recognised) => x.path # <<>>
  <2> SUFFICES ASSUME NEW r \in DOMAIN rows, x = Place(PathTo(rows[r].label), rows, r) PROVE x.path # <<>>
    BY DEF IsRowOf, Labelled
  <2> DEFINE label == rows[r].label
             S == {BranchFor(label), CodeFor(label)}
  <2>1. PathTo(label) \in Seq(S)
    <3> DEFINE short == <<BranchFor(label)>>
    <3>1. short \in Seq(S) /\ CodeFor(label) \in S
      OBVIOUS
    <3>2. PathTo(label) = Append(short, CodeFor(label)) \/ PathTo(label) = short
      BY DEF PathTo
    <3> HIDE DEF short, S
    <3> QED BY <3>1, <3>2
  <2> QED BY <2>1, CodeOfPlace DEF Place
<1> QED BY <1>8, <1>10, <1>11, <1>15, <1>16, <1>17, <1>18 DEF root

LEMMA UnclassifiedLeavesAre ==
  ASSUME NEW rows, IsMonth(rows), NEW x
  PROVE  x \in RowLeaves(Branch(rows, "unclassified"), rows) <=> IsRowInGroup(x, <<>>, rows, Reasons)
<1> DEFINE root == Branch(rows, "unclassified")
           L0 == {[path |-> <<>>, node |-> root]}
           L1 == Below(L0)
           L2 == Below(L1)
           L3 == Below(L2)
           groups == Under(<<>>, root)
<1>1. root = Detailed(rows, Reasons)
  BY DEF Branch
<1>2. L1 = groups
  <2> DEFINE here == [path |-> <<>>, node |-> root]
  <2>1. L0 = {here}
    OBVIOUS
  <2>2. here.path = <<>> /\ here.node = root
    OBVIOUS
  <2> HIDE DEF here, root, L0
  <2>3. \A y : y \in L1 <=> y \in groups
    BY <2>1, <2>2, BelowIsUnder
  <2> QED BY <2>3 DEF groups, Below, Under
<1>3. Walk(root) = L0 \cup L1 \cup L2 \cup L3
  BY DEF Walk
<1>4. \A p \in L0 : p.path = <<>>
  OBVIOUS
<1>5. x \in RowLeaves(root, rows) <=> x \in Walk(root) /\ x.path # <<>> /\ Code(x) \in DOMAIN rows
  BY DEF RowLeaves
<1>6. <<>> \in Seq({}) /\ Codifies(Reasons, {NoLabel, Abstain}) /\ DOMAIN Reasons \subseteq Codes
  BY ReasonsCodify DEF Codes
<1> HIDE DEF root, L0
<1>7. IsLeafAt(x, rows, groups) <=> IsRowInGroup(x, <<>>, rows, Reasons)
  BY <1>1, <1>6, RowsUnderDetailed
<1>8. x \notin Below(Below(groups))
  BY <1>1, <1>6, RowsUnderDetailed
<1> HIDE DEF groups
<1>9. x \in L1 \cup L2 \cup L3 /\ Code(x) \in DOMAIN rows <=> IsRowInGroup(x, <<>>, rows, Reasons)
  BY <1>2, <1>7, <1>8 DEF IsLeafAt
<1>10. IsRowInGroup(x, <<>>, rows, Reasons) => x.path # <<>>
  <2> SUFFICES ASSUME NEW c, NEW r, x = Place(Append(<<>>, c), rows, r) PROVE x.path # <<>>
    BY DEF IsRowInGroup
  <2>1. Append(<<>>, c) \in Seq({c})
    OBVIOUS
  <2> QED BY <2>1, CodeOfPlace DEF Place
<1> HIDE DEF L1, L2, L3
<1> QED BY <1>3, <1>4, <1>5, <1>9, <1>10 DEF root

\* As many places as rows, if each row has one.
LEMMA OnePlaceEach ==
  ASSUME NEW R, IsFiniteSet(R), NEW leaves, NEW place,
         \A x : x \in leaves <=> \E r \in R : x = place[r],
         \A r \in R : Code(place[r]) = r
  PROVE  IsFiniteSet(leaves) /\ Cardinality(leaves) = Cardinality(R)
<1> DEFINE at == [r \in R |-> place[r]]
<1>1. \A r, s \in R : at[r] = at[s] => r = s
  OBVIOUS
<1>2. at \in [R -> leaves] /\ \A x \in leaves : \E r \in R : at[r] = x
  OBVIOUS
<1>3. DOMAIN at = R
  OBVIOUS
<1> HIDE DEF at
<1>4. at \in Bijection(R, leaves)
  BY <1>1, <1>2, <1>3 DEF Bijection, Injection, Surjection, IsInjective
<1> QED BY <1>4, FS_Bijection DEF ExistsBijection

\* The tree builds, its leaves are the rows, each once, and as many of them
\* lie outside `unclassified` as are classified.
LEMMA TreeHolds ==
  ASSUME NEW rows, IsMonth(rows)
  PROVE  TreeAccountsForRows(rows, Cardinality(DOMAIN rows \ Labelled(rows, {NoLabel, Abstain})))
<1> DEFINE root == BuildMonthlyReport(rows)
           leaves == RowLeaves(root, rows)
           unclassified == RowLeaves(root.children["unclassified"], rows)
           S == DOMAIN rows
           U == Labelled(rows, {NoLabel, Abstain})
           path == [r \in S |-> PathTo(rows[r].label)]
           place == [r \in S |-> Place(path[r], rows, r)]
           CodeUnder(label) == CHOOSE c \in DOMAIN Reasons : Reasons[c] = label
           short == [r \in S |-> Append(<<>>, CodeUnder(rows[r].label))]
           below == [r \in S |-> Place(short[r], rows, r)]
<1>1. root.ok /\ root.children["unclassified"] = Branch(rows, "unclassified")
  BY RootIsSound DEF Branches, BranchCodes
<1>2. \A x : x \in leaves <=> \E r \in S : x = place[r]
  <2> TAKE x
  <2>1. x \in leaves <=> IsRowOf(x, rows, Recognised)
    BY RowLeavesAre
  <2>2. Labelled(rows, Recognised) = S
    BY DEF Labelled, IsMonth
  <2>3. \A r \in S : place[r] = Place(PathTo(rows[r].label), rows, r)
    OBVIOUS
  <2> HIDE DEF leaves, place
  <2> QED BY <2>1, <2>2, <2>3 DEF IsRowOf
<1>3. \A r \in S : Code(place[r]) = r /\ place[r].node.amount = rows[r].amount
  <2> TAKE r \in S
  <2> DEFINE label == rows[r].label
             T == {BranchFor(label), CodeFor(label)}
             only == <<BranchFor(label)>>
  <2>1. PathTo(label) \in Seq(T)
    <3>1. only \in Seq(T) /\ CodeFor(label) \in T
      OBVIOUS
    <3>2. PathTo(label) = Append(only, CodeFor(label)) \/ PathTo(label) = only
      BY DEF PathTo
    <3> HIDE DEF only, T
    <3> QED BY <3>1, <3>2
  <2>2. place[r] = [path |-> Append(PathTo(label), r), node |-> Leaf(rows[r])]
    BY DEF Place
  <2> QED BY <2>1, <2>2, CodeOfPlace, LeafIsSound
<1>4. \A x : x \in unclassified <=> \E r \in U : x = below[r]
  <2> TAKE x
  <2>1. x \in unclassified <=> IsRowInGroup(x, <<>>, rows, Reasons)
    BY <1>1, UnclassifiedLeavesAre
  <2>2. \A r \in U : CodeUnder(rows[r].label) \in DOMAIN Reasons /\ Reasons[CodeUnder(rows[r].label)] = rows[r].label
    BY ReasonsCodify DEF Codifies, Labelled
  <2>3. \A r \in U, c \in DOMAIN Reasons : Reasons[c] = rows[r].label => c = CodeUnder(rows[r].label)
    BY <2>2, ReasonsCodify DEF Codifies
  <2>4. \A r \in U : below[r] = Place(Append(<<>>, CodeUnder(rows[r].label)), rows, r)
    BY DEF Labelled
  <2>5. \A r : r \in U <=> \E c \in DOMAIN Reasons : r \in Labelled(rows, {Reasons[c]})
    BY ReasonsCodify DEF Codifies, Labelled
  <2>6. \A r, c : r \in Labelled(rows, {Reasons[c]}) <=> r \in S /\ rows[r].label = Reasons[c]
    BY DEF Labelled
  <2>7. U \subseteq S
    BY DEF Labelled
  <2> HIDE DEF unclassified, below, U, CodeUnder, S
  <2>8. (\E r \in U : x = below[r]) => IsRowInGroup(x, <<>>, rows, Reasons)
    BY <2>2, <2>4, <2>6, <2>7 DEF IsRowInGroup
  <2>9. IsRowInGroup(x, <<>>, rows, Reasons) => \E r \in U : x = below[r]
    <3> SUFFICES ASSUME NEW c \in DOMAIN Reasons, NEW r \in Labelled(rows, {Reasons[c]}),
                        x = Place(Append(<<>>, c), rows, r)
                 PROVE  \E s \in U : x = below[s]
      BY DEF IsRowInGroup
    <3>1. r \in U /\ Reasons[c] = rows[r].label
      BY <2>5, <2>6
    <3>2. c = CodeUnder(rows[r].label)
      BY <2>3, <3>1
    <3> QED BY <2>4, <3>1, <3>2
  <2> QED BY <2>1, <2>8, <2>9
<1>5. \A r \in S : Code(below[r]) = r
  <2> TAKE r \in S
  <2>1. short[r] \in Seq({CodeUnder(rows[r].label)})
    OBVIOUS
  <2>2. below[r] = [path |-> Append(short[r], r), node |-> Leaf(rows[r])]
    BY DEF Place
  <2> HIDE DEF short, below
  <2> QED BY <2>1, <2>2, CodeOfPlace
<1>6. IsFiniteSet(S) /\ U \subseteq S
  BY DEF IsMonth, Labelled
<1> HIDE DEF leaves, unclassified, place, below, path, short, U, S
<1>7. Cardinality(leaves) = Cardinality(S)
  BY <1>2, <1>3, <1>6, OnePlaceEach
<1>8. Cardinality(unclassified) = Cardinality(U)
  <2>1. IsFiniteSet(U) /\ \A r \in U : Code(below[r]) = r
    BY <1>5, <1>6, FS_Subset
  <2> QED BY <1>4, <2>1, OnePlaceEach
<1>9. Cardinality(S) - Cardinality(U) = Cardinality(S \ U)
  <2>1. Cardinality(S \ U) = Cardinality(S) - Cardinality(S \cap U) /\ S \cap U = U
    BY <1>6, FS_Difference
  <2>2. Cardinality(S) \in Nat /\ Cardinality(U) \in Nat
    BY <1>6, FS_Subset, FS_CardinalityType
  <2> QED BY <2>1, <2>2
<1>10. \A r \in S : \E p \in leaves : Code(p) = r /\ p.node.amount = rows[r].amount
  BY <1>2, <1>3
<1> QED BY <1>1, <1>7, <1>8, <1>9, <1>10 DEF TreeAccountsForRows, leaves, unclassified, S, U

-----------------------------------------------------------------------------
(* Debits and what explains them *)

\* Per row: what it adds to each figure.
DebitOf(rows) == [r \in DOMAIN rows |-> Debit(rows[r])]
SpendOf(rows) == [r \in DOMAIN rows |-> IF IsSpend(rows[r]) THEN Debit(rows[r]) ELSE 0]
RefundOf(rows) == [r \in DOMAIN rows |-> IF IsRefund(rows[r]) THEN Credit(rows[r]) ELSE 0]
UnclassifiedOf(rows) == [r \in DOMAIN rows |-> IF IsUnclassified(rows[r]) THEN Debit(rows[r]) ELSE 0]
TransferOf(rows) == [r \in DOMAIN rows |-> IF IsTransfer(rows[r]) THEN Debit(rows[r]) ELSE 0]
InconsistentOf(rows) == [r \in DOMAIN rows |-> IF IsInconsistent(rows[r]) THEN Debit(rows[r]) ELSE 0]
OffsideOf(rows) ==
  [r \in DOMAIN rows |-> IF IsInconsistent(rows[r]) /\ rows[r].label # "INCOME" THEN Credit(rows[r]) ELSE 0]
NetOf(rows) == [r \in DOMAIN rows |-> IF Drives(rows[r]) THEN -rows[r].amount ELSE 0]

SumOf(f, rows) == SumFunctionOnSet(f, DOMAIN rows)

LEMMA PeriodIsSums ==
  ASSUME NEW rows
  PROVE  /\ SpendPeriod(rows).gross = SumOf(SpendOf(rows), rows)
         /\ SpendPeriod(rows).refunds = SumOf(RefundOf(rows), rows)
         /\ SpendPeriod(rows).unclassified = SumOf(UnclassifiedOf(rows), rows)
         /\ SpendPeriod(rows).transfers = SumOf(TransferOf(rows), rows)
         /\ SpendPeriod(rows).inconsistent = SumOf(InconsistentOf(rows), rows)
<1>1. SpendPeriod(rows).gross = SumOf(SpendOf(rows), rows)
  BY DEF SpendPeriod, AmountOf, SumFunction, SumOf, SpendOf
<1>2. SpendPeriod(rows).refunds = SumOf(RefundOf(rows), rows)
  BY DEF SpendPeriod, AmountOf, SumFunction, SumOf, RefundOf
<1>3. SpendPeriod(rows).unclassified = SumOf(UnclassifiedOf(rows), rows)
  BY DEF SpendPeriod, AmountOf, SumFunction, SumOf, UnclassifiedOf
<1>4. SpendPeriod(rows).transfers = SumOf(TransferOf(rows), rows)
  BY DEF SpendPeriod, AmountOf, SumFunction, SumOf, TransferOf
<1>5. SpendPeriod(rows).inconsistent = SumOf(InconsistentOf(rows), rows)
  BY DEF SpendPeriod, AmountOf, SumFunction, SumOf, InconsistentOf
<1> QED BY <1>1, <1>2, <1>3, <1>4, <1>5

LEMMA FiguresAreWhole ==
  ASSUME NEW rows, IsMonth(rows), NEW r \in DOMAIN rows
  PROVE  /\ DebitOf(rows)[r] \in Int /\ SpendOf(rows)[r] \in Int /\ RefundOf(rows)[r] \in Int
         /\ UnclassifiedOf(rows)[r] \in Int /\ TransferOf(rows)[r] \in Int
         /\ InconsistentOf(rows)[r] \in Int /\ OffsideOf(rows)[r] \in Int /\ NetOf(rows)[r] \in Int
<1>1. rows[r].amount \in Int
  BY DEF IsMonth
<1>2. Debit(rows[r]) \in Int /\ Credit(rows[r]) \in Int
  BY <1>1 DEF Debit, Credit
<1>3. -rows[r].amount \in Int
  BY <1>1
<1> QED BY <1>2, <1>3 DEF DebitOf, SpendOf, RefundOf, UnclassifiedOf, TransferOf, InconsistentOf, OffsideOf, NetOf

\* A label is of one kind.
LEMMA LabelIsOneKind ==
  ASSUME NEW label \in Recognised
  PROVE  /\ \/ label \in SpendingLabels \/ label = "REFUND" \/ label = "INCOME"
            \/ label = "TRANSFER" \/ label \in {NoLabel, Abstain}
         /\ label \in SpendingLabels => label \notin {"REFUND", "INCOME", "TRANSFER", NoLabel, Abstain}
         /\ label \in {NoLabel, Abstain} => label \notin {"REFUND", "INCOME", "TRANSFER"}
<1>1. label \in SpendingLabels => label \notin {"REFUND", "INCOME", "TRANSFER", NoLabel, Abstain}
  BY SpendingAssumption DEF Kinds
<1> QED BY <1>1 DEF Recognised, Kinds, NoLabel, Abstain

\* Gross spending is net spending and the refunds.
LEMMA NetIsGrossLessRefunds ==
  ASSUME NEW rows, IsMonth(rows)
  PROVE  SumOf(NetOf(rows), rows) = NetSpending(SpendPeriod(rows)) /\ SumOf(NetOf(rows), rows) \in Int
<1> DEFINE S == DOMAIN rows
           net == NetOf(rows)
           refund == RefundOf(rows)
           spend == SpendOf(rows)
<1>1. ASSUME NEW r \in S PROVE net[r] \in Int /\ refund[r] \in Int /\ spend[r] = net[r] + refund[r]
  <2> DEFINE row == rows[r]
  <2>1. row.amount \in Int /\ row.label \in Recognised
    BY DEF IsMonth
  <2>2. ~(IsSpend(row) /\ IsRefund(row))
    BY <2>1 DEF IsSpend, IsRefund
  <2>3. /\ net[r] = IF IsSpend(row) \/ IsRefund(row) THEN -row.amount ELSE 0
        /\ refund[r] = IF IsRefund(row) THEN row.amount ELSE 0
        /\ spend[r] = IF IsSpend(row) THEN Debit(row) ELSE 0
    BY DEF NetOf, Drives, RefundOf, Credit, SpendOf
  <2>4. IsSpend(row) => Debit(row) = -row.amount
    BY DEF IsSpend, Debit
  <2> HIDE DEF row, net, refund, spend
  <2> QED BY <2>1, <2>2, <2>3, <2>4
<1>2. IsFiniteSet(S)
  BY DEF IsMonth
<1> HIDE DEF S, net, refund, spend
<1>3. SumFunctionOnSet(spend, S) = SumFunctionOnSet(net, S) + SumFunctionOnSet(refund, S)
  BY <1>1, <1>2, SumOfSums
<1>4. SumFunctionOnSet(net, S) \in Int /\ SumFunctionOnSet(refund, S) \in Int
  BY <1>1, <1>2, SumIsWhole
<1>5. /\ SpendPeriod(rows).gross = SumFunctionOnSet(spend, S)
      /\ SpendPeriod(rows).refunds = SumFunctionOnSet(refund, S)
      /\ SumOf(NetOf(rows), rows) = SumFunctionOnSet(net, S)
  BY PeriodIsSums DEF SumOf, spend, refund, net, S
<1> HIDE DEF SumOf
<1>6. NetSpending(SpendPeriod(rows)) = SpendPeriod(rows).gross - SpendPeriod(rows).refunds
  BY DEF NetSpending
<1> DEFINE a == SumFunctionOnSet(spend, S)
           b == SumFunctionOnSet(net, S)
           c == SumFunctionOnSet(refund, S)
<1>7. a = b + c /\ b \in Int /\ c \in Int
  BY <1>3, <1>4
<1>8. NetSpending(SpendPeriod(rows)) = a - c /\ SumOf(NetOf(rows), rows) = b
  BY <1>5, <1>6
<1> HIDE DEF a, b, c
<1> QED BY <1>7, <1>8

\* The merchants of any set that has all the drivers explain the net.
LEMMA MerchantsExplain ==
  ASSUME NEW rows, IsMonth(rows), NEW names, IsFiniteSet(names), Drivers(rows) \subseteq names, NEW t,
         \A n \in names : t[n] = MerchantNet(rows, n)
  PROVE  SumFunctionOnSet(t, names) = NetSpending(SpendPeriod(rows)) /\ \A n \in names : t[n] \in Int
<1> DEFINE S == DOMAIN rows
           g == NetOf(rows)
           class == [r \in S |-> rows[r].merchant]
           part == [n \in names |-> [r \in S |->
                      IF Drives(rows[r]) /\ rows[r].merchant = n THEN -rows[r].amount ELSE 0]]
<1>1. \A n \in names : t[n] = SumFunctionOnSet(part[n], S)
  <2> TAKE n \in names
  <2>1. MerchantNet(rows, n) = SumFunctionOnSet(part[n], S)
    BY DEF MerchantNet, AmountOf, SumFunction
  <2> QED BY <2>1
<1>2. \A r \in S : g[r] \in Int /\ (g[r] # 0 => class[r] \in names)
  <2> TAKE r \in S
  <2>1. Drives(rows[r]) => rows[r].merchant \in names
    BY DEF Drivers
  <2> QED BY <2>1, FiguresAreWhole DEF NetOf
<1>3. \A n \in names : \A r \in S : part[n][r] = IF class[r] = n THEN g[r] ELSE 0
  BY DEF NetOf
<1>4. IsFiniteSet(S)
  BY DEF IsMonth
<1>5. \A n \in names : \A r \in S : part[n][r] \in Int
  BY <1>2, <1>3
<1> HIDE DEF S, g, class, part
<1>6. Splits(part, class, g, S, names)
  BY <1>2, <1>3 DEF Splits
<1>7. SumFunctionOnSet(t, names) = SumFunctionOnSet(g, S)
  BY <1>1, <1>4, <1>6, SumByClass
<1>8. SumFunctionOnSet(g, S) = NetSpending(SpendPeriod(rows))
  BY NetIsGrossLessRefunds DEF SumOf, g, S
<1>9. ASSUME NEW n \in names PROVE t[n] \in Int
  BY <1>1, <1>4, <1>5, SumIsWhole
<1> QED BY <1>7, <1>8, <1>9

LEMMA DriversAreFinite ==
  ASSUME NEW rows, IsMonth(rows)
  PROVE  IsFiniteSet(Drivers(rows)) /\ IsFiniteSet(DebitMerchants(rows))
<1> DEFINE A == {x \in DOMAIN rows : Drives(rows[x])}
           B == {x \in DOMAIN rows : rows[x].amount < 0}
           M(r) == rows[r].merchant
           f == [r \in A |-> M(r)]
           g == [r \in B |-> M(r)]
<1>1. IsFiniteSet(A) /\ IsFiniteSet(B)
  BY FS_Subset DEF IsMonth
<1>2. IsFiniteSet({M(r) : r \in A}) /\ IsFiniteSet({M(r) : r \in B})
  <2>1. f \in Surjection(A, {M(r) : r \in A})
    BY DEF Surjection
  <2>2. g \in Surjection(B, {M(r) : r \in B})
    BY DEF Surjection
  <2> HIDE DEF A, B, M, f, g
  <2> QED BY <1>1, <2>1, <2>2, FS_Surjection
<1> QED BY <1>2 DEF Drivers, DebitMerchants

\* Every debit is in exactly one of the buckets that are disclosed.
LEMMA DebitsAreBucketed ==
  ASSUME NEW rows, IsMonth(rows)
  PROVE  SpendPeriod(rows).gross + SpendPeriod(rows).unclassified + SpendPeriod(rows).transfers
           + SpendPeriod(rows).inconsistent = SumOf(DebitOf(rows), rows)
<1> DEFINE S == DOMAIN rows
           debit == DebitOf(rows)
           spend == SpendOf(rows)
           unclassified == UnclassifiedOf(rows)
           transfer == TransferOf(rows)
           inconsistent == InconsistentOf(rows)
           first == [r \in S |-> spend[r] + unclassified[r]]
           second == [r \in S |-> transfer[r] + inconsistent[r]]
<1>1. ASSUME NEW r \in S PROVE debit[r] = (spend[r] + unclassified[r]) + (transfer[r] + inconsistent[r])
  <2> DEFINE row == rows[r]
             value == Debit(row)
  <2>1. row.amount \in Int /\ row.label \in Recognised
    BY DEF IsMonth
  <2>2. /\ debit[r] = value
        /\ spend[r] = IF IsSpend(row) THEN value ELSE 0
        /\ unclassified[r] = IF IsUnclassified(row) THEN value ELSE 0
        /\ transfer[r] = IF IsTransfer(row) THEN value ELSE 0
        /\ inconsistent[r] = IF IsInconsistent(row) THEN value ELSE 0
    BY DEF DebitOf, SpendOf, UnclassifiedOf, TransferOf, InconsistentOf
  <2>3. value \in Int /\ (value # 0 => row.amount < 0)
    BY <2>1 DEF Debit
  <2>4. row.amount < 0 =>
          /\ IsSpend(row) \/ IsUnclassified(row) \/ IsTransfer(row) \/ IsInconsistent(row)
          /\ ~(IsSpend(row) /\ (IsUnclassified(row) \/ IsTransfer(row) \/ IsInconsistent(row)))
          /\ ~(IsUnclassified(row) /\ (IsTransfer(row) \/ IsInconsistent(row)))
          /\ ~(IsTransfer(row) /\ IsInconsistent(row))
    BY <2>1, LabelIsOneKind DEF IsSpend, IsUnclassified, IsTransfer, IsInconsistent, IsRefund, IsIncome
  <2> HIDE DEF row, value, debit, spend, unclassified, transfer, inconsistent
  <2> QED BY <2>2, <2>3, <2>4
<1>2. \A r \in S : /\ debit[r] \in Int /\ spend[r] \in Int /\ unclassified[r] \in Int
                   /\ transfer[r] \in Int /\ inconsistent[r] \in Int
  BY FiguresAreWhole
<1>3. \A r \in S : first[r] = spend[r] + unclassified[r] /\ first[r] \in Int
  BY <1>2
<1>4. \A r \in S : second[r] = transfer[r] + inconsistent[r] /\ second[r] \in Int
  BY <1>2
<1>5. IsFiniteSet(S)
  BY DEF IsMonth
<1>6. \A r \in S : debit[r] = first[r] + second[r]
  BY <1>1
<1> HIDE DEF S, debit, spend, unclassified, transfer, inconsistent, first, second
<1>7. SumFunctionOnSet(first, S) = SumFunctionOnSet(spend, S) + SumFunctionOnSet(unclassified, S)
  BY <1>2, <1>3, <1>5, SumOfSums
<1>8. SumFunctionOnSet(second, S) = SumFunctionOnSet(transfer, S) + SumFunctionOnSet(inconsistent, S)
  BY <1>2, <1>4, <1>5, SumOfSums
<1>9. SumFunctionOnSet(debit, S) = SumFunctionOnSet(first, S) + SumFunctionOnSet(second, S)
  BY <1>3, <1>4, <1>5, <1>6, SumOfSums
<1>10. /\ SumFunctionOnSet(spend, S) \in Int /\ SumFunctionOnSet(unclassified, S) \in Int
       /\ SumFunctionOnSet(transfer, S) \in Int /\ SumFunctionOnSet(inconsistent, S) \in Int
  BY <1>2, <1>5, SumIsWhole
<1>11. /\ SpendPeriod(rows).gross = SumFunctionOnSet(spend, S)
       /\ SpendPeriod(rows).unclassified = SumFunctionOnSet(unclassified, S)
       /\ SpendPeriod(rows).transfers = SumFunctionOnSet(transfer, S)
       /\ SpendPeriod(rows).inconsistent = SumFunctionOnSet(inconsistent, S)
       /\ SumOf(DebitOf(rows), rows) = SumFunctionOnSet(debit, S)
  BY PeriodIsSums DEF SumOf, S, spend, unclassified, transfer, inconsistent, debit
<1> QED BY <1>7, <1>8, <1>9, <1>10, <1>11

LEMMA DebitsByMerchant ==
  ASSUME NEW rows, IsMonth(rows)
  PROVE  ObservedDebits(rows) = SumOf(DebitOf(rows), rows)
<1> DEFINE S == DOMAIN rows
           names == DebitMerchants(rows)
           g == DebitOf(rows)
           class == [r \in S |-> rows[r].merchant]
           part == [n \in names |-> [r \in S |-> IF rows[r].merchant = n THEN Debit(rows[r]) ELSE 0]]
           t == [n \in names |-> MerchantDebits(rows, n)]
<1>1. \A n \in names : t[n] = SumFunctionOnSet(part[n], S)
  <2> TAKE n \in names
  <2>1. MerchantDebits(rows, n) = SumFunctionOnSet(part[n], S)
    BY DEF MerchantDebits, AmountOf, SumFunction
  <2> QED BY <2>1
<1>2. \A r \in S : g[r] \in Int /\ (g[r] # 0 => class[r] \in names)
  <2> TAKE r \in S
  <2>1. g[r] # 0 => rows[r].amount < 0
    BY DEF DebitOf, Debit
  <2>2. rows[r].amount < 0 => class[r] \in names
    BY DEF DebitMerchants
  <2> QED BY <2>1, <2>2, FiguresAreWhole
<1>3. \A n \in names : \A r \in S : part[n][r] = IF class[r] = n THEN g[r] ELSE 0
  BY DEF DebitOf
<1>4. IsFiniteSet(S) /\ IsFiniteSet(names)
  BY DriversAreFinite DEF IsMonth
<1>5. ObservedDebits(rows) = SumFunctionOnSet(t, names)
  BY DEF ObservedDebits, SumFunction
<1> HIDE DEF S, names, g, class, part, t
<1>6. Splits(part, class, g, S, names)
  BY <1>2, <1>3 DEF Splits
<1>7. SumFunctionOnSet(t, names) = SumFunctionOnSet(g, S)
  BY <1>1, <1>4, <1>6, SumByClass
<1> QED BY <1>5, <1>7 DEF SumOf, g, S

\* What the tree and net spending disagree on is disclosed.
LEMMA TreeAndNetDiffer ==
  ASSUME NEW rows, IsMonth(rows)
  PROVE  Held(rows, SpendingLabels) + Held(rows, {"REFUND"})
           = SumOf(OffsideOf(rows), rows) - NetSpending(SpendPeriod(rows))
<1> DEFINE S == DOMAIN rows
           spending == Counted(rows, SpendingLabels)
           refunds == Counted(rows, {"REFUND"})
           offside == OffsideOf(rows)
           net == NetOf(rows)
           tree == [r \in S |-> spending[r] + refunds[r]]
<1>1. ASSUME NEW r \in S PROVE offside[r] = (spending[r] + refunds[r]) + net[r]
  <2> DEFINE row == rows[r]
  <2>1. row.amount \in Int /\ row.label \in Recognised
    BY DEF IsMonth
  <2>2. /\ spending[r] = IF row.label \in SpendingLabels THEN row.amount ELSE 0
        /\ refunds[r] = IF row.label = "REFUND" THEN row.amount ELSE 0
        /\ offside[r] = IF IsInconsistent(row) /\ row.label # "INCOME" THEN row.amount ELSE 0
        /\ net[r] = IF IsSpend(row) \/ IsRefund(row) THEN -row.amount ELSE 0
    BY DEF Counted, OffsideOf, NetOf, Credit, Drives
  <2>3. IsInconsistent(row) /\ row.label # "INCOME" <=>
          (row.label \in SpendingLabels /\ ~IsSpend(row)) \/ (row.label = "REFUND" /\ ~IsRefund(row))
    BY <2>1, LabelIsOneKind DEF IsInconsistent, IsSpend, IsRefund, IsIncome
  <2>4. /\ IsSpend(row) => row.label \in SpendingLabels
        /\ IsRefund(row) => row.label = "REFUND"
        /\ ~(row.label \in SpendingLabels /\ row.label = "REFUND")
    BY <2>1, LabelIsOneKind DEF IsSpend, IsRefund
  <2> HIDE DEF row, spending, refunds, offside, net
  <2> QED BY <2>1, <2>2, <2>3, <2>4
<1>2. \A r \in S : /\ spending[r] \in Int /\ refunds[r] \in Int /\ net[r] \in Int
  BY FiguresAreWhole DEF Counted, IsMonth
<1>3. \A r \in S : tree[r] = spending[r] + refunds[r] /\ tree[r] \in Int
  BY <1>2
<1>4. \A r \in S : offside[r] = tree[r] + net[r]
  BY <1>1
<1>5. IsFiniteSet(S)
  BY DEF IsMonth
<1>6. /\ Held(rows, SpendingLabels) = SumFunctionOnSet(spending, S)
      /\ Held(rows, {"REFUND"}) = SumFunctionOnSet(refunds, S)
      /\ SumOf(OffsideOf(rows), rows) = SumFunctionOnSet(offside, S)
      /\ NetSpending(SpendPeriod(rows)) = SumFunctionOnSet(net, S)
  BY NetIsGrossLessRefunds DEF Held, SumOf
<1> HIDE DEF S, spending, refunds, offside, net, tree
<1>7. SumFunctionOnSet(tree, S) = SumFunctionOnSet(spending, S) + SumFunctionOnSet(refunds, S)
  BY <1>2, <1>3, <1>5, SumOfSums
<1>8. SumFunctionOnSet(offside, S) = SumFunctionOnSet(tree, S) + SumFunctionOnSet(net, S)
  BY <1>2, <1>3, <1>4, <1>5, SumOfSums
<1>9. /\ SumFunctionOnSet(spending, S) \in Int /\ SumFunctionOnSet(refunds, S) \in Int
      /\ SumFunctionOnSet(net, S) \in Int
  BY <1>2, <1>5, SumIsWhole
<1> QED BY <1>6, <1>7, <1>8, <1>9

LEMMA MerchantsReconcile ==
  ASSUME NEW previous, NEW current, IsMonth(previous), IsMonth(current)
  PROVE  SpendChange(previous, current).ok
<1> DEFINE names == Drivers(previous) \cup Drivers(current)
           before == [n \in names |-> MerchantNet(previous, n)]
           after == [n \in names |-> MerchantNet(current, n)]
           change == [n \in names |-> MerchantNet(current, n) - MerchantNet(previous, n)]
           netBefore == NetSpending(SpendPeriod(previous))
           netAfter == NetSpending(SpendPeriod(current))
<1>1. IsFiniteSet(names)
  BY DriversAreFinite, FS_Union
<1>2. SumFunctionOnSet(before, names) = netBefore /\ \A n \in names : before[n] \in Int
  <2>1. \A n \in names : before[n] = MerchantNet(previous, n)
    OBVIOUS
  <2>2. Drivers(previous) \subseteq names
    OBVIOUS
  <2> HIDE DEF before, names
  <2> QED BY <1>1, <2>1, <2>2, MerchantsExplain
<1>3. SumFunctionOnSet(after, names) = netAfter /\ \A n \in names : after[n] \in Int
  <2>1. \A n \in names : after[n] = MerchantNet(current, n)
    OBVIOUS
  <2>2. Drivers(current) \subseteq names
    OBVIOUS
  <2> HIDE DEF after, names
  <2> QED BY <1>1, <2>1, <2>2, MerchantsExplain
<1>4. \A n \in names : change[n] \in Int /\ after[n] = change[n] + before[n]
  <2> TAKE n \in names
  <2>1. change[n] = after[n] - before[n] /\ after[n] \in Int /\ before[n] \in Int
    BY <1>2, <1>3
  <2> HIDE DEF change, after, before
  <2> QED BY <2>1
<1>5. SpendChange(previous, current).ok <=> SumFunctionOnSet(change, names) = netAfter - netBefore
  BY DEF SpendChange, SumFunction
<1> HIDE DEF names, before, after, change
<1>6. SumFunctionOnSet(after, names) = SumFunctionOnSet(change, names) + SumFunctionOnSet(before, names)
  BY <1>1, <1>2, <1>4, SumOfSums
<1>7. SumFunctionOnSet(change, names) \in Int /\ SumFunctionOnSet(before, names) \in Int
  BY <1>1, <1>2, <1>4, SumIsWhole
<1>8. SumFunctionOnSet(change, names) = SumFunctionOnSet(after, names) - SumFunctionOnSet(before, names)
  BY <1>6, <1>7
<1> QED BY <1>2, <1>3, <1>5, <1>8

LEMMA DebitsHold ==
  ASSUME NEW previous, NEW current, IsMonth(previous), IsMonth(current)
  PROVE  DebitsAccountedFor(previous, current)
<1>1. SpendChange(previous, current).ok /\ SpendChange(previous, current).after = SpendPeriod(current)
  BY MerchantsReconcile DEF SpendChange
<1>2. \A code \in BranchCodes : BuildMonthlyReport(current).children[code].amount = Held(current, LabelsOf(code))
  <2> TAKE code \in BranchCodes
  <2>1. BuildMonthlyReport(current).children = Branches(current)
    BY RootIsSound
  <2>2. Branches(current)[code] = Branch(current, code)
    BY DEF Branches
  <2>3. Branch(current, code).amount = Held(current, LabelsOf(code))
    BY BranchAdds
  <2> QED BY <2>1, <2>2, <2>3
<1>3. /\ BuildMonthlyReport(current).children["spending"].amount = Held(current, SpendingLabels)
      /\ BuildMonthlyReport(current).children["refunds"].amount = Held(current, {"REFUND"})
  BY <1>2 DEF BranchCodes, LabelsOf
<1>4. AmountOf(current, LAMBDA row : IsInconsistent(row) /\ row.label # "INCOME", Credit) = SumOf(OffsideOf(current), current)
  BY DEF AmountOf, SumFunction, SumOf, OffsideOf
<1> QED BY <1>1, <1>2, <1>3, <1>4, DebitsAreBucketed, DebitsByMerchant, TreeAndNetDiffer DEF DebitsAccountedFor

-----------------------------------------------------------------------------
(* The rows of a report *)

\* A report keeps its rows with the verdicts they had when they were read.
Entered(report) ==
  /\ report.rows \subseteq RowIds
  /\ \A r \in report.rows : report.verdicts[r] \in Verdicts
  /\ report.classified = Cardinality({r \in report.rows : IsClassified(report.verdicts[r])})

RowsAreEntered ==
  /\ stored \subseteq RowIds
  /\ verdict \in [RowIds -> Verdicts]
  /\ seen \in [rows : SUBSET RowIds, batches : {seen.batches}, dated : {seen.dated}, verdicts : {seen.verdicts}]
  /\ \A r \in seen.rows : seen.verdicts[r] \in Verdicts
  /\ \E S : loaded \in Seq(S)
  /\ \A k \in DOMAIN loaded : Entered(loaded[k])

LEMMA SettledIsEntered ==
  ASSUME MCInit
  PROVE  RowsAreEntered
<1>1. <<>> \in Seq({}) /\ DOMAIN <<>> = {}
  OBVIOUS
<1>2. Settled \subseteq Verdicts /\ Blank \in Verdicts
  <2>1. ASSUME NEW l \in Labels \cup {Null, Unknown}
        PROVE  [suggested |-> l, sure |-> l \in Labels, confirmed |-> Null] \in Verdicts
    <3>1. (l \in Labels) \in BOOLEAN
      OBVIOUS
    <3> QED BY <3>1, Zenon DEF Verdicts
  <2>2. ASSUME NEW c \in Labels \cup {Unknown}
        PROVE  [suggested |-> Unknown, sure |-> FALSE, confirmed |-> c] \in Verdicts
    BY DEF Verdicts
  <2>3. Blank \in Verdicts
    BY DEF Verdicts, Blank
  <2> QED BY <2>1, <2>2, <2>3, Zenon DEF Settled
<1>3. stored \subseteq RowIds /\ verdict \in [RowIds -> Verdicts] /\ seen = NothingSeen /\ loaded = <<>>
  BY <1>2 DEF MCInit, ReadsInit
<1> QED BY <1>1, <1>3 DEF RowsAreEntered, NothingSeen

\* A writer leaves what was read alone.
LEMMA WritersLeaveReports ==
  ASSUME RowsAreEntered, Idle, stored' \subseteq RowIds, verdict' \in [RowIds -> Verdicts]
  PROVE  RowsAreEntered'
<1>1. seen' = seen /\ loaded' = loaded
  BY DEF Idle
<1> QED BY <1>1 DEF RowsAreEntered, Entered

LEMMA LabelEnters ==
  ASSUME RowsAreEntered, NEW r \in RowIds, RecordSuggestion(r) \/ ConfirmLabel(r)
  PROVE  RowsAreEntered'
<1>1. verdict \in [RowIds -> Verdicts] /\ stored \subseteq RowIds /\ verdict[r] \in Verdicts
  BY DEF RowsAreEntered
<1>2. PICK columns \in Verdicts : Label(r, columns)
  <2>1. ASSUME NEW l \in Labels, NEW sure \in BOOLEAN
        PROVE  [verdict[r] EXCEPT !.suggested = l, !.sure = sure] \in Verdicts
    BY <1>1 DEF Verdicts
  <2>2. [verdict[r] EXCEPT !.suggested = Unknown, !.sure = FALSE] \in Verdicts
    BY <1>1 DEF Verdicts
  <2>3. ASSUME NEW l \in Labels \cup {Unknown}
        PROVE  [verdict[r] EXCEPT !.confirmed = l] \in Verdicts
    BY <1>1 DEF Verdicts
  <2> QED BY <2>1, <2>2, <2>3 DEF RecordSuggestion, ConfirmLabel
<1>3. Idle /\ stored' = stored /\ verdict' = [verdict EXCEPT ![r] = columns]
  BY <1>2 DEF Label
<1>4. verdict' \in [RowIds -> Verdicts]
  BY <1>1, <1>3
<1> QED BY <1>1, <1>3, <1>4, WritersLeaveReports

LEMMA SelectAwaitingEnters ==
  ASSUME RowsAreEntered, SelectAwaiting
  PROVE  RowsAreEntered'
<1> DEFINE kept == [r \in seen.rows |-> seen.verdicts[r]]
<1>1. PICK report : /\ loaded' = Append(loaded, report) /\ report.rows = seen.rows /\ report.verdicts = kept
                    /\ report.classified = Cardinality({r \in seen.rows : IsClassified(seen.verdicts[r])})
  <2> DEFINE year == Head(plan).year
             month == Head(plan).month
             last == [year |-> year, month |-> month, rows |-> seen.rows, verdicts |-> kept,
                      batches |-> seen.batches,
                      complete |-> MonthIsCovered(year, month, {BatchWindow[b] : b \in seen.batches}),
                      classified |-> Cardinality({r \in seen.rows : IsClassified(seen.verdicts[r])}),
                      awaiting |-> Cardinality(AwaitingReview(year, month))]
  <2>1. loaded' = Append(loaded, last)
    BY DEF SelectAwaiting
  <2>2. /\ last.rows = seen.rows /\ last.verdicts = kept
        /\ last.classified = Cardinality({r \in seen.rows : IsClassified(seen.verdicts[r])})
    OBVIOUS
  <2> HIDE DEF last, kept
  <2> QED BY <2>1, <2>2
<1>2. \A r \in seen.rows : kept[r] = seen.verdicts[r]
  OBVIOUS
<1>3. stored' = stored /\ verdict' = verdict /\ seen' = seen
  BY DEF SelectAwaiting, Data
<1>4. Entered(report)
  <2>1. {r \in seen.rows : IsClassified(seen.verdicts[r])} = {r \in seen.rows : IsClassified(kept[r])}
    BY <1>2
  <2> HIDE DEF kept
  <2> QED BY <1>1, <1>2, <2>1 DEF Entered, RowsAreEntered
<1>5. PICK S : loaded \in Seq(S)
  BY DEF RowsAreEntered
<1> HIDE DEF kept
<1>6. loaded' \in Seq(S \cup {report})
  BY <1>1, <1>5
<1>7. \A k \in DOMAIN (loaded') : Entered(loaded'[k])
  <2>1. \A k \in DOMAIN (loaded') : (k \in DOMAIN loaded /\ loaded'[k] = loaded[k]) \/ loaded'[k] = report
    BY <1>1, <1>5
  <2> QED BY <1>4, <2>1 DEF RowsAreEntered
<1> QED BY <1>3, <1>6, <1>7 DEF RowsAreEntered, Entered

LEMMA RowsStayEntered ==
  ASSUME RowsAreEntered, [ReadsNext]_readsVars
  PROVE  RowsAreEntered'
<1>1. ASSUME NEW b \in Batches, Import(b) PROVE RowsAreEntered'
  <2>1. BatchRows[b] \subseteq RowIds
    BY ReadsAssumption
  <2> QED BY <1>1, <2>1, WritersLeaveReports DEF Import, RowsAreEntered
<1>2. ASSUME NEW r \in RowIds, Enter(r) PROVE RowsAreEntered'
  BY <1>2, WritersLeaveReports DEF Enter, RowsAreEntered
<1>3. ASSUME NEW r \in RowIds, RecordSuggestion(r) \/ ConfirmLabel(r) PROVE RowsAreEntered'
  BY <1>3, LabelEnters
<1>4. ASSUME stored' = stored, verdict' = verdict, seen' = seen, loaded' = loaded PROVE RowsAreEntered'
  BY <1>4 DEF RowsAreEntered, Entered
<1>5. ASSUME NEW kind \in {"months", "report", "compare"}, NEW ym \in Months, Ask(kind, ym) PROVE RowsAreEntered'
  BY <1>4, <1>5 DEF Ask
<1>6. CASE SelectRows
  <2> DEFINE read == ForMonth(Head(plan).year, Head(plan).month)
  <2>1. read \subseteq RowIds
    BY DEF ForMonth, RowsAreEntered
  <2>2. stored' = stored /\ verdict' = verdict /\ loaded' = loaded
    BY <1>6 DEF SelectRows, Data
  <2>3. seen' = [seen EXCEPT !.rows = read, !.verdicts = verdict]
    BY <1>6 DEF SelectRows
  <2> HIDE DEF read
  <2>4. seen' \in [rows : SUBSET RowIds, batches : {seen'.batches}, dated : {seen'.dated}, verdicts : {seen'.verdicts}]
    BY <2>1, <2>3 DEF RowsAreEntered
  <2>5. seen'.rows = read /\ seen'.verdicts = verdict
    BY <2>3 DEF RowsAreEntered
  <2>6. \A r \in seen'.rows : seen'.verdicts[r] \in Verdicts
    BY <2>1, <2>5 DEF RowsAreEntered
  <2> QED BY <2>2, <2>4, <2>6 DEF RowsAreEntered, Entered
<1>7. ASSUME stored' = stored, verdict' = verdict, loaded' = loaded,
             NEW name \in {"batches", "dated"}, NEW value, seen' = [seen EXCEPT ![name] = value]
      PROVE  RowsAreEntered'
  <2>1. seen'.rows = seen.rows /\ seen'.verdicts = seen.verdicts
    BY <1>7 DEF RowsAreEntered
  <2>2. seen' \in [rows : SUBSET RowIds, batches : {seen'.batches}, dated : {seen'.dated}, verdicts : {seen'.verdicts}]
    BY <1>7 DEF RowsAreEntered
  <2> QED BY <1>7, <2>1, <2>2 DEF RowsAreEntered, Entered
<1>8. CASE SelectWindows
  <2>1. seen' = [seen EXCEPT !["batches"] = SnapshotBatches]
    BY <1>8 DEF SelectWindows
  <2> QED BY <1>7, <1>8, <2>1 DEF SelectWindows, Data
<1>9. CASE SelectDates
  <2>1. seen' = [seen EXCEPT !["dated"] = stored]
    BY <1>9 DEF SelectDates
  <2> QED BY <1>7, <1>9, <2>1 DEF SelectDates, Data
<1>10. CASE SelectAwaiting
  BY <1>10, SelectAwaitingEnters
<1>11. CASE UNCHANGED readsVars
  BY <1>4, <1>11 DEF readsVars
<1> QED BY <1>1, <1>2, <1>3, <1>5, <1>6, <1>8, <1>9, <1>10, <1>11 DEF ReadsNext, WriterStep, ReaderStep

\* What a report keeps are rows that a tree can be built from.
LEMMA EntriesAreAMonth ==
  ASSUME NEW report, Entered(report)
  PROVE  /\ IsMonth(EntriesOf(report))
         /\ report.classified =
              Cardinality(DOMAIN EntriesOf(report) \ Labelled(EntriesOf(report), {NoLabel, Abstain}))
<1> DEFINE rows == EntriesOf(report)
           S == report.rows
<1>1. DOMAIN rows = S
  BY DEF EntriesOf
<1>2. \A r \in S : /\ rows[r].amount = Amount[r]
                   /\ rows[r].label = Effective(report.verdicts[r])
                   /\ rows[r].confirmed = (report.verdicts[r].confirmed # Null)
  BY DEF EntriesOf
<1>3. S \subseteq RowIds
  BY DEF Entered
<1>4. IsFiniteSet(S) /\ S \cap Codes = {}
  BY <1>3, LedgerAssumption, FS_Subset
<1>5. ASSUME NEW r \in S PROVE rows[r].label = Effective(report.verdicts[r]) /\ rows[r].label \in Recognised
  <2>1. report.verdicts[r] \in Verdicts
    BY DEF Entered
  <2>2. Effective(report.verdicts[r]) \in Labels \cup {Null, Unknown}
    BY <2>1 DEF Effective, Verdicts
  <2>3. Labels \cup {Null, Unknown} \subseteq Recognised
    BY LedgerAssumption DEF Recognised, Null, Unknown, NoLabel, Abstain
  <2> QED BY <1>2, <2>2, <2>3
<1>6. \A r \in S : rows[r].amount \in Int /\ rows[r].confirmed \in BOOLEAN
  <2> TAKE r \in S
  <2>1. rows[r].amount \in Int
    BY <1>2, <1>3, LedgerAssumption
  <2>2. rows[r].confirmed \in BOOLEAN
    <3> DEFINE set == report.verdicts[r].confirmed # Null
    <3>1. set \in BOOLEAN
      OBVIOUS
    <3> HIDE DEF set
    <3> QED BY <1>2, <3>1, Zenon DEF set
  <2> QED BY <2>1, <2>2
<1> HIDE DEF rows, S
<1>7. IsMonth(rows)
  BY <1>1, <1>4, <1>5, <1>6 DEF IsMonth
<1>8. {r \in S : IsClassified(report.verdicts[r])} = S \ Labelled(rows, {NoLabel, Abstain})
  BY <1>1, <1>5 DEF Labelled, IsClassified, NoLabel, Abstain, Null, Unknown
<1>9. report.classified = Cardinality(S \ Labelled(rows, {NoLabel, Abstain}))
  <2>1. report.classified = Cardinality({r \in S : IsClassified(report.verdicts[r])})
    BY DEF Entered, S
  <2> QED BY <1>8, <2>1
<1> QED BY <1>1, <1>7, <1>9 DEF rows, S

\* Every report that is read builds, has each of its rows as exactly one leaf,
\* counts as many rows outside `unclassified` as its coverage says, and claims
\* confirmation only if a person confirmed every row (monthly.py).
THEOREM ReportsDoBuild == MCSpec => []ReportsBuild
<1>1. MCInit => RowsAreEntered
  BY SettledIsEntered
<1>2. RowsAreEntered /\ [ReadsNext]_readsVars => RowsAreEntered'
  BY RowsStayEntered
<1>3. RowsAreEntered => ReportsBuild
  <2> SUFFICES ASSUME RowsAreEntered, NEW i \in 1..Len(loaded)
               PROVE  /\ TreeAccountsForRows(EntriesOf(loaded[i]), loaded[i].classified)
                      /\ EvidenceIsHonestFor(EntriesOf(loaded[i]))
    BY DEF ReportsBuild
  <2>1. i \in DOMAIN loaded
    <3>1. \E S : loaded \in Seq(S)
      BY DEF RowsAreEntered
    <3> QED BY <3>1
  <2>2. Entered(loaded[i])
    BY <2>1 DEF RowsAreEntered
  <2> DEFINE rows == EntriesOf(loaded[i])
  <2>3. /\ IsMonth(rows)
        /\ loaded[i].classified = Cardinality(DOMAIN rows \ Labelled(rows, {NoLabel, Abstain}))
    BY <2>2, EntriesAreAMonth
  <2> HIDE DEF rows
  <2>4. TreeAccountsForRows(rows, loaded[i].classified) /\ EvidenceIsHonestFor(rows)
    BY <2>3, TreeHolds, EvidenceHolds
  <2> QED BY <2>4 DEF rows
<1> QED BY <1>1, <1>2, <1>3, PTL DEF MCSpec

\* In every comparison that is read, the merchants' deltas add up to the
\* change in net spending, each observed debit is in one disclosed bucket, and
\* the tree differs from net spending by what is disclosed as inconsistent
\* (spend_change.py, observed_debits.py).
THEOREM DebitsAreAccounted == MCSpec => []DebitsAreAccountedFor
<1>1. MCInit => RowsAreEntered
  BY SettledIsEntered
<1>2. RowsAreEntered /\ [ReadsNext]_readsVars => RowsAreEntered'
  BY RowsStayEntered
<1>3. RowsAreEntered => DebitsAreAccountedFor
  <2> SUFFICES ASSUME RowsAreEntered, Len(loaded) = 2
               PROVE  DebitsAccountedFor(EntriesOf(loaded[1]), EntriesOf(loaded[2]))
    BY DEF DebitsAreAccountedFor
  <2>1. DOMAIN loaded = 1..2
    <3>1. \E S : loaded \in Seq(S)
      BY DEF RowsAreEntered
    <3> QED BY <3>1
  <2>2. Entered(loaded[1]) /\ Entered(loaded[2])
    BY <2>1 DEF RowsAreEntered
  <2> QED BY <2>2, EntriesAreAMonth, DebitsHold
<1> QED BY <1>1, <1>2, <1>3, PTL DEF MCSpec
=============================================================================
