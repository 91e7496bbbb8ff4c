--------------------------- MODULE SchedulingProofs ---------------------------
(***************************************************************************)
(* Theorems about what is asked for a later time: the times it is asked    *)
(* with (TimeExpr) and the errands that wait for theirs (ScheduledErrands), *)
(* for every value of their constants.                                      *)
(***************************************************************************)
EXTENDS TimeExpr, ScheduledErrands, FiniteSetTheorems, WellFoundedInduction, TLAPS

\* Induction for a set of numbers, by the well-foundedness of inclusion among finite sets.
LEMMA EveryNumber ==
  ASSUME NEW S, 0 \in S, \A n \in Nat : n \in S => n + 1 \in S
  PROVE  Nat \subseteq S
<1> SUFFICES ASSUME NEW m \in Nat, m \notin S PROVE FALSE
  OBVIOUS
<1> DEFINE T == {1..n : n \in Nat \ S}
<1>1. T \subseteq FiniteSubsetsOf(Nat) /\ T # {}
  <2>1. \A n \in Nat : IsFiniteSet(1..n) /\ 1..n \subseteq Nat
    BY FS_Interval
  <2>2. QED
    BY <2>1 DEF FiniteSubsetsOf
<1>2. PICK x \in T : \A y \in T : ~(<<y, x>> \in StrictSubsetOrdering(Nat))
  BY <1>1, FS_StrictSubsetOrderingWellFounded, WFMin, Zenon
<1>3. PICK n \in Nat \ S : x = 1..n
  BY <1>2
<1>4. n # 0 /\ n - 1 \in Nat /\ (n - 1) + 1 = n
  BY <1>3
<1>5. n - 1 \in Nat \ S
  BY <1>3, <1>4
<1>6. 1..(n - 1) \in T
  BY <1>5
<1>7. 1..(n - 1) \subseteq 1..n /\ n \in 1..n /\ n \notin 1..(n - 1) /\ 1..n \subseteq Nat
  BY <1>4
<1>8. <<1..(n - 1), x>> \in StrictSubsetOrdering(Nat)
  BY <1>3, <1>7 DEF StrictSubsetOrdering
<1>9. QED
  BY <1>2, <1>6, <1>8

-----------------------------------------------------------------------------
(* Sums. *)

\* f is the sums of the first numbers of s, as SumTo defines them.
Sums(f, s, n) == f = [i \in 0..n |-> IF i = 0 THEN 0 ELSE f[i - 1] + s[i]]

\* The recursion of SumTo has a solution, and solutions agree where both are defined.
LEMMA SumExists ==
  ASSUME NEW s, NEW n \in Nat
  PROVE  \E f : Sums(f, s, n)
<1> DEFINE S == {k \in Nat : \E f : Sums(f, s, k)}
<1>1. 0 \in S
  <2>1. Sums([i \in 0..0 |-> 0], s, 0)
    BY DEF Sums
  <2>2. QED
    BY <2>1
<1>2. ASSUME NEW k \in Nat, k \in S
      PROVE  k + 1 \in S
  <2>1. PICK f : Sums(f, s, k)
    BY <1>2
  <2> DEFINE v == f[k] + s[k + 1]
             g == [i \in 0..(k + 1) |-> IF i = k + 1 THEN v ELSE f[i]]
  <2>2. \A i \in 0..k : g[i] = f[i]
    OBVIOUS
  <2>3. g[k + 1] = v
    OBVIOUS
  <2>4. \A i \in 0..k : f[i] = IF i = 0 THEN 0 ELSE f[i - 1] + s[i]
    BY <2>1 DEF Sums
  <2> HIDE DEF v
  <2>5. ASSUME NEW i \in 0..(k + 1)
        PROVE  g[i] = IF i = 0 THEN 0 ELSE g[i - 1] + s[i]
    <3>1. CASE i = k + 1
      <4>1. i # 0 /\ i - 1 = k /\ k \in 0..k
        BY <3>1
      <4>2. g[i - 1] = f[k] /\ g[i] = v
        BY <2>2, <2>3, <3>1, <4>1
      <4> HIDE DEF g
      <4>3. QED
        BY <3>1, <4>1, <4>2 DEF v
    <3>2. CASE i # k + 1
      <4>1. i \in 0..k /\ (i # 0 => i - 1 \in 0..k)
        BY <3>2
      <4>2. g[i] = f[i] /\ (i # 0 => g[i - 1] = f[i - 1])
        BY <2>2, <4>1
      <4> HIDE DEF g
      <4>3. QED
        BY <2>4, <4>1, <4>2
    <3>3. QED
      BY <3>1, <3>2
  <2>6. g = [i \in 0..(k + 1) |-> g[i]]
    OBVIOUS
  <2> HIDE DEF g
  <2>7. Sums(g, s, k + 1)
    BY <2>5, <2>6 DEF Sums
  <2>8. QED
    BY <2>7
<1> HIDE DEF S
<1>3. n \in S
  BY <1>1, <1>2, EveryNumber
<1>4. QED
  BY <1>3 DEF S

LEMMA SumsAgree ==
  ASSUME NEW s, NEW n \in Nat, NEW f, NEW g, Sums(f, s, n), Sums(g, s, n + 1)
  PROVE  f[n] = g[n]
<1> DEFINE S == {k \in Nat : k <= n => f[k] = g[k]}
<1>1. \A i \in 0..n : f[i] = IF i = 0 THEN 0 ELSE f[i - 1] + s[i]
  BY DEF Sums
<1>2. \A i \in 0..(n + 1) : g[i] = IF i = 0 THEN 0 ELSE g[i - 1] + s[i]
  BY DEF Sums
<1>3. 0 \in S
  BY <1>1, <1>2
<1>4. ASSUME NEW k \in Nat, k \in S
      PROVE  k + 1 \in S
  <2> SUFFICES ASSUME k + 1 <= n PROVE f[k + 1] = g[k + 1]
    OBVIOUS
  <2>1. k + 1 \in 0..n /\ k + 1 \in 0..(n + 1) /\ k + 1 # 0 /\ (k + 1) - 1 = k /\ k <= n
    OBVIOUS
  <2>2. f[k] = g[k]
    BY <1>4, <2>1
  <2>3. QED
    BY <1>1, <1>2, <2>1, <2>2
<1> HIDE DEF S
<1>5. n \in S
  BY <1>3, <1>4, EveryNumber
<1>6. QED
  BY <1>5 DEF S

\* So SumTo does what its recursion says.
LEMMA SumStep ==
  ASSUME NEW s, NEW n \in Nat
  PROVE  SumTo(s, 0) = 0 /\ SumTo(s, n + 1) = SumTo(s, n) + s[n + 1]
<1>1. ASSUME NEW k \in Nat
      PROVE  SumTo(s, k) = (CHOOSE f : Sums(f, s, k))[k]
  BY Zenon DEF SumTo, Sums
<1>2. \A k \in Nat : Sums(CHOOSE f : Sums(f, s, k), s, k)
  BY SumExists, Zenon
<1> DEFINE F(k) == CHOOSE f : Sums(f, s, k)
<1>3. \A k \in Nat : SumTo(s, k) = F(k)[k] /\ Sums(F(k), s, k)
  BY <1>1, <1>2
<1> HIDE DEF F
<1>4. SumTo(s, 0) = 0
  <2>1. F(0) = [i \in 0..0 |-> IF i = 0 THEN 0 ELSE F(0)[i - 1] + s[i]]
    BY <1>3 DEF Sums
  <2>2. F(0)[0] = 0
    BY <2>1
  <2>3. QED
    BY <1>3, <2>2
<1>5. F(n)[n] = F(n + 1)[n]
  BY <1>3, SumsAgree
<1>6. F(n + 1)[n + 1] = F(n + 1)[n] + s[n + 1]
  <2>1. F(n + 1) = [i \in 0..(n + 1) |-> IF i = 0 THEN 0 ELSE F(n + 1)[i - 1] + s[i]]
    BY <1>3 DEF Sums
  <2>2. n + 1 \in 0..(n + 1) /\ n + 1 # 0 /\ (n + 1) - 1 = n
    OBVIOUS
  <2> DEFINE h == F(n + 1)
  <2>3. \A i \in 0..(n + 1) : h[i] = IF i = 0 THEN 0 ELSE h[i - 1] + s[i]
    BY <2>1
  <2> HIDE DEF h
  <2>4. h[n + 1] = h[n] + s[n + 1]
    BY <2>2, <2>3
  <2>5. QED
    BY <2>4 DEF h
<1>7. SumTo(s, n) = F(n)[n] /\ SumTo(s, n + 1) = F(n + 1)[n + 1]
  BY <1>3
<1>8. QED
  BY <1>4, <1>5, <1>6, <1>7

-----------------------------------------------------------------------------
(* The calendar. *)

LeapDay(y) == IF Leap(y) THEN 1 ELSE 0

\* The length of month m of year y, where months beyond December run on.
LengthOf(y, m) == Lengths(y + (m - 1) \div 12)[((m - 1) % 12) + 1]

\* Every month has 28 to 31 days.
LEMMA LengthsTyped ==
  ASSUME NEW y \in Int, NEW m \in 1..12
  PROVE  Lengths(y)[m] \in 28..31
<1>1. m \in {1, 2, 3, 4, 5, 6, 7, 8, 9, 10, 11, 12}
  OBVIOUS
<1>2. QED
  BY <1>1 DEF Lengths

\* A year has 365 days, a leap year one more.
LEMMA YearSum ==
  ASSUME NEW y \in Int
  PROVE  /\ SumTo(Lengths(y), 12) = 365 + LeapDay(y)
         /\ \A m \in 0..12 : SumTo(Lengths(y), m) \in Nat
<1> DEFINE s == Lengths(y)
           f(m) == SumTo(s, m)
<1>1. /\ s[1] = 31 /\ s[2] = 28 + LeapDay(y) /\ s[3] = 31 /\ s[4] = 30 /\ s[5] = 31 /\ s[6] = 30
      /\ s[7] = 31 /\ s[8] = 31 /\ s[9] = 30 /\ s[10] = 31 /\ s[11] = 30 /\ s[12] = 31
  BY DEF Lengths, LeapDay
<1>2. LeapDay(y) \in {0, 1}
  BY DEF LeapDay
<1> HIDE DEF s
<1>3. f(0) = 0 /\ \A m \in 0..11 : f(m + 1) = f(m) + s[m + 1]
  BY SumStep
<1> HIDE DEF f
<1>4. /\ f(1) = f(0) + s[1] /\ f(2) = f(1) + s[2] /\ f(3) = f(2) + s[3] /\ f(4) = f(3) + s[4]
      /\ f(5) = f(4) + s[5] /\ f(6) = f(5) + s[6] /\ f(7) = f(6) + s[7] /\ f(8) = f(7) + s[8]
      /\ f(9) = f(8) + s[9] /\ f(10) = f(9) + s[10] /\ f(11) = f(10) + s[11]
      /\ f(12) = f(11) + s[12]
  <2>1. \A m \in {0, 1, 2, 3, 4, 5, 6, 7, 8, 9, 10, 11} : f(m + 1) = f(m) + s[m + 1]
    BY <1>3
  <2>2. f(0 + 1) = f(0) + s[0 + 1] /\ f(1 + 1) = f(1) + s[1 + 1] /\ f(2 + 1) = f(2) + s[2 + 1]
        /\ f(3 + 1) = f(3) + s[3 + 1] /\ f(4 + 1) = f(4) + s[4 + 1] /\ f(5 + 1) = f(5) + s[5 + 1]
        /\ f(6 + 1) = f(6) + s[6 + 1] /\ f(7 + 1) = f(7) + s[7 + 1] /\ f(8 + 1) = f(8) + s[8 + 1]
        /\ f(9 + 1) = f(9) + s[9 + 1] /\ f(10 + 1) = f(10) + s[10 + 1] /\ f(11 + 1) = f(11) + s[11 + 1]
    BY <2>1
  <2>3. QED
    BY <2>2
<1>5. f(12) = 365 + LeapDay(y)
  BY <1>1, <1>2, <1>3, <1>4
<1>6. ASSUME NEW m \in 0..12 PROVE f(m) \in Nat
  <2>1. m \in {0, 1, 2, 3, 4, 5, 6, 7, 8, 9, 10, 11, 12}
    OBVIOUS
  <2>2. /\ f(0) \in Nat /\ f(1) \in Nat /\ f(2) \in Nat /\ f(3) \in Nat /\ f(4) \in Nat
        /\ f(5) \in Nat /\ f(6) \in Nat /\ f(7) \in Nat /\ f(8) \in Nat /\ f(9) \in Nat
        /\ f(10) \in Nat /\ f(11) \in Nat /\ f(12) \in Nat
    BY <1>1, <1>2, <1>3, <1>4
  <2>3. QED
    BY <2>1, <2>2
<1>7. QED
  BY <1>5, <1>6 DEF f, s

\* The next year begins after all the days of this one.
LEMMA NextYear ==
  ASSUME NEW y \in Int
  PROVE  DaysBefore(y) \in Int /\ DaysBefore(y + 1) = DaysBefore(y) + 365 + LeapDay(y)
BY DEF DaysBefore, Leap, LeapDay

\* The days of a month follow one another, and those of the next month follow them.
LEMMA NextMonth ==
  ASSUME NEW y \in Int, NEW m \in Int, NEW d \in Int
  PROVE  /\ Date(y, m, d) \in Int
         /\ \A n \in Int : Date(y, m, d + n) = Date(y, m, d) + n
         /\ Date(y, m + 1, d) = Date(y, m, d) + LengthOf(y, m)
         /\ LengthOf(y, m) \in 28..31
<1> DEFINE a == (m - 1) \div 12
           b == (m - 1) % 12
           k == b + 1
           z == y + a
           base == DaysBefore(FirstYear)
<1>1. base \in Int
  BY NextYear, TimeExprAssumption
<1>2. a \in Int /\ b \in 0..11 /\ z \in Int /\ k \in 1..12 /\ k - 1 = b
  OBVIOUS
<1>3. Date(y, m, d) = DaysBefore(z) - base + SumTo(Lengths(z), b) + d - 1
  BY <1>2 DEF Date
<1>4. DaysBefore(z) \in Int /\ SumTo(Lengths(z), b) \in Nat
  <2> HIDE DEF a, b, k, z
  <2>1. b \in 0..12
    BY <1>2
  <2>2. QED
    BY <1>2, <2>1, NextYear, YearSum
<1>5. ASSUME NEW n \in Int PROVE Date(y, m, d + n) = Date(y, m, d) + n
  <2>1. Date(y, m, d + n) = DaysBefore(z) - base + SumTo(Lengths(z), b) + (d + n) - 1
    BY <1>2 DEF Date
  <2> HIDE DEF a, b, k, z, base
  <2>2. QED
    BY <1>1, <1>3, <1>4, <2>1
<1>6. LengthOf(y, m) = Lengths(z)[k]
  BY DEF LengthOf
<1>7. LengthOf(y, m) \in 28..31
  <2> HIDE DEF a, b, k, z
  <2>1. QED
    BY <1>2, <1>6, LengthsTyped
<1>8. Date(y, m + 1, d) = Date(y, m, d) + LengthOf(y, m)
  <2> DEFINE a1 == ((m + 1) - 1) \div 12
             b1 == ((m + 1) - 1) % 12
             z1 == y + a1
  <2>1. Date(y, m + 1, d) = DaysBefore(z1) - base + SumTo(Lengths(z1), (b1 + 1) - 1) + d - 1
    BY DEF Date
  <2>2. b1 \in 0..11 /\ (b1 + 1) - 1 = b1
    OBVIOUS
  <2>3. \/ b # 11 /\ a1 = a /\ b1 = b + 1
        \/ b = 11 /\ a1 = a + 1 /\ b1 = 0
    <3>1. (m + 1) - 1 = m /\ m - 1 \in Int
      OBVIOUS
    <3>2. /\ m - 1 = 12 * a + b /\ m = 12 * a1 + b1 /\ a1 \in Int /\ b1 \in 0..11
      BY <3>1
    <3> HIDE DEF a, b, a1, b1
    <3>3. QED
      BY <1>2, <3>2
  <2>4. SumTo(Lengths(z), b + 1) = SumTo(Lengths(z), b) + Lengths(z)[b + 1]
    <3> HIDE DEF b, z
    <3>1. QED
      BY <1>2, SumStep
  <2>5. CASE b # 11
    <3>1. z1 = z /\ b1 = b + 1
      BY <2>3, <2>5
    <3>2. Date(y, m + 1, d) = DaysBefore(z) - base + SumTo(Lengths(z), b + 1) + d - 1
      BY <2>1, <2>2, <3>1
    <3> HIDE DEF a, b, z, base, a1, b1, z1
    <3>3. QED
      BY <1>1, <1>2, <1>3, <1>4, <1>6, <1>7, <2>4, <3>2
  <2>6. CASE b = 11
    <3>1. z1 = z + 1 /\ b1 = 0
      BY <2>3, <2>6
    <3>2. Date(y, m + 1, d) = DaysBefore(z + 1) - base + SumTo(Lengths(z + 1), 0) + d - 1
      BY <2>1, <2>2, <3>1
    <3> HIDE DEF a, b, k, z, base, a1, b1, z1
    <3>3. SumTo(Lengths(z + 1), 0) = 0
      BY SumStep
    <3>4. SumTo(Lengths(z), b + 1) = 365 + LeapDay(z)
      BY <1>2, <2>6, YearSum
    <3>5. DaysBefore(z + 1) = DaysBefore(z) + 365 + LeapDay(z) /\ LeapDay(z) \in {0, 1}
      BY <1>2, NextYear DEF LeapDay
    <3>6. k = b + 1
      BY DEF k
    <3>7. QED
      BY <1>1, <1>2, <1>3, <1>4, <1>6, <1>7, <2>4, <2>6, <3>2, <3>3, <3>4, <3>5, <3>6
  <2>7. QED
    BY <2>5, <2>6
<1>9. Date(y, m, d) \in Int
  <2> HIDE DEF a, b, z, base
  <2>1. QED
    BY <1>1, <1>3, <1>4
<1>10. QED
  BY <1>5, <1>7, <1>8, <1>9

\* NextMonth's days, between any two.
LEMMA DaysRunOn ==
  \A y, m, d, e \in Int : Date(y, m, d) \in Int /\ Date(y, m, e) = Date(y, m, d) + (e - d)
<1>1. SUFFICES ASSUME NEW y \in Int, NEW m \in Int, NEW d \in Int, NEW e \in Int
               PROVE  Date(y, m, d) \in Int /\ Date(y, m, e) = Date(y, m, d) + (e - d)
  OBVIOUS
<1>2. e = d + (e - d) /\ e - d \in Int
  OBVIOUS
<1>3. Date(y, m, d) \in Int /\ \A n \in Int : Date(y, m, d + n) = Date(y, m, d) + n
  BY NextMonth
<1>4. Date(y, m, d + (e - d)) = Date(y, m, d) + (e - d)
  BY <1>2, <1>3, Zenon
<1>5. QED
  BY <1>2, <1>3, <1>4

-----------------------------------------------------------------------------
(* Counting on in the calendar. *)

\* Years are twelve months.
LEMMA YearsOn ==
  ASSUME NEW y \in Int, NEW m \in Int, NEW d \in Int, NEW k \in Int
  PROVE  Date(y + k, m, d) = Date(y, m + 12 * k, d)
<1> DEFINE a == (m - 1) \div 12
           b == (m - 1) % 12
           a1 == (m + 12 * k - 1) \div 12
           b1 == (m + 12 * k - 1) % 12
<1>1. a1 = a + k /\ b1 = b
  <2>1. /\ m - 1 \in Int /\ m + 12 * k - 1 \in Int
        /\ m - 1 = 12 * a + b /\ a \in Int /\ b \in 0..11
        /\ m + 12 * k - 1 = 12 * a1 + b1 /\ a1 \in Int /\ b1 \in 0..11
    OBVIOUS
  <2> HIDE DEF a, b, a1, b1
  <2>2. 12 * (a1 - a - k) = b - b1
    BY <2>1
  <2>3. QED
    BY <2>1, <2>2
<1>2. (y + k) + a = y + a1
  <2>1. a \in Int
    OBVIOUS
  <2> HIDE DEF a, b, a1, b1
  <2>2. QED
    BY <1>1, <2>1
<1>3. Date(y + k, m, d) = DaysBefore((y + k) + a) - DaysBefore(FirstYear)
                          + SumTo(Lengths((y + k) + a), (b + 1) - 1) + d - 1
  BY DEF Date
<1>4. Date(y, m + 12 * k, d) = DaysBefore(y + a1) - DaysBefore(FirstYear)
                               + SumTo(Lengths(y + a1), (b1 + 1) - 1) + d - 1
  BY DEF Date
<1>5. QED
  BY <1>1, <1>2, <1>3, <1>4

\* A later month is later, by the days of the months between.
LEMMA MonthsOn ==
  ASSUME NEW y \in Int, NEW m \in Int, NEW d \in Int, NEW n \in Nat
  PROVE  /\ Date(y, m + n, d) >= Date(y, m, d)
         /\ Date(y, m + n, d) <= Date(y, m, d) + 31 * n
<1> DEFINE S == {k \in Nat : /\ Date(y, m + k, d) >= Date(y, m, d)
                             /\ Date(y, m + k, d) <= Date(y, m, d) + 31 * k}
<1>1. 0 \in S
  <2>1. m + 0 = m /\ Date(y, m, d) \in Int
    BY NextMonth
  <2>2. QED
    BY <2>1
<1>2. ASSUME NEW k \in Nat, k \in S
      PROVE  k + 1 \in S
  <2>1. m + k \in Int /\ (m + k) + 1 = m + (k + 1)
    OBVIOUS
  <2>2. /\ Date(y, m, d) \in Int /\ Date(y, m + k, d) \in Int
        /\ Date(y, m + (k + 1), d) = Date(y, m + k, d) + LengthOf(y, m + k)
        /\ LengthOf(y, m + k) \in 28..31
    BY <2>1, NextMonth
  <2>3. QED
    BY <1>2, <2>2
<1> HIDE DEF S
<1>3. n \in S
  BY <1>1, <1>2, EveryNumber
<1>4. QED
  BY <1>3 DEF S

-----------------------------------------------------------------------------
(* The date of a day. *)

\* The last day, and that c is the date of a day.
Last == Date(LastYear, 12, 31)
IsDate(c, day) == c \in Dates /\ c.d <= Lengths(c.y)[c.m] /\ Date(c.y, c.m, c.d) = day

\* The first day is the first of January.
LEMMA FirstDate == Last \in Int /\ Date(FirstYear, 1, 1) = 0
<1>1. Last \in Int
  BY NextMonth, TimeExprAssumption DEF Last
<1>2. /\ DaysBefore(FirstYear) \in Int
      /\ SumTo(Lengths(FirstYear), 0) = 0
  BY NextYear, SumStep, TimeExprAssumption
<1>3. (1 - 1) \div 12 = 0 /\ (1 - 1) % 12 = 0 /\ FirstYear + 0 = FirstYear
  BY TimeExprAssumption
<1>4. Date(FirstYear, 1, 1) = DaysBefore(FirstYear) - DaysBefore(FirstYear)
                              + SumTo(Lengths(FirstYear), 0) + 1 - 1
  BY <1>3 DEF Date
<1>5. QED
  BY <1>1, <1>2, <1>4

\* The day after a date has a date, up to the last day.
LEMMA NextDate ==
  ASSUME NEW day \in Int, NEW c, IsDate(c, day), day + 1 <= Last
  PROVE  \E e : IsDate(e, day + 1)
<1>1. /\ c \in Dates /\ c.y \in FirstYear..LastYear /\ c.m \in 1..12 /\ c.d \in 1..31
      /\ c.y \in Int /\ c.m \in Int /\ c.d \in Int
      /\ c.d <= Lengths(c.y)[c.m] /\ Date(c.y, c.m, c.d) = day
  BY TimeExprAssumption DEF IsDate, Dates
<1>2. \A n \in Int : Date(c.y, c.m, c.d + n) = Date(c.y, c.m, c.d) + n
  BY <1>1, DaysRunOn
<1>3. Lengths(c.y)[c.m] \in 28..31 /\ LengthOf(c.y, c.m) = Lengths(c.y)[c.m]
  <2>1. c.m - 1 \in 0..11 /\ (c.m - 1) \div 12 = 0 /\ (c.m - 1) % 12 = c.m - 1
    BY <1>1
  <2>2. c.y + 0 = c.y /\ (c.m - 1) + 1 = c.m
    BY <1>1
  <2>3. QED
    BY <1>1, <2>1, <2>2, LengthsTyped DEF LengthOf
<1>4. CASE c.d < Lengths(c.y)[c.m]
  <2> DEFINE e == [y |-> c.y, m |-> c.m, d |-> c.d + 1]
  <2>1. e \in Dates /\ e.d <= Lengths(e.y)[e.m]
    BY <1>1, <1>3, <1>4 DEF Dates
  <2>2. Date(c.y, c.m, c.d + 1) = day + 1
    BY <1>1, <1>2
  <2>3. IsDate(e, day + 1)
    BY <2>1, <2>2 DEF IsDate
  <2>4. QED
    BY <2>3
<1>5. CASE c.d = Lengths(c.y)[c.m]
  <2>1. Date(c.y, c.m + 1, 1) = day + 1
    <3>1. 1 \in Int /\ c.d + (1 - c.d) = 1 /\ 1 - c.d \in Int
      BY <1>1
    <3>2. Date(c.y, c.m, c.d + (1 - c.d)) = Date(c.y, c.m, c.d) + (1 - c.d)
      BY <3>1, <1>2
    <3>3. /\ Date(c.y, c.m + 1, 1) = Date(c.y, c.m, 1) + LengthOf(c.y, c.m)
          /\ Date(c.y, c.m, 1) \in Int
      BY <1>1, <3>1, NextMonth
    <3>4. QED
      BY <1>1, <1>3, <1>5, <3>1, <3>2, <3>3
  <2>2. CASE c.m < 12
    <3> DEFINE e == [y |-> c.y, m |-> c.m + 1, d |-> 1]
    <3>1. c.m + 1 \in 1..12
      BY <1>1, <2>2
    <3>2. Lengths(c.y)[c.m + 1] \in 28..31
      BY <1>1, <3>1, LengthsTyped
    <3>3. e \in Dates /\ e.d <= Lengths(e.y)[e.m]
      BY <1>1, <3>1, <3>2 DEF Dates
    <3>4. IsDate(e, day + 1)
      BY <2>1, <3>3 DEF IsDate
    <3>5. QED
      BY <3>4
  <2>3. CASE c.m = 12
    <3> DEFINE e == [y |-> c.y + 1, m |-> 1, d |-> 1]
    <3>1. Lengths(c.y)[12] = 31
      BY DEF Lengths
    <3>2. c.y # LastYear
      BY <1>1, <1>5, <2>3, <3>1 DEF Last
    <3>3. c.y + 1 \in FirstYear..LastYear /\ c.y + 1 \in Int
      BY <1>1, <3>2, TimeExprAssumption
    <3>4. Lengths(c.y + 1)[1] \in 28..31
      BY <3>3, LengthsTyped
    <3>5. e \in Dates /\ e.d <= Lengths(e.y)[e.m]
      BY <3>3, <3>4 DEF Dates
    <3>6. Date(c.y + 1, 1, 1) = Date(c.y, 1 + 12 * 1, 1) /\ 1 + 12 * 1 = c.m + 1
      BY <1>1, <2>3, YearsOn
    <3>7. IsDate(e, day + 1)
      BY <2>1, <3>5, <3>6 DEF IsDate
    <3>8. QED
      BY <3>7
  <2>4. QED
    BY <1>1, <2>2, <2>3
<1>6. QED
  BY <1>1, <1>3, <1>4, <1>5

\* The calendar has the date of every day.
LEMMA CalendarRight ==
  ASSUME NEW day \in 0..Last
  PROVE  IsDate(Calendar[day], day)
<1>1. Last \in Int
  BY FirstDate
<1> DEFINE S == {n \in Nat : n <= Last => \E c : IsDate(c, n)}
<1>2. 0 \in S
  <2> DEFINE e == [y |-> FirstYear, m |-> 1, d |-> 1]
  <2>1. Lengths(FirstYear)[1] \in 28..31
    BY LengthsTyped, TimeExprAssumption
  <2>2. e \in Dates /\ e.d <= Lengths(e.y)[e.m]
    BY <2>1, TimeExprAssumption DEF Dates
  <2>3. IsDate(e, 0)
    BY <2>2, FirstDate DEF IsDate
  <2>4. QED
    BY <2>3
<1>3. ASSUME NEW n \in Nat, n \in S
      PROVE  n + 1 \in S
  <2> SUFFICES ASSUME n + 1 <= Last PROVE \E c : IsDate(c, n + 1)
    OBVIOUS
  <2>1. PICK c : IsDate(c, n)
    BY <1>1, <1>3
  <2>2. QED
    BY <2>1, NextDate
<1> HIDE DEF S
<1>4. day \in S
  BY <1>1, <1>2, <1>3, EveryNumber
<1>5. \E c \in Dates : c.d <= Lengths(c.y)[c.m] /\ Date(c.y, c.m, c.d) = day
  BY <1>1, <1>4 DEF S, IsDate
<1>6. Calendar[day] = CHOOSE c \in Dates : c.d <= Lengths(c.y)[c.m] /\ Date(c.y, c.m, c.d) = day
  BY DEF Calendar, Last
<1>7. QED
  BY <1>5, <1>6, Zenon DEF IsDate

-----------------------------------------------------------------------------
(* Instants. *)

\* The instants a request is made at.
Instants == 0..(DayTicks * (Last + 1) - 1)

\* The day of an instant, and its time of the day.
LEMMA DayOf ==
  ASSUME NEW t \in Instants
  PROVE  /\ t \div DayTicks \in 0..Last /\ t % DayTicks \in 0..(DayTicks - 1)
         /\ t = (t \div DayTicks) * DayTicks + (t % DayTicks)
<1> DEFINE a == t \div DayTicks
           r == t % DayTicks
<1>1. DayTicks \in Nat \ {0} /\ Last \in Int
  BY FirstDate, TimeExprAssumption
<1>2. t \in Int /\ t >= 0 /\ t <= DayTicks * (Last + 1) - 1
  BY <1>1 DEF Instants
<1>3. a \in Int /\ r \in 0..(DayTicks - 1) /\ t = a * DayTicks + r
  BY <1>1, <1>2
<1> HIDE DEF a, r
<1>4. a >= 0
  <2>1. SUFFICES ASSUME a <= -1 PROVE FALSE
    BY <1>3
  <2>2. a * DayTicks <= (-1) * DayTicks
    BY <1>1, <1>3, <2>1
  <2>3. QED
    BY <1>1, <1>2, <1>3, <2>2
<1>5. a <= Last
  <2>1. SUFFICES ASSUME a >= Last + 1 PROVE FALSE
    BY <1>1, <1>3
  <2>2. a * DayTicks >= (Last + 1) * DayTicks
    BY <1>1, <1>3, <2>1
  <2>3. (Last + 1) * DayTicks = DayTicks * (Last + 1)
    BY <1>1
  <2>4. a * DayTicks \in Int
    BY <1>1, <1>3
  <2>5. QED
    BY <1>1, <1>2, <1>3, <2>2, <2>3, <2>4
<1>6. QED
  BY <1>1, <1>3, <1>4, <1>5 DEF a, r

\* A day and a time of the day make an instant of that day.
LEMMA TicksOf ==
  ASSUME NEW a \in Int, NEW r \in 0..(DayTicks - 1)
  PROVE  (a * DayTicks + r) \div DayTicks = a /\ (a * DayTicks + r) % DayTicks = r
BY TimeExprAssumption

\* A number the integers have room for is not wrapped.
LEMMA NotWrapped ==
  ASSUME NEW x \in Int, -Half <= x, x < Half
  PROVE  Wrap(x) = x
<1> DEFINE z == x + Half
           w == 2 * Half
<1>1. Half \in Nat /\ z \in Int /\ 0 <= z /\ z < w /\ w \in Nat \ {0}
  BY TimeExprAssumption
<1>2. z % w = z
  <2> HIDE DEF z, w
  <2>1. QED
    BY <1>1
<1>3. Wrap(x) = z - Half
  BY <1>2 DEF Wrap
<1>4. QED
  BY <1>1, <1>3

\* The days the integers have room for: all that are reached.
Room == 372 * (LastYear - FirstYear + 2 + Reach)

LEMMA RoomEnough ==
  /\ Room \in Nat /\ Room * DayTicks \in Nat /\ Room <= Room * DayTicks
  /\ Room * DayTicks <= Half /\ Half \in Nat
  /\ Last + 372 * Reach + 1 < Room /\ 372 * (2 + Reach) <= Room
<1>1. /\ LastYear \in Nat /\ FirstYear \in Nat /\ Reach \in Nat /\ DayTicks \in Nat \ {0} /\ Half \in Nat
      /\ FirstYear <= LastYear /\ Room * DayTicks <= Half
  BY TimeExprAssumption DEF Room
<1>2. Room \in Nat /\ 372 * (2 + Reach) <= Room
  BY <1>1 DEF Room
<1>3. Room * DayTicks \in Nat /\ Room <= Room * DayTicks
  <2> HIDE DEF Room
  <2>1. Room * 1 <= Room * DayTicks
    BY <1>1, <1>2
  <2>2. QED
    BY <1>1, <1>2, <2>1
<1>4. Last <= 372 * (LastYear - FirstYear) + 371
  <2> DEFINE q == LastYear - FirstYear
             n == 11 + 12 * q
  <2>1. q \in Nat /\ n \in Nat /\ FirstYear + q = LastYear /\ 12 + 12 * q = 1 + n /\ FirstYear \in Int
    BY <1>1
  <2> HIDE DEF q, n
  <2>2. Date(FirstYear + q, 12, 31) = Date(FirstYear, 12 + 12 * q, 31)
    <3>1. 12 \in Int /\ 31 \in Int /\ q \in Int
      BY <2>1
    <3>2. QED
      BY <2>1, <3>1, YearsOn, Zenon
  <2>3. Date(FirstYear, 1 + n, 31) <= Date(FirstYear, 1, 31) + 31 * n
    BY <2>1, MonthsOn
  <2>4. Date(FirstYear, 1, 31) = Date(FirstYear, 1, 1) + (31 - 1)
    BY <2>1, DaysRunOn
  <2>5. Last = Date(FirstYear, 1 + n, 31) /\ Last \in Int
    BY <2>1, <2>2, FirstDate DEF Last
  <2>6. Last <= 30 + 31 * n
    BY <2>3, <2>4, <2>5, FirstDate
  <2>7. QED
    BY <2>1, <2>5, <2>6 DEF n, q
<1>5. Last + 372 * Reach + 1 < Room
  <2>1. Last \in Int
    BY FirstDate
  <2>2. QED
    BY <1>1, <1>4, <2>1 DEF Room
<1>6. QED
  BY <1>1, <1>2, <1>3, <1>5

\* AddDate counts months and days on from the date of the instant, as far as there is room.
LEMMA DateAdded ==
  ASSUME NEW t \in Instants, NEW ys \in Nat, NEW ms \in Nat, NEW ds \in Nat,
         31 * (ms + 12 * ys) + ds <= 372 * Reach + 1
  PROVE  LET day == t \div DayTicks
             c == Calendar[day]
         IN  /\ IsDate(c, day)
             /\ AddDate(t, ys, ms, ds)
                = (Date(c.y, (c.m + ms) + 12 * ys, c.d) + ds) * DayTicks + (t % DayTicks)
<1> DEFINE day == t \div DayTicks
           c == Calendar[day]
           r == t % DayTicks
           e == Date(c.y, (c.m + ms) + 12 * ys, c.d)
<1>1. IsDate(c, day) /\ day \in 0..Last /\ r \in 0..(DayTicks - 1)
  BY DayOf, CalendarRight
<1>2. AddDate(t, ys, ms, ds)
      = Wrap(Date(Wrap(c.y + ys), Wrap(c.m + ms), Wrap(c.d + ds)) * DayTicks + r)
  BY DEF AddDate
<1> HIDE DEF c, day, r
<1>3. /\ c.y \in Int /\ c.m \in Int /\ c.d \in Int /\ Date(c.y, c.m, c.d) = day
      /\ c.y \in FirstYear..LastYear /\ c.m \in 1..12 /\ c.d \in 1..31
  BY <1>1, TimeExprAssumption DEF IsDate, Dates
<1>4. Wrap(c.y + ys) = c.y + ys /\ Wrap(c.m + ms) = c.m + ms /\ Wrap(c.d + ds) = c.d + ds
  <2>1. /\ FirstYear \in Nat /\ LastYear \in Nat /\ Reach \in Nat /\ Half \in Nat
        /\ LastYear + Reach < Half /\ 372 * (2 + Reach) <= Half
    BY RoomEnough, TimeExprAssumption
  <2>2. /\ c.y + ys \in Int /\ -Half <= c.y + ys /\ c.y + ys < Half
        /\ c.m + ms \in Int /\ -Half <= c.m + ms /\ c.m + ms < Half
        /\ c.d + ds \in Int /\ -Half <= c.d + ds /\ c.d + ds < Half
    BY <1>3, <2>1
  <2>3. QED
    BY <2>2, NotWrapped
<1>5. Date(c.y + ys, c.m + ms, c.d + ds) = e + ds /\ e \in Int
  <2>1. c.m + ms \in Int /\ c.d + ds \in Int /\ (c.m + ms) + 12 * ys \in Int /\ (c.d + ds) - c.d = ds
    BY <1>3
  <2>2. Date(c.y + ys, c.m + ms, c.d + ds) = Date(c.y, (c.m + ms) + 12 * ys, c.d + ds)
    <3> DEFINE m == c.m + ms
               d == c.d + ds
    <3>1. m \in Int /\ d \in Int /\ ys \in Int
      BY <2>1
    <3> HIDE DEF m, d
    <3>2. Date(c.y + ys, m, d) = Date(c.y, m + 12 * ys, d)
      BY <1>3, <3>1, YearsOn
    <3>3. QED
      BY <3>2 DEF m, d
  <2>3. /\ Date(c.y, (c.m + ms) + 12 * ys, c.d) \in Int
        /\ Date(c.y, (c.m + ms) + 12 * ys, c.d + ds)
           = Date(c.y, (c.m + ms) + 12 * ys, c.d) + ((c.d + ds) - c.d)
    <3> DEFINE k == (c.m + ms) + 12 * ys
               f == c.d + ds
    <3>1. k \in Int /\ f \in Int
      BY <2>1
    <3> HIDE DEF k, f
    <3>2. Date(c.y, k, c.d) \in Int /\ Date(c.y, k, f) = Date(c.y, k, c.d) + (f - c.d)
      BY <1>3, <3>1, DaysRunOn
    <3>3. QED
      BY <3>2 DEF k, f
  <2>4. QED
    BY <2>1, <2>2, <2>3
<1>6. e >= day /\ e <= day + 31 * (ms + 12 * ys)
  <2> DEFINE k == ms + 12 * ys
  <2>1. k \in Nat /\ (c.m + ms) + 12 * ys = c.m + k
    BY <1>3
  <2> HIDE DEF k
  <2>2. /\ Date(c.y, c.m + k, c.d) >= Date(c.y, c.m, c.d)
        /\ Date(c.y, c.m + k, c.d) <= Date(c.y, c.m, c.d) + 31 * k
    BY <1>3, <2>1, MonthsOn
  <2>3. QED
    BY <1>3, <2>1, <2>2 DEF k
<1> HIDE DEF e
<1>7. e + ds \in Int /\ 0 <= e + ds /\ e + ds <= Room - 1
  <2>1. day \in Int /\ 0 <= day /\ day <= Last /\ Last \in Int /\ Reach \in Nat
    BY <1>1, FirstDate, TimeExprAssumption
  <2>2. QED
    BY <1>5, <1>6, <2>1, RoomEnough
<1>8. Wrap((e + ds) * DayTicks + r) = (e + ds) * DayTicks + r
  <2> DEFINE x == e + ds
  <2>1. x \in Int /\ 0 <= x /\ x <= Room - 1 /\ DayTicks \in Nat \ {0} /\ r \in Int /\ 0 <= r
        /\ r <= DayTicks - 1
    BY <1>1, <1>7, TimeExprAssumption
  <2> HIDE DEF x
  <2>2. x * DayTicks \in Int /\ 0 <= x * DayTicks
    BY <2>1
  <2>3. x * DayTicks <= (Room - 1) * DayTicks
    BY <2>1, RoomEnough
  <2>4. (Room - 1) * DayTicks = Room * DayTicks - DayTicks
    BY <2>1, RoomEnough
  <2>5. x * DayTicks + r \in Int /\ -Half <= x * DayTicks + r /\ x * DayTicks + r < Half
    BY <2>1, <2>2, <2>3, <2>4, RoomEnough
  <2>6. Wrap(x * DayTicks + r) = x * DayTicks + r
    BY <2>5, NotWrapped
  <2>7. QED
    BY <2>6 DEF x
<1>9. AddDate(t, ys, ms, ds) = (e + ds) * DayTicks + r
  BY <1>2, <1>4, <1>5, <1>8
<1>10. QED
  BY <1>1, <1>9 DEF c, day, r, e

\* Days on are days on.
LEMMA DaysOn ==
  ASSUME NEW t \in Instants, NEW n \in Nat, n <= 372 * Reach + 1
  PROVE  AddDate(t, 0, 0, n) = (t \div DayTicks + n) * DayTicks + (t % DayTicks)
<1> DEFINE day == t \div DayTicks
           c == Calendar[day]
<1>1. /\ IsDate(c, day)
      /\ AddDate(t, 0, 0, n)
         = (Date(c.y, (c.m + 0) + 12 * 0, c.d) + n) * DayTicks + (t % DayTicks)
  <2>1. 31 * (0 + 12 * 0) + n <= 372 * Reach + 1 /\ 0 \in Nat
    OBVIOUS
  <2> HIDE DEF c, day
  <2>2. QED
    BY <2>1, DateAdded DEF c, day
<1> HIDE DEF c, day
<1>2. (c.m + 0) + 12 * 0 = c.m /\ Date(c.y, c.m, c.d) = day
  BY <1>1, TimeExprAssumption DEF IsDate, Dates
<1>3. QED
  BY <1>1, <1>2 DEF day

\* Months on are not before.
LEMMA NotBefore ==
  ASSUME NEW t \in Instants, NEW ys \in Nat, NEW ms \in Nat, NEW ds \in Nat,
         31 * (ms + 12 * ys) + ds <= 372 * Reach + 1
  PROVE  AddDate(t, ys, ms, ds) \in Int /\ AddDate(t, ys, ms, ds) >= t
<1> DEFINE day == t \div DayTicks
           c == Calendar[day]
           r == t % DayTicks
           k == ms + 12 * ys
           e == Date(c.y, c.m + k, c.d)
<1>1. /\ IsDate(c, day)
      /\ AddDate(t, ys, ms, ds)
         = (Date(c.y, (c.m + ms) + 12 * ys, c.d) + ds) * DayTicks + r
  BY DateAdded
<1>2. DayTicks \in Nat \ {0} /\ r \in Int /\ day \in Int /\ t = day * DayTicks + r
  BY DayOf, FirstDate, TimeExprAssumption
<1> HIDE DEF c, day, r
<1>3. c.y \in Int /\ c.m \in Int /\ c.d \in Int /\ Date(c.y, c.m, c.d) = day
  BY <1>1, TimeExprAssumption DEF IsDate, Dates
<1>4. k \in Nat /\ (c.m + ms) + 12 * ys = c.m + k /\ c.m + k \in Int
  BY <1>3
<1> HIDE DEF k
<1>5. e >= day /\ e \in Int
  BY <1>3, <1>4, MonthsOn, NextMonth
<1>6. AddDate(t, ys, ms, ds) = (e + ds) * DayTicks + r
  BY <1>1, <1>4
<1> HIDE DEF e
<1>7. (e + ds) * DayTicks >= day * DayTicks /\ (e + ds) * DayTicks \in Int /\ day * DayTicks \in Int
  <2>1. e + ds >= day /\ e + ds \in Int
    BY <1>2, <1>5
  <2>2. QED
    BY <1>2, <2>1
<1>8. QED
  BY <1>2, <1>6, <1>7

-----------------------------------------------------------------------------
(* What Parse answers. *)

\* A request is answered as Parse answers it.
Answering ==
  /\ now \in Instants
  /\ request \in Requests(now)
  /\ answer = Open \/ answer = Parse(request, now)

LEMMA AnsweringHolds == AnswerSpec => []Answering
<1>1. Asked => Answering
  BY DEF Asked, Answering, Instants, Last
<1>2. Answering /\ [Answer]_exchange => Answering'
  BY DEF Answering, Answer, exchange
<1>3. QED
  BY <1>1, <1>2, PTL DEF AnswerSpec

\* A time of the day is met within a day.
LEMMA ClockMet ==
  ASSUME NEW t \in Instants, NEW tick \in 0..(DayTicks - 1)
  PROVE  /\ Clock(t, tick) \in (t + 1)..(t + DayTicks)
         /\ Clock(t, tick) % DayTicks = tick
<1> DEFINE day == t \div DayTicks
           r == t % DayTicks
           today == day * DayTicks + tick
<1>1. /\ DayTicks \in Nat \ {0} /\ day \in Int /\ day \in 0..Last /\ r \in 0..(DayTicks - 1)
      /\ t = day * DayTicks + r /\ Last \in Int
  BY DayOf, FirstDate, TimeExprAssumption
<1>2. Clock(t, tick) = IF today > t THEN today ELSE AddDate(today, 0, 0, 1)
  BY DEF Clock
<1>3. today \div DayTicks = day /\ today % DayTicks = tick
  <2> HIDE DEF day
  <2>1. QED
    BY <1>1, TicksOf
<1> HIDE DEF day, r
<1>4. day * DayTicks \in Int /\ today \in Int
  BY <1>1
<1>5. CASE today > t
  <2>1. Clock(t, tick) = today
    BY <1>2, <1>5
  <2>2. today \in (t + 1)..(t + DayTicks)
    <3> DEFINE p == day * DayTicks
    <3>1. p \in Int /\ today = p + tick /\ t = p + r
      BY <1>1, <1>4
    <3> HIDE DEF p, today
    <3>2. QED
      BY <1>1, <1>5, <3>1
  <2>3. QED
    BY <1>3, <2>1, <2>2
<1>6. CASE ~(today > t)
  <2> DEFINE p == day * DayTicks
  <2>1. p \in Int /\ today = p + tick /\ t = p + r
    BY <1>1, <1>4
  <2>2. today \in Instants
    <3>1. p \in Int /\ p >= 0
      <4>1. day * DayTicks >= 0 * DayTicks
        BY <1>1
      <4>2. QED
        BY <1>1, <2>1, <4>1
    <3>2. today >= 0 /\ today <= t
      BY <1>4, <1>6, <2>1, <3>1, <1>1
    <3>3. DayTicks * (Last + 1) \in Int
      BY <1>1
    <3> HIDE DEF today, p
    <3>4. QED
      BY <1>4, <3>2, <3>3 DEF Instants
  <2>3. AddDate(today, 0, 0, 1) = (day + 1) * DayTicks + tick
    <3>1. AddDate(today, 0, 0, 1) = (today \div DayTicks + 1) * DayTicks + (today % DayTicks)
      <4>1. 1 \in Nat /\ 1 <= 372 * Reach + 1
        BY TimeExprAssumption
      <4> HIDE DEF today
      <4>2. QED
        BY <2>2, <4>1, DaysOn
    <3>2. QED
      BY <1>3, <3>1
  <2>4. (day + 1) * DayTicks = p + DayTicks
    BY <1>1
  <2>5. ((day + 1) * DayTicks + tick) % DayTicks = tick
    <3>1. day + 1 \in Int
      BY <1>1
    <3>2. QED
      BY <3>1, TicksOf
  <2>6. Clock(t, tick) = (day + 1) * DayTicks + tick
    BY <1>2, <1>6, <2>3
  <2>7. p + DayTicks + tick \in (t + 1)..(t + DayTicks)
    <3> HIDE DEF p
    <3>1. p + tick <= t
      BY <1>4, <1>6, <2>1
    <3> HIDE DEF today
    <3>2. QED
      BY <1>1, <2>1, <3>1
  <2>8. QED
    BY <2>4, <2>5, <2>6, <2>7
<1>7. QED
  BY <1>5, <1>6

\* A count within reach is read as it is, and so are its days if they are weeks.
LEMMA Counted ==
  ASSUME NEW n \in Nat, n <= Reach
  PROVE  Atoi(n) = n /\ Wrap(7 * n) = 7 * n
<1>1. Reach \in Nat /\ Half \in Nat /\ 372 * (2 + Reach) <= Half
  BY RoomEnough, TimeExprAssumption
<1>2. 7 * n \in Int /\ -Half <= 7 * n /\ 7 * n < Half /\ n < Half
  BY <1>1
<1>3. Wrap(7 * n) = 7 * n
  BY <1>2, NotWrapped
<1>4. QED
  BY <1>2, <1>3 DEF Atoi

\* Every answer within reach is at or after now, and only what is behind it, or is no time,
\* is refused.
LEMMA NeverPastInv == Answering => NeverPast
<1> SUFFICES ASSUME Answering, Answered PROVE NeverPast
  BY DEF NeverPast, Given
<1> DEFINE r == request
<1>1. answer = Parse(r, now) /\ now \in Instants /\ r \in Requests(now)
  BY DEF Answering, Answered
<1>2. now \in Int /\ DayTicks \in Nat \ {0}
  BY <1>1, FirstDate, TimeExprAssumption DEF Instants
<1>3. CASE r.form = "now"
  <2>1. answer = At(now)
    BY <1>1, <1>3 DEF Parse
  <2>2. QED
    BY <1>2, <2>1 DEF NeverPast, Given, At
<1>4. CASE r.form = "offset"
  <2>1. r.unit \in Units /\ r.n \in Nat
    BY <1>1, <1>4, TimeExprAssumption DEF Requests
  <2>2. answer = At(Offset(now, r.unit, Atoi(r.n)))
    BY <1>1, <1>4 DEF Parse
  <2>3. r.n <= Reach => /\ Offset(now, r.unit, Atoi(r.n)) >= now
                        /\ Offset(now, r.unit, Atoi(r.n)) \in Int
    <3>1. SUFFICES ASSUME r.n <= Reach
                   PROVE  /\ Offset(now, r.unit, Atoi(r.n)) >= now
                          /\ Offset(now, r.unit, Atoi(r.n)) \in Int
      OBVIOUS
    <3>2. Atoi(r.n) = r.n /\ Wrap(7 * r.n) = 7 * r.n
      BY <2>1, <3>1, Counted
    <3>3. Offset(now, r.unit, r.n) >= now /\ Offset(now, r.unit, r.n) \in Int
      <4>1. /\ 7 * r.n \in Nat /\ 0 \in Nat
            /\ 31 * (0 + 12 * 0) + 7 * r.n <= 372 * Reach + 1
            /\ 31 * (0 + 12 * 0) + r.n <= 372 * Reach + 1
            /\ 31 * (r.n + 12 * 0) + 0 <= 372 * Reach + 1
            /\ 31 * (0 + 12 * r.n) + 0 <= 372 * Reach + 1
        BY <2>1, <3>1, TimeExprAssumption
      <4> HIDE DEF r
      <4>2. /\ AddDate(now, 0, 0, r.n) >= now /\ AddDate(now, 0, 0, 7 * r.n) >= now
            /\ AddDate(now, 0, r.n, 0) >= now /\ AddDate(now, r.n, 0, 0) >= now
            /\ AddDate(now, 0, 0, r.n) \in Int /\ AddDate(now, 0, 0, 7 * r.n) \in Int
            /\ AddDate(now, 0, r.n, 0) \in Int /\ AddDate(now, r.n, 0, 0) \in Int
        BY <1>1, <2>1, <4>1, NotBefore
      <4>3. QED
        BY <2>1, <3>2, <4>2 DEF Offset, Units
    <3>4. QED
      BY <3>2, <3>3
  <2>4. QED
    <3>1. Reach \in Nat /\ (r.n > Reach <=> TooFar) /\ answer.ok
          /\ answer.at = Offset(now, r.unit, Atoi(r.n))
      BY <1>4, <2>2, TimeExprAssumption DEF TooFar, At
    <3> DEFINE z == Offset(now, r.unit, Atoi(r.n))
    <3>2. (Given /\ z < now => TooFar) => NeverPast
      BY <3>1 DEF NeverPast
    <3>3. z < now => r.n > Reach
      <4> SUFFICES ASSUME z < now, ~(r.n > Reach) PROVE FALSE
        OBVIOUS
      <4>1. r.n <= Reach
        BY <2>1, <3>1
      <4>2. z >= now /\ z \in Int
        BY <2>3, <4>1
      <4> HIDE DEF z
      <4>3. QED
        BY <1>2, <4>2
    <3>4. QED
      BY <3>1, <3>2, <3>3
<1>5. CASE r.form = "duration"
  <2>1. r.n \in Int
    BY <1>1, <1>5, TimeExprAssumption DEF Requests
  <2>2. answer = IF r.n < 0 THEN Refused ELSE At(now + r.n)
    BY <1>1, <1>5 DEF Parse
  <2>3. QED
    BY <1>2, <2>1, <2>2 DEF NeverPast, Given, At, Refused
<1>6. CASE r.form = "stamp"
  <2>1. r.n \in Int
    BY <1>1, <1>6, TimeExprAssumption DEF Requests
  <2>2. answer = IF now + r.n < now THEN Refused ELSE At(now + r.n)
    BY <1>1, <1>6 DEF Parse, Stamp
  <2>3. QED
    BY <1>2, <2>1, <2>2 DEF NeverPast, Given, At, Refused
<1>7. CASE r.form = "clock"
  <2>1. r.tick \in 0..(DayTicks - 1)
    BY <1>1, <1>7 DEF Requests
  <2>2. answer = At(Clock(now, r.tick))
    BY <1>1, <1>7 DEF Parse
  <2>3. Clock(now, r.tick) >= now /\ Clock(now, r.tick) \in Int
    BY <1>1, <1>2, <2>1, ClockMet
  <2>4. QED
    BY <1>2, <2>2, <2>3 DEF NeverPast, Given, At
<1>8. CASE r.form = "unknown"
  <2>1. answer = Refused
    BY <1>1, <1>8 DEF Parse
  <2>2. QED
    BY <1>8, <2>1 DEF NeverPast, Given, Refused
<1>9. r.form \in {"now", "offset", "duration", "stamp", "clock", "unknown"}
  BY <1>1 DEF Requests
<1>10. QED
  BY <1>3, <1>4, <1>5, <1>6, <1>7, <1>8, <1>9

-----------------------------------------------------------------------------
(* Months counted up. *)

\* The months counted reach beyond the furthest offset.
LEMMA MonthsTyped == Months \in Nat /\ 12 * (LastYear - FirstYear + 1) + 12 * Reach < Months
BY TimeExprAssumption DEF Months

\* Counting the months up gives the first day of each.
LEMMA FirstDays ==
  ASSUME NEW k \in 1..Months
  PROVE  FirstDay[k] = Date(FirstYear, k, 1)
<1> DEFINE s == [i \in 1..Months |-> MonthLength(i)]
           S == {n \in Nat : n < Months => SumTo(s, n) = Date(FirstYear, n + 1, 1)}
<1>1. Months \in Nat /\ FirstYear \in Int
  BY MonthsTyped, TimeExprAssumption
<1>2. \A i \in 1..Months : s[i] = LengthOf(FirstYear, i)
  BY DEF MonthLength, LengthOf
<1> HIDE DEF s
<1>3. 0 \in S
  <2>1. 0 + 1 = 1 /\ SumTo(s, 0) = 0
    BY SumStep
  <2>2. QED
    BY <2>1, FirstDate
<1>4. ASSUME NEW n \in Nat, n \in S
      PROVE  n + 1 \in S
  <2> SUFFICES ASSUME n + 1 < Months PROVE SumTo(s, n + 1) = Date(FirstYear, (n + 1) + 1, 1)
    OBVIOUS
  <2>1. SumTo(s, n + 1) = SumTo(s, n) + s[n + 1]
    BY SumStep
  <2>2. n + 1 \in 1..Months /\ n + 1 \in Int /\ n < Months
    BY <1>1
  <2>3. SumTo(s, n) = Date(FirstYear, n + 1, 1)
    BY <1>4, <2>2
  <2>4. s[n + 1] = LengthOf(FirstYear, n + 1)
    BY <1>2, <2>2
  <2>5. Date(FirstYear, (n + 1) + 1, 1) = Date(FirstYear, n + 1, 1) + LengthOf(FirstYear, n + 1)
    BY <1>1, <2>2, NextMonth
  <2>6. QED
    BY <2>1, <2>3, <2>4, <2>5
<1> HIDE DEF S
<1>5. k - 1 \in S
  <2>1. k - 1 \in Nat
    BY <1>1
  <2>2. QED
    BY <1>3, <1>4, <2>1, EveryNumber
<1>6. k - 1 \in Nat /\ k - 1 < Months /\ (k - 1) + 1 = k
  BY <1>1
<1>7. SumTo(s, k - 1) = Date(FirstYear, k, 1)
  BY <1>5, <1>6 DEF S
<1>8. FirstDay[k] = SumTo(s, k - 1)
  BY DEF FirstDay, s
<1>9. QED
  BY <1>7, <1>8

\* MonthsLater finds the month of a day by its first days, and counts on from there.
LEMMA LaterMonth ==
  ASSUME NEW day, NEW c, IsDate(c, day), NEW n \in 0..(12 * Reach)
  PROVE  MonthsLater(day, n) = Date(c.y, c.m + n, c.d)
<1> DEFINE k == c.m + 12 * (c.y - FirstYear)
           M(i) == Date(FirstYear, i, 1)
<1>1. /\ c.y \in FirstYear..LastYear /\ c.m \in 1..12 /\ c.d \in 1..31
      /\ c.y \in Int /\ c.m \in Int /\ c.d \in Int /\ FirstYear \in Int /\ LastYear \in Int
      /\ Reach \in Nat
      /\ c.d <= Lengths(c.y)[c.m] /\ Date(c.y, c.m, c.d) = day
  BY TimeExprAssumption DEF IsDate, Dates
<1>2. Months \in Nat /\ k \in 1..(Months - 1) /\ k + n \in 1..Months /\ k + 1 \in 1..Months
  BY <1>1, MonthsTyped
<1>3. \A i \in Int : \A d \in Int : Date(c.y, c.m + i, d) = Date(FirstYear, k + i, d)
  <2>1. SUFFICES ASSUME NEW i \in Int, NEW d \in Int
                 PROVE  Date(c.y, c.m + i, d) = Date(FirstYear, k + i, d)
    OBVIOUS
  <2> DEFINE q == c.y - FirstYear
             e == c.m + i
  <2>2. /\ q \in Int /\ e \in Int /\ FirstYear \in Int /\ d \in Int
        /\ FirstYear + q = c.y /\ e + 12 * q = k + i
    BY <1>1, <2>1
  <2> HIDE DEF q, k, e
  <2>3. Date(FirstYear + q, e, d) = Date(FirstYear, e + 12 * q, d)
    BY <2>2, YearsOn
  <2>4. QED
    BY <2>2, <2>3 DEF e
<1>4. k \in Int /\ k + 0 = k /\ c.m + 0 = c.m
  BY <1>1
<1>5. M(k) = Date(c.y, c.m, 1) /\ M(k + 1) = Date(c.y, c.m + 1, 1)
  <2> HIDE DEF k
  <2>1. /\ Date(c.y, c.m + 0, 1) = Date(FirstYear, k + 0, 1)
        /\ Date(c.y, c.m + 1, 1) = Date(FirstYear, k + 1, 1)
    <3>1. 0 \in Int /\ 1 \in Int
      OBVIOUS
    <3>2. QED
      BY <1>3, <3>1, Zenon
  <2>2. QED
    BY <1>4, <2>1
<1> HIDE DEF k
<1>6. M(k) = day - (c.d - 1) /\ day \in Int
  BY <1>1, <1>5, DaysRunOn
<1>7. M(k) <= day
  BY <1>1, <1>6
<1>8. day < M(k + 1)
  <2>1. LengthOf(c.y, c.m) = Lengths(c.y)[c.m]
    <3>1. c.m - 1 \in 0..11 /\ (c.m - 1) \div 12 = 0 /\ (c.m - 1) % 12 = c.m - 1
      BY <1>1
    <3>2. c.y + 0 = c.y /\ (c.m - 1) + 1 = c.m
      BY <1>1
    <3>3. QED
      BY <3>1, <3>2 DEF LengthOf
  <2>2. /\ Date(c.y, c.m + 1, 1) = Date(c.y, c.m, 1) + LengthOf(c.y, c.m)
        /\ LengthOf(c.y, c.m) \in 28..31
    <3>1. c.y \in Int /\ c.m \in Int /\ 1 \in Int
      BY <1>1
    <3>2. QED
      BY <3>1, NextMonth, Zenon
  <2>3. QED
    BY <1>1, <1>5, <1>6, <2>1, <2>2
<1>9. \A i, j \in Int : i <= j => M(i) <= M(j) /\ M(i) \in Int
  <2>1. SUFFICES ASSUME NEW i \in Int, NEW j \in Int, i <= j
                 PROVE  M(i) <= M(j) /\ M(i) \in Int
    OBVIOUS
  <2>2. j - i \in Nat /\ i + (j - i) = j
    BY <2>1
  <2>3. Date(FirstYear, i + (j - i), 1) >= Date(FirstYear, i, 1)
    <3>1. FirstYear \in Int /\ i \in Int /\ 1 \in Int /\ j - i \in Nat
      BY <1>1, <2>2
    <3>2. QED
      BY <3>1, MonthsOn, Zenon
  <2>4. Date(FirstYear, i, 1) \in Int /\ Date(FirstYear, j, 1) \in Int
    <3>1. FirstYear \in Int /\ 1 \in Int
      BY <1>1
    <3>2. QED
      BY <3>1, DaysRunOn
  <2>5. QED
    BY <2>2, <2>3, <2>4
<1> DEFINE P(i) == FirstDay[i] <= day /\ day < FirstDay[i + 1]
<1>10. \A i \in 1..Months : FirstDay[i] = M(i)
  BY FirstDays
<1> HIDE DEF M
<1>11. P(k)
  <2>1. k \in 1..Months /\ k + 1 \in 1..Months
    BY <1>2
  <2>2. FirstDay[k] = M(k) /\ FirstDay[k + 1] = M(k + 1)
    BY <1>10, <2>1
  <2>3. QED
    BY <1>7, <1>8, <2>2
<1>12. ASSUME NEW i \in 1..(Months - 1), P(i)
       PROVE  i = k
  <2>1. i \in Int /\ i \in 1..Months /\ i + 1 \in 1..Months /\ i + 1 \in Int /\ k + 1 \in Int
    BY <1>2, <1>4
  <2>2. M(i) <= day /\ day < M(i + 1)
    BY <1>10, <1>12, <2>1
  <2>3. M(i) \in Int /\ M(i + 1) \in Int /\ M(k) \in Int /\ M(k + 1) \in Int
    BY <1>4, <1>9, <2>1
  <2>4. CASE i < k
    <3>1. M(i + 1) <= M(k)
      BY <1>4, <1>9, <2>1, <2>4
    <3>2. QED
      BY <1>6, <1>7, <2>2, <2>3, <3>1
  <2>5. CASE i > k
    <3>1. M(k + 1) <= M(i)
      BY <1>4, <1>9, <2>1, <2>5
    <3>2. QED
      BY <1>6, <1>8, <2>2, <2>3, <3>1
  <2>6. QED
    BY <1>4, <2>1, <2>4, <2>5
<1>13. (CHOOSE i \in 1..(Months - 1) : P(i)) = k
  <2> HIDE DEF P
  <2>1. QED
    BY <1>2, <1>11, <1>12, Zenon
<1>14. MonthsLater(day, n) = FirstDay[k + n] + (day - FirstDay[k])
  BY <1>13 DEF MonthsLater
<1>15. FirstDay[k + n] = M(k + n) /\ FirstDay[k] = M(k)
  <2>1. k \in 1..Months
    BY <1>2
  <2>2. QED
    BY <1>2, <1>10, <2>1
<1>16. n \in Int /\ M(k + n) = Date(c.y, c.m + n, 1)
  <2>1. n \in Int
    BY <1>1
  <2>2. Date(c.y, c.m + n, 1) = Date(FirstYear, k + n, 1)
    <3>1. 1 \in Int
      OBVIOUS
    <3>2. QED
      BY <1>3, <2>1, <3>1, Zenon
  <2>3. QED
    BY <2>1, <2>2 DEF M
<1>17. Date(c.y, c.m + n, c.d) = Date(c.y, c.m + n, 1) + (c.d - 1) /\ Date(c.y, c.m + n, 1) \in Int
  <2>1. c.m + n \in Int
    BY <1>1, <1>16
  <2>2. QED
    BY <1>1, <2>1, DaysRunOn
<1>18. QED
  BY <1>1, <1>6, <1>14, <1>15, <1>16, <1>17

\* Every answer is the one that was meant.
LEMMA AsMeantInv == Answering => AsMeant
<1> SUFFICES ASSUME Answering, Given PROVE AsMeant
  BY DEF AsMeant
<1> DEFINE r == request
           day == now \div DayTicks
           c == Calendar[day]
           tick == now % DayTicks
<1>1. answer = Parse(r, now) /\ now \in Instants /\ r \in Requests(now)
  BY DEF Answering, Given, Answered
<1>2. ASSUME r.form = "offset", r.n <= Reach
      PROVE  answer.at = CASE r.unit = "day"   -> (day + r.n) * DayTicks + tick
                           [] r.unit = "week"  -> (day + 7 * r.n) * DayTicks + tick
                           [] r.unit = "month" -> MonthsLater(day, r.n) * DayTicks + tick
                           [] r.unit = "year"  -> MonthsLater(day, 12 * r.n) * DayTicks + tick
  <2>1. r.unit \in Units /\ r.n \in 0..Reach
    <3>1. r.unit \in Units /\ r.n \in Counts
      BY <1>1, <1>2 DEF Requests
    <3>2. Counts \subseteq Nat /\ Reach \in Nat
      BY TimeExprAssumption
    <3>3. r.n \in Nat
      BY <3>1, <3>2
    <3>4. r.n <= Reach
      BY <1>2
    <3> HIDE DEF r
    <3>5. QED
      BY <3>1, <3>2, <3>3, <3>4
  <2>2. answer.at = Offset(now, r.unit, Atoi(r.n)) /\ Atoi(r.n) = r.n /\ Wrap(7 * r.n) = 7 * r.n
    <3>1. answer.at = Offset(now, r.unit, Atoi(r.n))
      BY <1>1, <1>2 DEF Parse, At
    <3>2. r.n \in Nat /\ r.n <= Reach
      BY <2>1, TimeExprAssumption
    <3> HIDE DEF r
    <3>3. QED
      BY <3>1, <3>2, Counted
  <2>3. /\ r.n \in Int /\ 7 * r.n \in Int /\ 12 * r.n \in Int /\ 0 \in Int
        /\ r.n \in 0..(12 * Reach) /\ 12 * r.n \in 0..(12 * Reach)
        /\ r.n \in Nat /\ 7 * r.n \in Nat /\ 0 \in Nat
        /\ r.n <= 372 * Reach + 1 /\ 7 * r.n <= 372 * Reach + 1
        /\ 31 * (r.n + 12 * 0) + 0 <= 372 * Reach + 1
        /\ 31 * (0 + 12 * r.n) + 0 <= 372 * Reach + 1
    BY <2>1, TimeExprAssumption
  <2> HIDE DEF r, day, c, tick
  <2>4. /\ AddDate(now, 0, 0, r.n) = (day + r.n) * DayTicks + tick
        /\ AddDate(now, 0, 0, 7 * r.n) = (day + 7 * r.n) * DayTicks + tick
    BY <1>1, <2>3, DaysOn DEF day, tick
  <2>5. /\ IsDate(c, day)
        /\ AddDate(now, 0, r.n, 0)
           = (Date(c.y, (c.m + r.n) + 12 * 0, c.d) + 0) * DayTicks + tick
        /\ AddDate(now, r.n, 0, 0)
           = (Date(c.y, (c.m + 0) + 12 * r.n, c.d) + 0) * DayTicks + tick
    BY <1>1, <2>3, DateAdded DEF c, day, tick
  <2>6. c.y \in Int /\ c.m \in Int /\ c.d \in Int
    BY <2>5, TimeExprAssumption DEF IsDate, Dates
  <2>7. /\ (c.m + r.n) + 12 * 0 = c.m + r.n /\ (c.m + 0) + 12 * r.n = c.m + 12 * r.n
        /\ c.m + r.n \in Int /\ c.m + 12 * r.n \in Int
    BY <2>3, <2>6
  <2>8. /\ Date(c.y, c.m + r.n, c.d) + 0 = Date(c.y, c.m + r.n, c.d)
        /\ Date(c.y, c.m + 12 * r.n, c.d) + 0 = Date(c.y, c.m + 12 * r.n, c.d)
    BY <2>6, <2>7, DaysRunOn
  <2>9. /\ MonthsLater(day, r.n) = Date(c.y, c.m + r.n, c.d)
        /\ MonthsLater(day, 12 * r.n) = Date(c.y, c.m + 12 * r.n, c.d)
    BY <2>3, <2>5, LaterMonth
  <2>10. /\ AddDate(now, 0, r.n, 0) = MonthsLater(day, r.n) * DayTicks + tick
         /\ AddDate(now, r.n, 0, 0) = MonthsLater(day, 12 * r.n) * DayTicks + tick
    BY <2>5, <2>7, <2>8, <2>9
  <2>11. QED
    BY <2>1, <2>2, <2>4, <2>10 DEF Offset, Units
<1>3. ASSUME r.form = "clock"
      PROVE  answer.at % DayTicks = r.tick /\ answer.at \in (now + 1)..(now + DayTicks)
  <2>1. r.tick \in 0..(DayTicks - 1)
    BY <1>1, <1>3 DEF Requests
  <2>2. answer.at = Clock(now, r.tick)
    BY <1>1, <1>3 DEF Parse, At
  <2>3. QED
    BY <1>1, <2>1, <2>2, ClockMet
<1>4. r.form = "offset" /\ ~TooFar => r.n <= Reach
  <2>1. SUFFICES ASSUME r.form = "offset", ~(r.n > Reach) PROVE r.n <= Reach
    BY DEF TooFar
  <2>2. r.n \in Nat /\ Reach \in Nat
    BY <1>1, <2>1, TimeExprAssumption DEF Requests
  <2> HIDE DEF r
  <2>3. QED
    BY <2>1, <2>2
<1>5. QED
  BY <1>2, <1>3, <1>4 DEF AsMeant

\* The time a reminder or an errand is scheduled for is never before the moment it was asked
\* at, except where an offset is further than the integers have room for, and a time that is
\* still ahead is never refused (timeexpr.Parse).
THEOREM NeverInThePast == AnswerSpec => []NeverPast
BY AnsweringHolds, NeverPastInv, PTL

\* An offset the integers have room for is answered with the same time of the day so many days
\* or months on, whatever ends of months, leap days and years lie between, and a time of the
\* day with the first instant after now that shows it.
THEOREM AnsweredAsMeant == AnswerSpec => []AsMeant
BY AnsweringHolds, AsMeantInv, PTL

-----------------------------------------------------------------------------
(* Scheduled errands. *)

\* A schedule is in one place at a time.
OnePlace ==
  \A s \in Ids :
    /\ s \in scheduled => s \notin batch \cup firing
    /\ s \in batch => s \notin firing

\* Nothing is there for an id that was not handed out.
BornOnly ==
  /\ scheduled \cup dropping \cup batch \cup firing \cup told \subseteq born
  /\ \A s \in Ids \ born : file[s] = "missing" /\ saving[s] = "done" /\ starts[s] = 0

\* A file is filled once, before the owner is told, and stays removed after that.
FilesOK ==
  \A s \in Ids :
    /\ s \in told => saving[s] = "done"
    /\ saving[s] = "write" /\ s \in scheduled => file[s] = "empty"
    /\ s \in gone => /\ s \in told /\ file[s] = "missing"
                     /\ s \notin scheduled \cup batch \cup dropping

IInv ==
  /\ TypeOK
  /\ StartsOnce
  /\ ToldIsDurable
  /\ OnePlace
  /\ BornOnly
  /\ FilesOK

LEMMA InitInv == Init => IInv
BY DEF Init, IInv, TypeOK, File, StartsOnce, ToldIsDurable, OnePlace, BornOnly, FilesOK

\* A step that touches what belongs to schedule s only.
LEMMA CommandInv ==
  ASSUME IInv, NEW s \in Ids,
         scheduleErrand(s) \/ OpenScheduled(s) \/ WriteScheduled(s) \/ SaveFails(s)
         \/ unschedule(s) \/ ComesDue(s)
  PROVE  IInv'
<1> USE DEF IInv, TypeOK, File, StartsOnce, ToldIsDurable, OnePlace, BornOnly, FilesOK,
            memory, history
<1>1. CASE scheduleErrand(s)
  BY <1>1 DEF scheduleErrand
<1>2. CASE OpenScheduled(s)
  BY <1>2 DEF OpenScheduled
<1>3. CASE WriteScheduled(s)
  BY <1>3 DEF WriteScheduled
<1>4. CASE SaveFails(s)
  BY <1>4 DEF SaveFails
<1>5. CASE unschedule(s)
  BY <1>5 DEF unschedule
<1>6. CASE ComesDue(s)
  BY <1>6 DEF ComesDue
<1>7. QED
  BY <1>1, <1>2, <1>3, <1>4, <1>5, <1>6

\* The two callers of DeleteScheduled have the schedule to themselves.
LEMMA RemovalInv ==
  ASSUME IInv, NEW s \in Ids, DropFile(s) \/ FireFile(s)
  PROVE  IInv'
<1> USE DEF IInv, TypeOK, File, StartsOnce, ToldIsDurable, OnePlace, BornOnly, FilesOK,
            Delete
<1>1. CASE DropFile(s)
  BY <1>1 DEF DropFile
<1>2. CASE FireFile(s)
  BY <1>2 DEF FireFile
<1>3. QED
  BY <1>1, <1>2

LEMMA TickInv ==
  ASSUME IInv, claimDueScheduled \/ \E s \in Ids : startErrand(s) \/ Panic(s)
  PROVE  IInv'
<1> USE DEF IInv, TypeOK, File, StartsOnce, ToldIsDurable, OnePlace, BornOnly, FilesOK,
            history
<1>1. CASE claimDueScheduled
  BY <1>1 DEF claimDueScheduled
<1>2. ASSUME NEW s \in Ids, startErrand(s)
      PROVE  IInv'
  BY <1>2 DEF startErrand
<1>3. ASSUME NEW s \in Ids, Panic(s)
      PROVE  IInv'
  BY <1>3 DEF Panic
<1>4. QED
  BY <1>1, <1>2, <1>3

LEMMA CrashInv ==
  ASSUME IInv, Crash
  PROVE  IInv'
BY DEF Crash, IInv, TypeOK, File, StartsOnce, ToldIsDurable, OnePlace, BornOnly, FilesOK,
       history

LEMMA StepInv == IInv /\ [Next]_vars => IInv'
<1> SUFFICES ASSUME IInv, [Next]_vars PROVE IInv'
  OBVIOUS
<1>1. CASE UNCHANGED vars
  BY <1>1 DEF vars, IInv, TypeOK, StartsOnce, ToldIsDurable, OnePlace, BornOnly, FilesOK
<1>2. CASE Next
  BY <1>2, CommandInv, RemovalInv, TickInv, CrashInv DEF Next, Tick
<1>3. QED
  BY <1>1, <1>2

-----------------------------------------------------------------------------
(* The theorems. *)

\* In every reachable state, whatever the constants, IInv holds.
THEOREM Inductive == Spec => []IInv
<1>1. Init => IInv
  BY InitInv
<1>2. IInv /\ [Next]_vars => IInv'
  BY StepInv
<1>3. QED
  BY <1>1, <1>2, PTL DEF Spec

\* Every variable keeps the kind of value the code gives it.
THEOREM TypeCorrect == Spec => []TypeOK
<1>1. IInv => TypeOK
  BY DEF IInv
<1>2. QED
  BY <1>1, Inductive, PTL

\* However many schedules, commands, ticks, failures and restarts interleave, a
\* schedule starts at most one errand between two restarts (claimDueScheduled,
\* unschedule).
THEOREM AtMostOneStart == Spec => []StartsOnce
<1>1. IInv => StartsOnce
  BY DEF IInv
<1>2. QED
  BY <1>1, Inductive, PTL

\* What the owner was told is scheduled survives every restart until it is taken out
\* or fired (SaveScheduled, LoadScheduled).
THEOREM ConfirmedIsDurable == Spec => []ToldIsDurable
<1>1. IInv => ToldIsDurable
  BY DEF IInv
<1>2. QED
  BY <1>1, Inductive, PTL

\* Once its file is removed, no restart brings a confirmed schedule back (unschedule,
\* fireScheduled, DeleteScheduled).
THEOREM RemovedForGood == Spec => []GoneIsGone
<1>1. IInv => GoneIsGone
  BY DEF IInv, TypeOK, FilesOK, GoneIsGone
<1>2. QED
  BY <1>1, Inductive, PTL

=============================================================================
