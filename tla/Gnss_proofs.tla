----------------------------- MODULE Gnss_proofs -----------------------------
(***************************************************************************)
(* The parser and what it publishes for every stream of units, every size  *)
(* of the ring and of the buffer; and the fix for every report of 32 bits. *)
(***************************************************************************)
EXTENDS Gnss, SequenceTheorems, WellFoundedInduction, TLAPS

-----------------------------------------------------------------------------
(* Conversions                                                             *)

\* What the proofs know of the ends of the ranges.
LEMMA Ends == U16Max \in Nat /\ I16Max \in Nat /\ Turn \in Nat /\ Turn > 3
BY DEF U16Max, I16Max, Turn

\* C's quotient is off by less than one.
LEMMA CutFacts ==
  ASSUME NEW a \in Int, NEW b \in Nat, b > 0
  PROVE  Cut(a, b) \in Int /\ b * Cut(a, b) - a < b /\ a - b * Cut(a, b) < b
<1>1. CASE a >= 0
  <2>1. a \div b \in Int /\ a % b = a - b * (a \div b) /\ a % b \in Nat /\ a % b < b
    OBVIOUS
  <2> QED
    BY <1>1, <2>1 DEF Cut
<1>2. CASE a < 0
  <2> DEFINE d == -a
  <2>1. d \in Int /\ a = -d
    OBVIOUS
  <2>2. d \div b \in Int /\ d % b = d - b * (d \div b) /\ d % b \in Nat /\ d % b < b
    BY <2>1
  <2>3. Cut(a, b) = -(d \div b)
    BY <1>2 DEF Cut
  <2> HIDE DEF d
  <2>4. b * (-(d \div b)) = -(b * (d \div b))
    BY <2>2
  <2> QED
    BY <2>1, <2>2, <2>3, <2>4
<1> QED
  BY <1>1, <1>2

\* A number that needs no scaling becomes itself or the largest of its range.
LEMMA CountInRange ==
  ASSUME NEW value \in Nat
  PROVE  Scaled(value, 1, SaturateU16(value), 0, U16Max)
BY Ends DEF Scaled, SaturateU16

\* A ground speed in mm/s becomes the nearest below in cm/s, or the end of its range.
LEMMA SpeedInRange == ASSUME NEW mm \in Int PROVE Scaled(mm, 10, SpeedOf(mm), 0, U16Max)
<1> DEFINE q == IF mm > 0 THEN mm \div 10 ELSE 0
<1>1. q \in Nat /\ (mm > 0 => 10 * q <= mm /\ mm - 10 * q <= 9) /\ (mm <= 0 => q = 0)
  OBVIOUS
<1>2. SpeedOf(mm) = SaturateU16(q)
  BY DEF SpeedOf
<1> HIDE DEF q
<1>3. CASE q > U16Max
  <2>1. SpeedOf(mm) = U16Max /\ mm >= 10 * U16Max
    BY <1>1, <1>2, <1>3, Ends DEF SaturateU16
  <2> QED
    BY <2>1 DEF Scaled
<1>4. CASE q <= U16Max
  <2>1. SpeedOf(mm) = q
    BY <1>1, <1>2, <1>4, Ends DEF SaturateU16
  <2> QED
    BY <1>1, <1>4, <2>1, Ends DEF Scaled
<1> QED
  BY <1>1, <1>3, <1>4, Ends

\* The quotient of a negated velocity.
LEMMA CutNegated ==
  ASSUME NEW down \in Int
  PROVE  /\ Cut(-down, 10) \in Int
         /\ 10 * Cut(-down, 10) + down <= 9 /\ -down - 10 * Cut(-down, 10) <= 9
<1> DEFINE a == -down
<1>1. a \in Int /\ down = -a
  OBVIOUS
<1> HIDE DEF a
<1>2. Cut(a, 10) \in Int /\ 10 * Cut(a, 10) - a < 10 /\ a - 10 * Cut(a, 10) < 10
  BY <1>1, CutFacts
<1>3. Cut(a, 10) \in Int /\ 10 * Cut(a, 10) + down <= 9 /\ a - 10 * Cut(a, 10) <= 9
  BY <1>1, <1>2
<1> QED
  BY <1>3 DEF a

\* A velocity down becomes one up, within its sixteen bits, unless its negation
\* overflows.
LEMMA UpInRange ==
  ASSUME NEW down \in Int, down # -I32Max - 1, NEW up \in UpsOf(down)
  PROVE  Scaled(-down, 10, up, -I16Max - 1, I16Max)
<1> DEFINE q == Cut(-down, 10)
<1>1. q \in Int /\ 10 * q + down <= 9 /\ -down - 10 * q <= 9
  BY CutNegated, Zenon
<1>2. up = ClampI16(q)
  BY DEF UpsOf
<1> HIDE DEF q
<1>3. CASE q > I16Max
  BY <1>1, <1>2, <1>3, Ends DEF ClampI16, Scaled
<1>4. CASE q < -I16Max - 1
  BY <1>1, <1>2, <1>4, Ends DEF ClampI16, Scaled
<1>5. CASE -I16Max - 1 <= q /\ q <= I16Max
  BY <1>1, <1>2, <1>5, Ends, SMTT(30) DEF ClampI16, Scaled
<1> QED
  BY <1>1, <1>3, <1>4, <1>5, Ends

\* A heading of either sign becomes a course within a turn of it.
LEMMA CourseInTurn ==
  ASSUME NEW heading \in Int
  PROVE  SameCourse(heading, CourseOf(heading))
<1> DEFINE c == Cut(heading, 1000)
           k == Cut(c, Turn)
           x == c - Turn * k + Turn
           d == x \div Turn
           r == heading - 1000 * c + 999
<1>1. c \in Int /\ r \in Int /\ 0 <= r /\ r <= 1998
  <2>1. c \in Int /\ 1000 * c - heading < 1000 /\ heading - 1000 * c < 1000
    BY CutFacts
  <2> HIDE DEF c
  <2> QED
    BY <2>1
<1>2. k \in Int /\ x \in Int /\ d \in Int
  <2>1. k \in Int
    BY <1>1, CutFacts, Ends
  <2> HIDE DEF k, c
  <2>2. x \in Int
    BY <1>1, <2>1, Ends
  <2> HIDE DEF x
  <2> QED
    BY <2>1, <2>2, Ends
<1>3. CourseOf(heading) = x % Turn
  BY DEF CourseOf, Rest
<1>4. x % Turn \in 0 .. Turn - 1 /\ x % Turn = x - Turn * d
  BY <1>2, Ends
<1>5. x = c - Turn * k + Turn /\ heading = r + 1000 * c - 999
  BY <1>1
<1> HIDE DEF x, d, r, k, c
<1>6. heading - 1000 * CourseOf(heading) + 999 = r + (1000 * Turn) * (k + d - 1)
  <2>1. CourseOf(heading) = c - Turn * k + Turn - Turn * d
    BY <1>1, <1>2, <1>3, <1>4, <1>5, Ends
  <2>2. 1000 * (c - Turn * k + Turn - Turn * d) = 1000 * c - (1000 * Turn) * (k + d - 1)
    BY <1>1, <1>2, Ends
  <2>3. (1000 * Turn) * (k + d - 1) \in Int /\ 1000 * c \in Int
    BY <1>1, <1>2, Ends
  <2> QED
    BY <1>1, <1>5, <2>1, <2>2, <2>3
<1>7. (r + (1000 * Turn) * (k + d - 1)) % (1000 * Turn) = r
  <2> DEFINE m == 1000 * Turn
             j == k + d - 1
  <2>1. m \in Nat /\ j \in Int /\ r < m
    BY <1>1, <1>2, Ends
  <2> HIDE DEF m, j
  <2>2. (r + m * j) % m = r
    BY <1>1, <2>1
  <2> QED
    BY <2>2 DEF m, j
<1> QED
  BY <1>1, <1>3, <1>4, <1>6, <1>7, SMTT(30) DEF SameCourse

\* Whatever 32-bit numbers a report carries, each fix the code may make of it
\* says the same as near as its units allow, or the end of the range they are
\* beyond - the one vertical speed excepted whose negation overflows; the course
\* is within one turn of the heading, and without a fix there is no fix type and
\* no time.
THEOREM NumbersAsReported ==
  ASSUME NEW pvt, pvt.accuracy \in Nat, pvt.dop \in Nat,
         pvt.speed \in I32, pvt.down \in I32, pvt.heading \in I32, NEW fix \in Fixes(pvt)
  PROVE  /\ SameNumbers(fix, pvt)
         /\ (~pvt.ok) => fix.type = "NoFix" /\ fix.time = <<>>
<1>1. PICK up \in UpsOf(pvt.down) : fix = Fix(pvt, up)
  BY DEF Fixes
<1>2. (~pvt.ok) => fix.type = "NoFix" /\ fix.time = <<>>
  BY <1>1 DEF Fix, FixTypeFrom, TimeOf
<1>3. /\ fix.accuracy = SaturateU16(pvt.accuracy) /\ fix.dop = SaturateU16(pvt.dop)
      /\ fix.speed = SpeedOf(pvt.speed) /\ fix.up = up
      /\ fix.course = CourseOf(pvt.heading)
  BY <1>1 DEF Fix
<1>4. /\ Scaled(pvt.accuracy, 1, SaturateU16(pvt.accuracy), 0, U16Max)
      /\ Scaled(pvt.dop, 1, SaturateU16(pvt.dop), 0, U16Max)
  BY CountInRange
<1>5. pvt.speed \in Int /\ pvt.down \in Int /\ pvt.heading \in Int
  BY Ends DEF I32
<1>6. /\ Scaled(pvt.speed, 10, SpeedOf(pvt.speed), 0, U16Max)
      /\ pvt.down # -I32Max - 1 => Scaled(-pvt.down, 10, up, -I16Max - 1, I16Max)
      /\ SameCourse(pvt.heading, CourseOf(pvt.heading))
  BY <1>1, <1>5, SpeedInRange, UpInRange, CourseInTurn
<1> QED
  BY <1>2, <1>3, <1>4, <1>6 DEF SameNumbers

-----------------------------------------------------------------------------
(* The calendar                                                            *)

\* A set of numbers has a least one: what an induction comes to.
LEMMA LeastNumber ==
  ASSUME NEW T \in SUBSET Nat, T # {}
  PROVE  \E n \in T : \A m \in T : n <= m
<1> DEFINE Less == {ss \in Nat \X Nat : ss[1] < ss[2]}
<1>1. IsWellFoundedOn(Less, Nat)
  BY NatLessThanWellFounded, Zenon DEF OpToRel
<1> HIDE DEF Less
<1>2. PICK n \in T : \A m \in T : ~(<<m, n>> \in Less)
  BY <1>1, WFMin
<1>3. \A m \in T : ~(m < n)
  BY <1>2 DEF Less
<1> QED
  BY <1>3

\* the days from the first of March of year 0 to that of year y
Marches(y) == 365 * y + y \div 4 - y \div 100 + y \div 400

LEMMA MarchStep ==
  ASSUME NEW y \in Nat, y >= 1
  PROVE  Marches(y) = Marches(y - 1) + IF Leap(y) THEN 366 ELSE 365
<1>1. y \div 4 = (y - 1) \div 4 + IF y % 4 = 0 THEN 1 ELSE 0
  OBVIOUS
<1>2. y \div 100 = (y - 1) \div 100 + IF y % 100 = 0 THEN 1 ELSE 0
  OBVIOUS
<1>3. y \div 400 = (y - 1) \div 400 + IF y % 400 = 0 THEN 1 ELSE 0
  OBVIOUS
<1>4. (y % 400 = 0 => y % 100 = 0) /\ (y % 100 = 0 => y % 4 = 0)
  OBVIOUS
<1>5. y \div 4 \in Int /\ y \div 100 \in Int /\ y \div 400 \in Int
      /\ (y - 1) \div 4 \in Int /\ (y - 1) \div 100 \in Int /\ (y - 1) \div 400 \in Int
  OBVIOUS
<1> QED
  BY <1>1, <1>2, <1>3, <1>4, <1>5 DEF Marches, Leap

LEMMA EraFacts ==
  ASSUME NEW y \in Nat
  PROVE  (y \div 400) * 146097
           + ((y - (y \div 400) * 400) * 365
              + (y - (y \div 400) * 400) \div 4 - (y - (y \div 400) * 400) \div 100) = Marches(y)
<1> DEFINE era == y \div 400
           yoe == y - era * 400
<1>1. era \in Nat /\ yoe \in Nat /\ yoe < 400 /\ y = 400 * era + yoe
  OBVIOUS
<1>2. y \div 4 = 100 * era + yoe \div 4 /\ y \div 100 = 4 * era + yoe \div 100
  <2> HIDE DEF era, yoe
  <2> QED BY <1>1
<1>3. yoe \div 4 \in Nat /\ yoe \div 100 \in Nat
  <2> HIDE DEF era, yoe
  <2> QED BY <1>1
<1>4. Marches(y) = 365 * y + y \div 4 - y \div 100 + era
  BY DEF Marches
<1> HIDE DEF era, yoe
<1>5. era * 146097 + (yoe * 365 + yoe \div 4 - yoe \div 100) = Marches(y)
  BY <1>1, <1>2, <1>3, <1>4
<1> QED BY <1>5 DEF era, yoe

\* The days of an era and of the years in it, with those of the year.
LEMMA EraDays ==
  ASSUME NEW y \in Nat, NEW doy \in Int, NEW era, era = Cut(IF y >= 0 THEN y ELSE y - 399, 400)
  PROVE  era * 146097 + ((y - era * 400) * 365 + (y - era * 400) \div 4
                         - (y - era * 400) \div 100 + doy) - 719468
         = Marches(y) + doy - 719468
<1>1. era = y \div 400
  BY DEF Cut
<1>2. era * 146097 + ((y - era * 400) * 365 + (y - era * 400) \div 4 - (y - era * 400) \div 100)
      = Marches(y)
  BY <1>1, EraFacts
<1>3. era \in Int /\ (y - era * 400) \in Int
  BY <1>1
<1>4. (y - era * 400) \div 4 \in Int /\ (y - era * 400) \div 100 \in Int
  BY <1>3
<1> DEFINE a == era * 146097
           b == (y - era * 400) * 365
           c == (y - era * 400) \div 4
           d == (y - era * 400) \div 100
           m == Marches(y)
<1>5. a \in Int /\ b \in Int /\ c \in Int /\ d \in Int /\ m \in Int
  BY <1>3, <1>4, SMT DEF Marches
<1>6. a + (b + c - d) = m
  BY <1>2, SMT
<1>7. a + (b + c - d + doy) - 719468 = m + doy - 719468
  <2> HIDE DEF a, b, c, d, m
  <2> QED BY <1>5, <1>6, SMT
<1> QED
  BY <1>7, SMT

\* the year whose first of March a month follows, and the days between them
MarchOf(year, month) == IF month <= 2 THEN year - 1 ELSE year
SinceMarch(month) == (153 * (IF month > 2 THEN month - 3 ELSE month + 9) + 2) \div 5

\* The code's formula: days from the last first of March, and those before.
LEMMA CivilFacts ==
  ASSUME NEW year \in Nat, year >= 1, NEW month \in 1 .. 12, NEW day \in Nat
  PROVE  DaysFromCivil(year, month, day) =
           Marches(MarchOf(year, month)) + (SinceMarch(month) + day - 1) - 719468
<1> DEFINE y == MarchOf(year, month)
           era == Cut(IF y >= 0 THEN y ELSE y - 399, 400)
           doy == SinceMarch(month) + day - 1
<1>1. y \in Nat
  BY DEF MarchOf
<1>2. doy \in Int
  BY DEF SinceMarch
<1>3. DaysFromCivil(year, month, day) =
        era * 146097 + ((y - era * 400) * 365 + (y - era * 400) \div 4
                        - (y - era * 400) \div 100 + doy) - 719468
  BY DEF DaysFromCivil, MarchOf, SinceMarch
<1> HIDE DEF doy
<1>4. era * 146097 + ((y - era * 400) * 365 + (y - era * 400) \div 4
                        - (y - era * 400) \div 100 + doy) - 719468 = Marches(y) + doy - 719468
  BY <1>1, <1>2, EraDays
<1> QED
  BY <1>3, <1>4 DEF doy

\* Counting one year after the other arrives at the formula.
LEMMA YearFacts == \A year \in Nat : year >= 1970 => YearStart[year] = Marches(year - 1) + 306 - 719468
<1> DEFINE start(year) == IF year <= 1970 THEN 0 ELSE Marches(year - 1) + 306 - 719468
           next(f) == [year \in Nat |->
                         IF year <= 1970 THEN 0 ELSE f[year - 1] + IF Leap(year - 1) THEN 366 ELSE 365]
           g == [year \in Nat |-> start(year)]
<1>1. Marches(1969) + 306 - 719468 = 0
  BY DEF Marches
<1>2. \A year \in Nat : year > 1970 =>
        start(year) = start(year - 1) + IF Leap(year - 1) THEN 366 ELSE 365
  <2> TAKE year \in Nat
  <2> HAVE year > 1970
  <2>1. year - 1 \in Nat /\ year - 1 >= 1
    OBVIOUS
  <2>2. Marches(year - 1) = Marches(year - 1 - 1) + IF Leap(year - 1) THEN 366 ELSE 365
    BY <2>1, MarchStep
  <2>3. Marches(year - 1 - 1) \in Int
    BY DEF Marches
  <2>4. CASE year = 1971
    BY <1>1, <2>2, <2>3, <2>4
  <2>5. CASE year > 1971
    BY <2>1, <2>2, <2>3, <2>5
  <2> QED BY <2>4, <2>5
<1>3. g = next(g)
  <2> HIDE DEF start
  <2>1. \A year \in Nat : g[year] = start(year)
    OBVIOUS
  <2>2. \A year \in Nat : year <= 1970 => start(year) = 0
    BY DEF start
  <2>3. ASSUME NEW year \in Nat
        PROVE start(year) = IF year <= 1970 THEN 0 ELSE g[year - 1] + IF Leap(year - 1) THEN 366 ELSE 365
    <3>1. CASE year <= 1970
      BY <2>2, <3>1
    <3>2. CASE year > 1970
      <4>1. year - 1 \in Nat
        BY <3>2
      <4> QED BY <1>2, <2>1, <3>2, <4>1
    <3> QED BY <3>1, <3>2
  <2> QED BY <2>3
<1>4. YearStart = next(YearStart)
  <2> HIDE DEF g, next
  <2>1. YearStart = CHOOSE f : f = next(f)
    BY DEF YearStart, next
  <2> QED BY <1>3, <2>1
<1>5. ASSUME NEW year \in Nat
      PROVE YearStart[year] = IF year <= 1970 THEN 0
                              ELSE YearStart[year - 1] + IF Leap(year - 1) THEN 366 ELSE 365
  <2> DEFINE f == YearStart
  <2>1. f = next(f)
    BY <1>4
  <2> HIDE DEF f
  <2>2. f[year] = IF year <= 1970 THEN 0 ELSE f[year - 1] + IF Leap(year - 1) THEN 366 ELSE 365
    BY <2>1
  <2> QED BY <2>2 DEF f
<1> HIDE DEF next, g, start
<1> DEFINE T == {year \in Nat : YearStart[year] # start(year)}
<1>6. ASSUME T # {} PROVE FALSE
  <2>0. T \in SUBSET Nat
    OBVIOUS
  <2> HIDE DEF T
  <2>1. PICK year \in T : \A m \in T : year <= m
    BY <1>6, <2>0, LeastNumber
  <2>2. year \in Nat /\ YearStart[year] # start(year)
    BY DEF T
  <2>3. year > 1970
    BY <1>5, <2>2 DEF start
  <2>4. year - 1 \in Nat /\ year - 1 \notin T
    BY <2>1, <2>2, <2>3
  <2>5. YearStart[year - 1] = start(year - 1)
    BY <2>4 DEF T
  <2> QED BY <1>2, <1>5, <2>2, <2>3, <2>5
<1>7. \A year \in Nat : YearStart[year] = start(year)
  BY <1>6
<1> QED
  BY <1>1, <1>7 DEF start

\* the days before a month, by the formula
Before(year, month) ==
  IF month <= 2 THEN 31 * (month - 1)
  ELSE (153 * (month - 3) + 2) \div 5 + 59 + IF Leap(year) THEN 1 ELSE 0

LEMMA BeforeStep ==
  ASSUME NEW year \in Nat, NEW month \in 2 .. 12
  PROVE  Before(year, month) = Before(year, month - 1) + MonthDays(year, month - 1)
<1>1. \/ month = 2 \/ month = 3 \/ month = 4 \/ month = 5 \/ month = 6 \/ month = 7
      \/ month = 8 \/ month = 9 \/ month = 10 \/ month = 11 \/ month = 12
  OBVIOUS
<1>2. Leap(year) \in BOOLEAN
  BY DEF Leap
<1> HIDE DEF Leap
<1>3. CASE month = 2
  BY <1>2, <1>3 DEF Before, MonthDays
<1>4. CASE month = 3
  BY <1>2, <1>4 DEF Before, MonthDays
<1>5. CASE month \in 4 .. 12
  BY <1>1, <1>2, <1>5 DEF Before, MonthDays
<1> QED
  BY <1>1, <1>3, <1>4, <1>5

\* Counting one month after the other arrives at the formula.
LEMMA MonthFacts ==
  ASSUME NEW year \in Nat
  PROVE  \A month \in 1 .. 12 : MonthStart(year)[month] = Before(year, month)
<1> DEFINE next(f) == [month \in 1 .. 12 |->
                         IF month = 1 THEN 0 ELSE f[month - 1] + MonthDays(year, month - 1)]
           g == [month \in 1 .. 12 |-> Before(year, month)]
           M == MonthStart(year)
<1>1. Before(year, 1) = 0
  BY DEF Before
<1>2. g = next(g)
  <2>1. ASSUME NEW month \in 1 .. 12
        PROVE  Before(year, month) = IF month = 1 THEN 0 ELSE g[month - 1] + MonthDays(year, month - 1)
    <3>1. CASE month = 1
      BY <1>1, <3>1
    <3>2. CASE month # 1
      <4>1. month \in 2 .. 12 /\ month - 1 \in 1 .. 12
        BY <3>2
      <4> QED BY <3>2, <4>1, BeforeStep
    <3> QED BY <3>1, <3>2
  <2> QED BY <2>1
<1>3. M = next(M)
  <2> HIDE DEF g, next
  <2>1. M = CHOOSE f : f = next(f)
    BY DEF MonthStart, next
  <2> QED BY <1>2, <2>1
<1> HIDE DEF M
<1>4. ASSUME NEW month \in 1 .. 12
      PROVE  M[month] = IF month = 1 THEN 0 ELSE M[month - 1] + MonthDays(year, month - 1)
  BY <1>3
<1> HIDE DEF next, g
<1> DEFINE T == {month \in 1 .. 12 : M[month] # Before(year, month)}
<1>5. ASSUME T # {} PROVE FALSE
  <2>0. T \in SUBSET Nat
    OBVIOUS
  <2> HIDE DEF T
  <2>1. PICK month \in T : \A m \in T : month <= m
    BY <1>5, <2>0, LeastNumber
  <2>2. month \in 1 .. 12 /\ M[month] # Before(year, month)
    BY DEF T
  <2>3. month # 1
    BY <1>1, <1>4, <2>2
  <2>4. month - 1 \in 1 .. 12 /\ month - 1 \notin T
    BY <2>1, <2>2, <2>3
  <2>5. M[month - 1] = Before(year, month - 1)
    BY <2>4 DEF T
  <2>6. month \in 2 .. 12
    BY <2>2, <2>3
  <2> QED BY <1>4, <2>2, <2>3, <2>5, <2>6, BeforeStep
<1> QED
  BY <1>5 DEF M

\* The code's formula is the calendar's count.
LEMMA CivilIsCounted ==
  ASSUME NEW year \in Nat, year >= 1970, NEW month \in 1 .. 12, NEW day \in Nat
  PROVE  DaysFromCivil(year, month, day) = CountedDays(year, month, day)
<1> DEFINE y == MarchOf(year, month)
           before == SinceMarch(month)
<1>1. DaysFromCivil(year, month, day) = Marches(y) + (before + day - 1) - 719468
  BY CivilFacts, SMT
<1>2. CountedDays(year, month, day) = (Marches(year - 1) + 306 - 719468) + Before(year, month) + day - 1
  BY YearFacts, MonthFacts DEF CountedDays
<1>3. Marches(year) = Marches(year - 1) + IF Leap(year) THEN 366 ELSE 365
  BY MarchStep
<1>4. Marches(year) \in Int /\ Marches(year - 1) \in Int /\ Leap(year) \in BOOLEAN
  BY DEF Marches, Leap
<1>5. CASE month <= 2
  <2>1. y = year - 1 /\ before = 306 + Before(year, month)
    BY <1>5 DEF Before, MarchOf, SinceMarch
  <2>2. Before(year, month) \in Int
    BY <1>5 DEF Before
  <2> HIDE DEF y, before
  <2> QED BY <1>1, <1>2, <1>4, <2>1, <2>2
<1>6. CASE month > 2
  <2>1. y = year
    BY <1>6 DEF MarchOf
  <2>2. before \in Int /\ Before(year, month) = before + 59 + IF Leap(year) THEN 1 ELSE 0
    BY <1>6 DEF Before, SinceMarch
  <2> HIDE DEF y, before
  <2> QED BY <1>1, <1>2, <1>3, <1>4, <2>1, <2>2
<1> QED
  BY <1>5, <1>6

Since1970(year, month, day) == DaysFromCivil(year, month, day) >= 0 <=> year >= 1970

\* No date before 1970 has a day to report, and each from then on has one.
LEMMA CivilSign ==
  ASSUME NEW year \in Nat, year >= 1, NEW month \in 1 .. 12, NEW day \in 1 .. 31
  PROVE  Since1970(year, month, day)
<1> DEFINE y == MarchOf(year, month)
           before == SinceMarch(month)
<1>1. DaysFromCivil(year, month, day) = Marches(y) + (before + day - 1) - 719468
  BY CivilFacts, SMT DEF Since1970
<1>2. (month <= 2 => before >= 306) /\ before \in 0 .. 337 /\ (month > 2 => before <= 275)
  BY SMT DEF SinceMarch
<1>3. \A n \in Nat : Marches(n) \in Int /\ (n <= 1968 => Marches(n) <= 718797)
                     /\ (n = 1969 => Marches(n) = 719162) /\ (n >= 1970 => Marches(n) >= 719527)
  BY SMT DEF Marches
<1>4. y \in Nat /\ (month <= 2 => y = year - 1) /\ (month > 2 => y = year)
  BY DEF MarchOf
<1>5. Marches(y) \in Int
  BY <1>3, <1>4, SMT DEF Since1970
<1> HIDE DEF y, before
<1>6. CASE year >= 1970
  <2>1. CASE month <= 2
    <3>1. y >= 1969 /\ Marches(y) >= 719162
      BY <1>3, <1>4, <1>6, <2>1, SMT DEF Since1970
    <3> QED BY <1>1, <1>2, <1>5, <1>6, <2>1, <3>1, SMT DEF Since1970
  <2>2. CASE month > 2
    <3>1. Marches(y) >= 719527
      BY <1>3, <1>4, <1>6, <2>2, SMT DEF Since1970
    <3> QED BY <1>1, <1>2, <1>5, <1>6, <3>1, SMT DEF Since1970
  <2> QED BY <2>1, <2>2, SMT DEF Since1970
<1>7. CASE year < 1970
  <2>1. CASE month <= 2
    <3>1. Marches(y) <= 718797
      BY <1>3, <1>4, <1>7, <2>1, SMT DEF Since1970
    <3> QED BY <1>1, <1>2, <1>5, <1>7, <3>1, SMT DEF Since1970
  <2>2. CASE month > 2
    <3>1. Marches(y) <= 719162
      BY <1>3, <1>4, <1>7, <2>2, SMT DEF Since1970
    <3> QED BY <1>1, <1>2, <1>5, <1>7, <2>2, <3>1, SMT DEF Since1970
  <2> QED BY <2>1, <2>2, SMT DEF Since1970
<1> QED
  BY <1>6, <1>7, SMT DEF Since1970

\* A type is what the report says, RTK first; a course that counts is one of a
\* speed of 15 cm/s at least.
LEMMA TypeKept ==
  ASSUME NEW pvt, Report(pvt), NEW fix \in Fixes(pvt)
  PROVE  SameType(fix, pvt)
<1>1. /\ fix.type = FixTypeFrom(pvt) /\ fix.speed = SpeedOf(pvt.speed)
      /\ fix.courseValid = (pvt.speed >= CourseValidMin)
  BY DEF Fixes, Fix
<1>2. /\ pvt.ok \in BOOLEAN /\ pvt.carrier \in {"none", "floating", "fixed"}
      /\ pvt.type \in {"2D", "3D", "GNSS_DR", "DR", "TIME_ONLY", "NO_FIX"}
  BY DEF Report
<1>3. fix.courseValid <=> fix.speed >= 15
  <2>1. pvt.speed \in Int
    BY Ends DEF Report, I32
  <2> DEFINE q == IF pvt.speed > 0 THEN pvt.speed \div 10 ELSE 0
  <2>2. q \in Nat /\ (pvt.speed >= 150 <=> q >= 15)
    BY <2>1
  <2>3. fix.speed = SaturateU16(q)
    BY <1>1 DEF SpeedOf
  <2>4. fix.courseValid <=> pvt.speed >= 150
    BY <1>1 DEF CourseValidMin
  <2> HIDE DEF q
  <2>5. fix.speed >= 15 <=> q >= 15
    BY <2>2, <2>3 DEF SaturateU16, U16Max
  <2> QED
    BY <2>2, <2>4, <2>5
<1>4. CASE ~pvt.ok
  <2>1. fix.type = "NoFix"
    BY <1>1, <1>4 DEF FixTypeFrom
  <2> QED
    BY <1>3, <1>4, <2>1 DEF SameType
<1>5. CASE pvt.ok /\ pvt.carrier = "fixed"
  <2>1. fix.type = "RtkFixed"
    BY <1>1, <1>5 DEF FixTypeFrom
  <2> QED
    BY <1>3, <1>5, <2>1 DEF SameType
<1>6. CASE pvt.ok /\ pvt.carrier = "floating"
  <2>1. fix.type = "RtkFloat"
    BY <1>1, <1>6 DEF FixTypeFrom
  <2> QED
    BY <1>3, <1>6, <2>1 DEF SameType
<1>7. CASE pvt.ok /\ pvt.carrier = "none"
  <2>1. fix.type = CASE pvt.type = "2D" -> "Fix2d"
                     [] pvt.type = "3D" -> "Fix3d"
                     [] pvt.type \in {"GNSS_DR", "DR"} -> "DeadReckoning"
                     [] pvt.type = "TIME_ONLY" -> "TimeOnly"
                     [] OTHER -> "NoFix"
    BY <1>1, <1>7 DEF FixTypeFrom
  <2>2. CASE pvt.type = "2D"
    BY <1>3, <1>7, <2>1, <2>2 DEF SameType
  <2>3. CASE pvt.type = "3D"
    BY <1>3, <1>7, <2>1, <2>3 DEF SameType
  <2>4. CASE pvt.type \in {"GNSS_DR", "DR"}
    BY <1>3, <1>7, <2>1, <2>4 DEF SameType
  <2>5. CASE pvt.type = "TIME_ONLY"
    BY <1>3, <1>7, <2>1, <2>5 DEF SameType
  <2>6. CASE pvt.type = "NO_FIX"
    BY <1>3, <1>7, <2>1, <2>6 DEF SameType
  <2> QED
    BY <1>2, <2>2, <2>3, <2>4, <2>5, <2>6
<1> QED
  BY <1>2, <1>4, <1>5, <1>6, <1>7

\* What a report becomes is what it said, its date's day the calendar's.
LEMMA ReportKept ==
  ASSUME NEW pvt, Report(pvt), NEW fix \in Fixes(pvt)
  PROVE  Reported(fix, pvt)
<1>1. SameNumbers(fix, pvt) /\ SameType(fix, pvt)
  BY NumbersAsReported, TypeKept DEF Report
<1>2. /\ fix.position = pvt.position /\ fix.satellites = pvt.satellites
      /\ fix.type = FixTypeFrom(pvt) /\ fix.time = TimeOf(pvt)
  BY DEF Fixes, Fix
<1> DEFINE days == DaysFromCivil(pvt.year, pvt.month, pvt.day)
           dated == pvt.timeValid /\ FixTypeFrom(pvt) # "NoFix" /\ days >= 0
           second == pvt.hour * 3600 + pvt.minute * 60 + pvt.second
<1>3. TimeOf(pvt) = IF dated THEN <<days, second>> ELSE <<>>
  BY DEF TimeOf
<1>4. pvt.timeValid =>
        (days >= 0 <=> pvt.year >= 1970)
        /\ (pvt.year >= 1970 => days = CountedDays(pvt.year, pvt.month, pvt.day))
  <2> SUFFICES ASSUME pvt.timeValid
               PROVE  /\ days >= 0 <=> pvt.year >= 1970
                      /\ pvt.year >= 1970 => days = CountedDays(pvt.year, pvt.month, pvt.day)
    OBVIOUS
  <2>1. /\ pvt.year \in Nat /\ pvt.year >= 1 /\ pvt.month \in 1 .. 12
        /\ pvt.day \in 1 .. 31 /\ pvt.day \in Nat
    BY DEF Report
  <2>2. Since1970(pvt.year, pvt.month, pvt.day)
    BY <2>1, CivilSign, Zenon
  <2>4. days >= 0 <=> pvt.year >= 1970
    BY <2>2, Zenon DEF Since1970
  <2>3. pvt.year >= 1970 => days = CountedDays(pvt.year, pvt.month, pvt.day)
    BY <2>1, CivilIsCounted, SMT
  <2> QED BY <2>3, <2>4
<1> HIDE DEF days, second
<1>5. /\ TimeOf(pvt) # <<>> <=> dated
      /\ TimeOf(pvt) # <<>> => TimeOf(pvt)[1] = days /\ TimeOf(pvt)[2] = second
  <2> HIDE DEF dated
  <2>1. <<days, second>> # <<>> /\ <<days, second>>[1] = days /\ <<days, second>>[2] = second
    OBVIOUS
  <2> QED BY <1>3, <2>1
<1>6. TimeOf(pvt) # <<>> <=>
        FixTypeFrom(pvt) # "NoFix" /\ pvt.timeValid /\ pvt.year >= 1970
  BY <1>4, <1>5
<1>7. TimeOf(pvt) # <<>> => SameTime(TimeOf(pvt), pvt)
  <2> DEFINE hour == pvt.hour
             minute == pvt.minute
             last == pvt.second
             time == TimeOf(pvt)
             clock == time[2]
  <2> SUFFICES ASSUME time # <<>>
               PROVE  /\ time[1] = CountedDays(pvt.year, pvt.month, pvt.day)
                      /\ last < 60 => /\ clock \div 3600 = hour /\ (clock \div 60) % 60 = minute
                                     /\ clock % 60 = last
    BY DEF SameTime
  <2>1. time[1] = CountedDays(pvt.year, pvt.month, pvt.day)
    BY <1>4, <1>5, <1>6
  <2>2. hour \in 0 .. 23 /\ minute \in 0 .. 59 /\ last \in 0 .. 60
    BY <1>6 DEF Report
  <2>3. clock = hour * 3600 + minute * 60 + last
    BY <1>5 DEF second
  <2> HIDE DEF hour, minute, last, clock
  <2>4. last < 60 => clock \div 3600 = hour /\ (clock \div 60) % 60 = minute /\ clock % 60 = last
    BY <2>2, <2>3
  <2> QED
    BY <2>1, <2>4
<1> QED
  BY <1>1, <1>2, <1>6, <1>7 DEF Reported

-----------------------------------------------------------------------------
(* The strengthened invariant                                              *)

KindsInv ==
  /\ sent \in Seq(Frames) /\ line \in Seq(Nat) /\ ring \in Seq(Nat) /\ batch \in Seq(Nat)
  /\ header \in Seq(Nat) /\ payload \in Seq(Nat)

\* a length that was taken fits the buffer
LengthInv == state \in {"PAYLOAD", "CHECKSUM"} => header[2] <= MaxPayload

IInv == KindsInv /\ LengthInv /\ TypeOK

-----------------------------------------------------------------------------
(* Lemmas                                                                  *)

\* A part of a stream is a stream of its own.
LEMMA PartFacts ==
  ASSUME NEW s \in Seq(Nat), NEW m \in Nat \ {0}, NEW n \in Nat, n <= Len(s)
  PROVE  SubSeq(s, m, n) \in Seq(Nat) /\ Len(SubSeq(s, m, n)) = IF m <= n THEN n - m + 1 ELSE 0
<1>1. \A i \in m .. n : s[i] \in Nat
  BY ElementOfSeq
<1> QED
  BY <1>1, SubSeqProperties

\* What a frame puts on the line is a stream of numbers.
LEMMA LineFacts ==
  ASSUME NEW n \in Nat, NEW frame \in Frames
  PROVE  Line(n, frame) \in Seq(Nat)
<1>1. frame.payload \in Seq(Nat) /\ frame.kind \in Nat /\ Sync1 \in Nat /\ Sync2 \in Nat
  BY UnitsAssumption DEF UnitsAssumption
<1>2. Len(frame.payload) \in Nat
  BY <1>1, LenProperties
<1>3. <<Sync1, Sync2, frame.kind, Len(frame.payload)>> \in Seq(Nat)
  BY <1>1, <1>2
<1>4. <<Check(n)>> \in Seq(Nat)
  BY DEF Check
<1> QED
  BY <1>1, <1>3, <1>4, ConcatProperties DEF Line

-----------------------------------------------------------------------------
(* The steps                                                               *)

\* Whatever is sent, it reaches the line only.
LEMMA SendInv ==
  ASSUME IInv, NEW frame \in Frames, SendWhole(frame) \/ SendDamaged(frame) \/ SendShort(frame)
  PROVE  IInv'
<1> DEFINE whole == Line(Len(sent) + 1, frame)
<1>1. Len(sent) + 1 \in Nat
  BY LenProperties DEF IInv, KindsInv
<1>2. whole \in Seq(Nat)
  BY <1>1, LineFacts
<1>3. PICK units \in Seq(Nat) : Transmit(frame, units)
  <2>1. CASE SendWhole(frame)
    BY <1>2, <2>1 DEF SendWhole
  <2>2. CASE SendDamaged(frame)
    <3>1. PICK i \in DOMAIN whole, unit \in Noise : Transmit(frame, [whole EXCEPT ![i] = unit])
      BY <2>2 DEF SendDamaged
    <3>2. i \in 1 .. Len(whole) /\ unit \in Nat
      BY <1>2, LenProperties, UnitsAssumption DEF UnitsAssumption
    <3> QED
      BY <1>2, <3>1, <3>2, ExceptSeq
  <2>3. CASE SendShort(frame)
    <3>1. PICK i \in DOMAIN whole :
            Transmit(frame, SubSeq(whole, 1, i - 1) \o SubSeq(whole, i + 1, Len(whole)))
      BY <2>3 DEF SendShort
    <3>2. i \in 1 .. Len(whole) /\ Len(whole) \in Nat
      BY <1>2, LenProperties
    <3>3. SubSeq(whole, 1, i - 1) \in Seq(Nat)
      BY <1>2, <3>2, PartFacts
    <3>4. SubSeq(whole, i + 1, Len(whole)) \in Seq(Nat)
      BY <1>2, <3>2, PartFacts
    <3> QED
      BY <3>1, <3>3, <3>4, ConcatProperties
  <2> QED
    BY <2>1, <2>2, <2>3
<1>4. sent' \in Seq(Frames) /\ line' \in Seq(Nat)
  BY <1>3 DEF Transmit, IInv, KindsInv
<1>5. UNCHANGED <<ring, batch, parser>>
  BY <1>3 DEF Transmit
<1> QED
  BY <1>4, <1>5 DEF IInv, KindsInv, LengthInv, TypeOK, parser

\* The interrupt stores no more than fits.
LEMMA UartIsrInv == ASSUME IInv, UartIsr PROVE IInv'
<1> DEFINE read == Least(FifoRead, Len(line))
           fits == Least(read, RingSize - Len(ring))
<1>1. Len(line) \in Nat /\ Len(ring) \in Nat /\ FifoRead \in Nat /\ RingSize - Len(ring) \in Nat
  BY LenProperties, SizesAssumption DEF IInv, KindsInv, TypeOK, SizesAssumption
<1>2. read \in Nat /\ read <= Len(line)
  BY <1>1 DEF Least
<1>3. fits \in Nat /\ fits <= Len(line) /\ fits <= RingSize - Len(ring)
  BY <1>1, <1>2 DEF Least
<1>4. line' \in Seq(Nat)
  <2>1. line' = SubSeq(line, read + 1, Len(line))
    BY DEF UartIsr
  <2> QED
    BY <1>1, <1>2, <2>1, PartFacts, SMTT(30) DEF IInv, KindsInv
<1>5. ring' \in Seq(Nat) /\ Len(ring') <= RingSize
  <2>1. ring' = ring \o SubSeq(line, 1, fits)
    BY DEF UartIsr
  <2>2. SubSeq(line, 1, fits) \in Seq(Nat) /\ Len(SubSeq(line, 1, fits)) = fits
    BY <1>1, <1>3, PartFacts DEF IInv, KindsInv
  <2>3. ring' \in Seq(Nat) /\ Len(ring') = Len(ring) + fits
    BY <2>1, <2>2, ConcatProperties DEF IInv, KindsInv
  <2> QED
    BY <1>1, <1>3, <2>3, SizesAssumption DEF SizesAssumption
<1>6. UNCHANGED <<sent, batch, parser>>
  BY DEF UartIsr
<1> QED
  BY <1>4, <1>5, <1>6 DEF IInv, KindsInv, LengthInv, TypeOK, parser

\* A batch is no longer than the thread's buffer.
LEMMA GetBatchInv == ASSUME IInv, GetBatch PROVE IInv'
<1> DEFINE read == Least(BatchSize, Len(ring))
<1>1. Len(ring) \in Nat /\ BatchSize \in Nat
  BY LenProperties, SizesAssumption DEF IInv, KindsInv, SizesAssumption
<1>2. read \in Nat /\ read <= Len(ring) /\ read <= BatchSize
  BY <1>1 DEF Least
<1>3. batch' \in Seq(Nat) /\ Len(batch') <= BatchSize
  <2>1. batch' = SubSeq(ring, 1, read)
    BY DEF GetBatch
  <2> QED
    BY <1>1, <1>2, <2>1, PartFacts, SMTT(30) DEF IInv, KindsInv
<1>4. ring' \in Seq(Nat) /\ Len(ring') <= Len(ring)
  <2>1. ring' = SubSeq(ring, read + 1, Len(ring))
    BY DEF GetBatch
  <2> HIDE DEF read
  <2>2. read + 1 \in Nat \ {0} /\ Len(ring) <= Len(ring) /\ ring \in Seq(Nat)
    BY <1>1, <1>2 DEF IInv, KindsInv
  <2>3. /\ ring' \in Seq(Nat)
        /\ Len(ring') = IF read + 1 <= Len(ring) THEN Len(ring) - (read + 1) + 1 ELSE 0
    BY <1>1, <2>1, <2>2, PartFacts
  <2> QED
    BY <1>1, <1>2, <2>3
<1>5. Len(ring') <= RingSize
  BY <1>1, <1>4, LenProperties, SizesAssumption DEF IInv, TypeOK, SizesAssumption
<1>6. UNCHANGED <<sent, line, parser>>
  BY DEF GetBatch
<1> QED
  BY <1>3, <1>4, <1>5, <1>6 DEF IInv, KindsInv, LengthInv, TypeOK, parser

\* A unit taken is a number, and the batch shrinks.
LEMMA UnitFacts ==
  ASSUME IInv, NEW in, RxUnit(in)
  PROVE  /\ state = in /\ Unit \in Nat
         /\ sent' \in Seq(Frames) /\ line' \in Seq(Nat) /\ ring' \in Seq(Nat)
         /\ Len(ring') <= RingSize
         /\ batch' \in Seq(Nat) /\ Len(batch') <= BatchSize
         /\ Len(header) \in Nat /\ Len(payload) \in Nat
<1>1. Unit \in Nat /\ batch' \in Seq(Nat) /\ Len(batch') = Len(batch) - 1
  BY HeadTailProperties DEF IInv, KindsInv, RxUnit, Unit
<1>2. Len(batch) \in Nat /\ Len(header) \in Nat /\ Len(payload) \in Nat
  BY LenProperties DEF IInv, KindsInv
<1>3. Len(batch') <= BatchSize
  BY <1>1, <1>2, SizesAssumption DEF IInv, TypeOK, SizesAssumption
<1> QED
  BY <1>1, <1>2, <1>3 DEF IInv, KindsInv, TypeOK, RxUnit, stream

\* Before a header is whole, nothing is filled.
LEMMA SyncInv == ASSUME IInv, RxSync1 \/ RxSync2 PROVE IInv'
<1>1. PICK in : RxUnit(in)
  BY DEF RxSync1, RxSync2
<1>2. /\ state' \in {"SYNC1", "SYNC2", "HEADER"}
      /\ header' \in Seq(Nat) /\ Len(header') <= HeaderUnits
      /\ state' = "HEADER" => Len(header') < HeaderUnits
      /\ payload' = payload
  <2>1. <<>> \in Seq(Nat) /\ Len(<<>>) = 0
    BY EmptySeq
  <2>2. state' \in {"SYNC1", "SYNC2", "HEADER"} /\ payload' = payload
    BY DEF RxSync1, RxSync2
  <2>3. header' = <<>> \/ (header' = header /\ state' # "HEADER")
    BY DEF RxSync1, RxSync2
  <2>4. header \in Seq(Nat) /\ Len(header) <= HeaderUnits
    BY DEF IInv, KindsInv, TypeOK
  <2>5. CASE header' = <<>>
    BY <2>1, <2>2, <2>5 DEF HeaderUnits
  <2>6. CASE header' = header /\ state' # "HEADER"
    BY <2>2, <2>4, <2>6
  <2> QED
    BY <2>3, <2>5, <2>6
<1> QED
  BY <1>1, <1>2, UnitFacts DEF IInv, KindsInv, LengthInv, TypeOK

\* A whole header opens a payload no longer than the buffer, or none.
LEMMA HeaderInv == ASSUME IInv, RxHeader PROVE IInv'
<1>1. RxUnit("HEADER") /\ header' = Append(header, Unit)
  BY DEF RxHeader
<1>2. Unit \in Nat /\ Len(header) \in Nat /\ state = "HEADER"
  BY <1>1, UnitFacts
<1>3. /\ header' \in Seq(Nat) /\ Len(header') = Len(header) + 1
      /\ header'[Len(header) + 1] = Unit
  BY <1>1, <1>2 DEF IInv, KindsInv
<1>4. Len(header) < 2
  BY <1>2 DEF IInv, TypeOK, HeaderUnits
<1>5. <<>> \in Seq(Nat) /\ Len(<<>>) = 0
  BY EmptySeq
<1>6. CASE Len(header) + 1 < HeaderUnits
  <2>1. state' = "HEADER" /\ payload' = payload
    BY <1>2, <1>6 DEF RxHeader
  <2> QED
    BY <1>1, <1>2, <1>3, <1>6, <2>1, UnitFacts
    DEF IInv, KindsInv, LengthInv, TypeOK, HeaderUnits
<1>7. CASE ~(Len(header) + 1 < HeaderUnits) /\ LengthOk(Unit)
  <2>1. /\ state' = IF Unit = 0 THEN "CHECKSUM" ELSE "PAYLOAD"
        /\ payload' = <<>>
    BY <1>7 DEF RxHeader
  <2>2. Len(header') = 2 /\ header'[2] = Unit /\ Unit <= MaxPayload
    BY <1>2, <1>3, <1>4, <1>7 DEF HeaderUnits, LengthOk
  <2>3. MaxPayload \in Nat
    BY SizesAssumption DEF SizesAssumption
  <2> QED
    BY <1>1, <1>2, <1>3, <1>5, <2>1, <2>2, <2>3, UnitFacts
    DEF IInv, KindsInv, LengthInv, TypeOK, HeaderUnits
<1>8. CASE ~(Len(header) + 1 < HeaderUnits) /\ ~LengthOk(Unit)
  <2>1. state' = "SYNC1" /\ payload' = payload
    BY <1>8 DEF RxHeader
  <2>2. Len(header') <= 2
    BY <1>2, <1>3, <1>4
  <2> QED
    BY <1>1, <1>2, <1>3, <2>1, <2>2, UnitFacts
    DEF IInv, KindsInv, LengthInv, TypeOK, HeaderUnits
<1> QED
  BY <1>6, <1>7, <1>8

\* A payload is filled to its announced length and not beyond.
LEMMA PayloadInv == ASSUME IInv, RxPayload PROVE IInv'
<1>1. RxUnit("PAYLOAD") /\ payload' = Append(payload, Unit) /\ header' = header
  BY DEF RxPayload
<1>2. Unit \in Nat /\ Len(payload) \in Nat /\ state = "PAYLOAD"
  BY <1>1, UnitFacts
<1>3. payload' \in Seq(Nat) /\ Len(payload') = Len(payload) + 1
  BY <1>1, <1>2 DEF IInv, KindsInv
<1>4. /\ header \in Seq(Nat) /\ Len(header) = 2 /\ Len(payload) < header[2]
      /\ header[2] <= MaxPayload
  BY <1>2 DEF IInv, KindsInv, LengthInv, TypeOK, HeaderUnits
<1>5. header[2] \in Nat /\ MaxPayload \in Nat
  <2>1. 2 \in 1 .. Len(header)
    BY <1>4
  <2> QED
    BY <1>4, <2>1, ElementOfSeq, SizesAssumption DEF SizesAssumption
<1>6. state' = IF Len(payload) + 1 >= header[2] THEN "CHECKSUM" ELSE "PAYLOAD"
  BY DEF RxPayload
<1> QED
  BY <1>1, <1>2, <1>3, <1>4, <1>5, <1>6, UnitFacts
  DEF IInv, KindsInv, LengthInv, TypeOK, HeaderUnits

\* After the check the parser looks for the next frame.
LEMMA ChecksumInv == ASSUME IInv, RxChecksum PROVE IInv'
<1>1. RxUnit("CHECKSUM") /\ state' = "SYNC1" /\ header' = header /\ payload' = payload
  BY DEF RxChecksum, AfterCheck
<1> QED
  BY <1>1, UnitFacts DEF IInv, KindsInv, LengthInv, TypeOK, HeaderUnits

-----------------------------------------------------------------------------
(* The theorems                                                            *)

\* Every behaviour keeps the invariant.
THEOREM Inductive == Spec => []IInv
<1>1. Init => IInv
  <2>1. <<>> \in Seq(Nat) /\ <<>> \in Seq(Frames) /\ Len(<<>>) = 0
    BY EmptySeq
  <2> QED
    BY <2>1, SizesAssumption
    DEF Init, IInv, KindsInv, LengthInv, TypeOK, HeaderUnits, SizesAssumption
<1>2. IInv /\ [Next]_vars => IInv'
  <2> SUFFICES ASSUME IInv, [Next]_vars PROVE IInv'
    OBVIOUS
  <2>1. CASE \E frame \in Frames : SendWhole(frame) \/ SendDamaged(frame) \/ SendShort(frame)
    BY <2>1, SendInv
  <2>2. CASE UartIsr
    BY <2>2, UartIsrInv
  <2>3. CASE Thread
    BY <2>3, GetBatchInv, SyncInv, HeaderInv, PayloadInv, ChecksumInv DEF Thread
  <2>4. CASE UNCHANGED vars
    BY <2>4 DEF IInv, KindsInv, LengthInv, TypeOK, vars
  <2> QED
    BY <2>1, <2>2, <2>3, <2>4 DEF Next
<1> QED
  BY <1>1, <1>2, PTL DEF Spec

\* No stream, damaged or not, makes the ring or the parser's buffers hold more
\* than their size, and a check is awaited for a whole payload only.
THEOREM TypeCorrect == Spec => []TypeOK
<1>1. IInv => TypeOK
  BY DEF IInv
<1> QED
  BY <1>1, Inductive, PTL

-----------------------------------------------------------------------------
(* The units of a frame on the line                                        *)

\* Two streams one after the other, and a stretch of a stream, unit by unit.
LEMMA ConcatUnits ==
  ASSUME NEW s \in Seq(Nat), NEW t \in Seq(Nat)
  PROVE  /\ s \o t \in Seq(Nat) /\ Len(s \o t) = Len(s) + Len(t)
         /\ \A i \in 1 .. Len(s) : (s \o t)[i] = s[i]
         /\ \A i \in 1 .. Len(t) : (s \o t)[Len(s) + i] = t[i]
<1>1. Len(s) \in Nat /\ Len(t) \in Nat
  BY LenProperties
<1>2. /\ s \o t \in Seq(Nat) /\ Len(s \o t) = Len(s) + Len(t)
      /\ \A i \in 1 .. Len(s) + Len(t) :
           (s \o t)[i] = IF i <= Len(s) THEN s[i] ELSE t[i - Len(s)]
  BY ConcatProperties
<1>3. ASSUME NEW i \in 1 .. Len(s) PROVE (s \o t)[i] = s[i]
  BY <1>1, <1>2
<1>4. ASSUME NEW i \in 1 .. Len(t) PROVE (s \o t)[Len(s) + i] = t[i]
  <2>1. Len(s) + i \in 1 .. Len(s) + Len(t) /\ ~(Len(s) + i <= Len(s)) /\ Len(s) + i - Len(s) = i
    BY <1>1
  <2> QED BY <1>2, <2>1
<1> QED
  BY <1>2, <1>3, <1>4

LEMMA StretchUnits ==
  ASSUME NEW s \in Seq(Nat), NEW m \in Nat, NEW n \in Nat, m <= n, n <= Len(s)
  PROVE  /\ SubSeq(s, m + 1, n) \in Seq(Nat) /\ Len(SubSeq(s, m + 1, n)) = n - m
         /\ \A i \in 1 .. n - m : SubSeq(s, m + 1, n)[i] = s[m + i]
<1> DEFINE part == SubSeq(s, m + 1, n)
<1>1. \A i \in m + 1 .. n : s[i] \in Nat
  BY ElementOfSeq, LenProperties
<1>2. /\ part \in Seq(Nat) /\ Len(part) = IF m + 1 <= n THEN n - (m + 1) + 1 ELSE 0
      /\ \A i \in 1 .. n - (m + 1) + 1 : part[i] = s[(m + 1) + i - 1]
  BY <1>1, SubSeqProperties
<1> HIDE DEF part
<1>3. Len(part) = n - m
  BY <1>2
<1>4. ASSUME NEW i \in 1 .. n - m PROVE part[i] = s[m + i]
  <2>1. i \in 1 .. n - (m + 1) + 1 /\ (m + 1) + i - 1 = m + i
    OBVIOUS
  <2> QED BY <1>2, <2>1
<1> QED
  BY <1>2, <1>3, <1>4 DEF part

\* What a frame puts on the line, unit by unit; all but the check are small.
LEMMA LineUnits ==
  ASSUME NEW n \in Nat, NEW frame \in Frames
  PROVE  /\ Len(frame.payload) \in Nat /\ Len(Line(n, frame)) = Len(frame.payload) + 5
         /\ Line(n, frame)[1] = Sync1 /\ Line(n, frame)[2] = Sync2
         /\ Line(n, frame)[3] = frame.kind /\ Line(n, frame)[4] = Len(frame.payload)
         /\ \A i \in 1 .. Len(frame.payload) : Line(n, frame)[4 + i] = frame.payload[i]
         /\ Line(n, frame)[Len(frame.payload) + 5] = Check(n)
         /\ \A i \in 1 .. 4 + Len(frame.payload) : Line(n, frame)[i] <= 100
<1> DEFINE p == frame.payload
           h == <<Sync1, Sync2, frame.kind, Len(p)>>
<1>1. /\ p \in Seq(Nat) /\ Len(p) \in Nat /\ frame.kind \in Nat /\ Sync1 \in Nat /\ Sync2 \in Nat
      /\ Check(n) \in Nat
  BY LenProperties, UnitsAssumption DEF UnitsAssumption, Check
<1>2. h \in Seq(Nat) /\ Len(h) = 4 /\ <<Check(n)>> \in Seq(Nat) /\ Len(<<Check(n)>>) = 1
  BY <1>1
<1>3. h[1] = Sync1 /\ h[2] = Sync2 /\ h[3] = frame.kind /\ h[4] = Len(p)
  OBVIOUS
<1>4. Line(n, frame) = (h \o p) \o <<Check(n)>>
  BY DEF Line
<1> HIDE DEF h, p
<1>5. /\ h \o p \in Seq(Nat) /\ Len(h \o p) = 4 + Len(p)
      /\ \A i \in 1 .. 4 : (h \o p)[i] = h[i]
      /\ \A i \in 1 .. Len(p) : (h \o p)[4 + i] = p[i]
  <2>1. /\ h \o p \in Seq(Nat) /\ Len(h \o p) = Len(h) + Len(p)
        /\ \A i \in 1 .. Len(h) : (h \o p)[i] = h[i]
        /\ \A i \in 1 .. Len(p) : (h \o p)[Len(h) + i] = p[i]
    BY <1>1, <1>2, ConcatUnits
  <2> QED BY <1>2, <2>1, Zenon
<1>6. /\ Len(Line(n, frame)) = Len(p) + 5 /\ Line(n, frame)[Len(p) + 5] = Check(n)
      /\ \A i \in 1 .. 4 + Len(p) : Line(n, frame)[i] = (h \o p)[i]
  <2>1. <<Check(n)>>[1] = Check(n) /\ 1 \in 1 .. Len(<<Check(n)>>)
    OBVIOUS
  <2>2. Line(n, frame)[(4 + Len(p)) + 1] = <<Check(n)>>[1]
    BY <1>2, <1>4, <1>5, <2>1, ConcatUnits
  <2>3. (4 + Len(p)) + 1 = Len(p) + 5
    BY <1>1
  <2> QED BY <1>2, <1>4, <1>5, <2>1, <2>2, <2>3, ConcatUnits, SMTT(30)
<1>7. \A i \in 1 .. Len(p) : Line(n, frame)[4 + i] = p[i]
  <2> TAKE i \in 1 .. Len(p)
  <2>1. 4 + i \in 1 .. 4 + Len(p)
    BY <1>1
  <2> QED BY <1>5, <1>6, <2>1
<1>8. \A i \in 1 .. 4 : Line(n, frame)[i] = h[i]
  <2> TAKE i \in 1 .. 4
  <2>1. i \in 1 .. 4 + Len(p)
    BY <1>1
  <2> QED BY <1>5, <1>6, <2>1
<1>9. \A i \in 1 .. 4 : h[i] <= 100
  <2>1. Sync1 <= 100 /\ Sync2 <= 100 /\ frame.kind <= 100 /\ Len(p) <= 100
    BY FramesAssumption DEF FramesAssumption, p
  <2> QED BY <1>3, <2>1
<1>10. \A i \in 1 .. Len(p) : p[i] <= 100
  BY <1>1, FramesAssumption, LenProperties DEF FramesAssumption, p
<1>11. \A i \in 1 .. 4 + Len(p) : Line(n, frame)[i] <= 100
  <2> TAKE i \in 1 .. 4 + Len(p)
  <2>1. CASE i <= 4
    BY <1>8, <1>9, <2>1
  <2>2. CASE i > 4
    <3>1. i - 4 \in 1 .. Len(p) /\ 4 + (i - 4) = i
      BY <1>1, <2>2
    <3> QED BY <1>7, <1>10, <3>1
  <2> QED BY <1>1, <2>1, <2>2
<1>12. /\ Line(n, frame)[1] = Sync1 /\ Line(n, frame)[2] = Sync2
       /\ Line(n, frame)[3] = frame.kind /\ Line(n, frame)[4] = Len(p)
  BY <1>3, <1>8
<1> QED
  BY <1>1, <1>6, <1>7, <1>11, <1>12 DEF p

\* What goes out for a frame: as it is, or with a fault shorter or different.
Sends(frame, units) ==
  \/ units = Line(Len(sent) + 1, frame) /\ UNCHANGED <<hurt, faults>>
  \/ /\ Hurt(Len(sent) + 1)
     /\ \/ Len(units) < Len(Line(Len(sent) + 1, frame))
        \/ /\ Len(units) = Len(Line(Len(sent) + 1, frame))
           /\ \E i \in 1 .. Len(units) : units[i] # Line(Len(sent) + 1, frame)[i]

LEMMA SendFacts ==
  ASSUME IInv, NEW frame \in Frames, SendWhole(frame) \/ SendDamaged(frame) \/ SendShort(frame)
  PROVE  \E units \in Seq(Nat) :
           /\ Transmit(frame, units) /\ Sends(frame, units)
           /\ \A i \in 1 .. Len(units) : units[i] > 100 => i = Len(units) /\ units[i] = Check(Len(sent) + 1)
<1> DEFINE n == Len(sent) + 1
           whole == Line(n, frame)
<1>1. n \in Nat
  BY LenProperties DEF IInv, KindsInv
<1>2. whole \in Seq(Nat) /\ Len(whole) \in Nat /\ DOMAIN whole = 1 .. Len(whole)
  BY <1>1, LineFacts, LenProperties
<1>3. \A i \in 1 .. Len(whole) : whole[i] > 100 => i = Len(whole) /\ whole[i] = Check(n)
  <2> HIDE DEF n
  <2>1. /\ Len(frame.payload) \in Nat /\ Len(whole) = Len(frame.payload) + 5
        /\ whole[Len(frame.payload) + 5] = Check(n)
        /\ \A i \in 1 .. 4 + Len(frame.payload) : whole[i] <= 100
    BY <1>1, LineUnits
  <2>2. \A i \in 1 .. Len(whole) : whole[i] \in Nat
    BY <1>2, ElementOfSeq
  <2> HIDE DEF whole
  <2> TAKE i \in 1 .. Len(whole)
  <2> HAVE whole[i] > 100
  <2>3. ~(whole[i] <= 100)
    BY <2>2
  <2>4. i = Len(frame.payload) + 5
    BY <2>1, <2>3
  <2> QED BY <2>1, <2>4
<1>4. Sync1 \in Nat /\ Sync2 \in Nat /\ \A unit \in Noise : unit \in Nat /\ unit <= 100
  BY UnitsAssumption, FramesAssumption DEF UnitsAssumption, FramesAssumption
<1>5. CASE SendWhole(frame)
  BY <1>2, <1>3, <1>5 DEF SendWhole, Sends
<1>6. CASE SendDamaged(frame)
  <2>1. PICK i \in DOMAIN whole, unit \in Noise :
          /\ unit # whole[i] /\ Transmit(frame, [whole EXCEPT ![i] = unit]) /\ Hurt(n)
    BY <1>6 DEF SendDamaged
  <2> DEFINE units == [whole EXCEPT ![i] = unit]
  <2> HIDE DEF whole, n
  <2>2. units \in Seq(Nat) /\ Len(units) = Len(whole)
    BY <1>2, <1>4, <2>1, ExceptSeq
  <2>3. \A j \in 1 .. Len(whole) : units[j] = IF j = i THEN unit ELSE whole[j]
    BY <1>2
  <2>4. \A j \in 1 .. Len(units) : units[j] > 100 => j = Len(units) /\ units[j] = Check(n)
    <3> HIDE DEF units
    <3> TAKE j \in 1 .. Len(units)
    <3> HAVE units[j] > 100
    <3>1. j # i
      BY <1>4, <2>2, <2>3
    <3> QED BY <1>3, <2>2, <2>3, <3>1
  <2>5. i \in 1 .. Len(units) /\ units[i] # whole[i]
    BY <1>2, <2>1, <2>2, <2>3
  <2> HIDE DEF units
  <2>6. Transmit(frame, units)
    BY <2>1 DEF units
  <2>7. Sends(frame, units)
    BY <2>1, <2>2, <2>5 DEF Sends, n, whole
  <2> QED BY <2>2, <2>4, <2>6, <2>7 DEF n
<1>7. CASE SendShort(frame)
  <2>1. PICK i \in DOMAIN whole :
          /\ Transmit(frame, SubSeq(whole, 1, i - 1) \o SubSeq(whole, i + 1, Len(whole)))
          /\ Hurt(n)
    BY <1>7 DEF SendShort
  <2> DEFINE before == SubSeq(whole, 1, i - 1)
             after == SubSeq(whole, i + 1, Len(whole))
             units == before \o after
  <2> HIDE DEF whole, n
  <2>2. i \in 1 .. Len(whole) /\ i - 1 \in Nat
    BY <1>2
  <2>3. before \in Seq(Nat) /\ Len(before) = i - 1 /\ \A j \in 1 .. i - 1 : before[j] = whole[j]
    <3>1. /\ SubSeq(whole, 0 + 1, i - 1) \in Seq(Nat) /\ Len(SubSeq(whole, 0 + 1, i - 1)) = i - 1 - 0
          /\ \A j \in 1 .. i - 1 - 0 : SubSeq(whole, 0 + 1, i - 1)[j] = whole[0 + j]
      BY <1>2, <2>2, StretchUnits
    <3>2. before = SubSeq(whole, 0 + 1, i - 1)
      OBVIOUS
    <3> HIDE DEF before
    <3> QED BY <2>2, <3>1, <3>2
  <2>4. /\ after \in Seq(Nat) /\ Len(after) = Len(whole) - i
        /\ \A j \in 1 .. Len(whole) - i : after[j] = whole[i + j]
    <3>1. i \in Nat /\ i <= Len(whole) /\ Len(whole) <= Len(whole)
      BY <1>2, <2>2
    <3> QED BY <1>2, <3>1, StretchUnits
  <2> HIDE DEF before, after
  <2>8. /\ units \in Seq(Nat) /\ Len(units) = Len(whole) - 1
        /\ \A j \in 1 .. i - 1 : units[j] = whole[j]
        /\ \A j \in 1 .. Len(whole) - i : units[(i - 1) + j] = whole[i + j]
    <3>1. (i - 1) + (Len(whole) - i) = Len(whole) - 1
      BY <1>2, <2>2
    <3>2. /\ units \in Seq(Nat) /\ Len(units) = (i - 1) + (Len(whole) - i)
          /\ \A j \in 1 .. i - 1 : units[j] = before[j]
          /\ \A j \in 1 .. Len(whole) - i : units[(i - 1) + j] = after[j]
      <4>1. /\ units \in Seq(Nat) /\ Len(units) = Len(before) + Len(after)
            /\ \A j \in 1 .. Len(before) : units[j] = before[j]
            /\ \A j \in 1 .. Len(after) : units[Len(before) + j] = after[j]
        BY <2>3, <2>4, ConcatUnits
      <4> QED BY <2>3, <2>4, <4>1, Zenon
    <3> HIDE DEF units
    <3> QED BY <2>3, <2>4, <3>1, <3>2
  <2> HIDE DEF units
  <2>5. \A j \in 1 .. Len(units) : units[j] > 100 => j = Len(units) /\ units[j] = Check(n)
    <3> TAKE j \in 1 .. Len(units)
    <3> HAVE units[j] > 100
    <3>1. CASE j <= i - 1
      <4>1. j \in 1 .. Len(whole) /\ units[j] = whole[j]
        BY <1>2, <2>2, <2>8, <3>1
      <4>2. j = Len(whole)
        BY <1>3, <4>1
      <4> QED BY <1>2, <2>2, <3>1, <4>2
    <3>2. CASE j > i - 1
      <4>1. PICK k \in 1 .. Len(whole) - i : j = (i - 1) + k
        <5> DEFINE l == Len(whole)
        <5>1. j \in Nat /\ j <= l - 1 /\ l \in Nat /\ i \in 1 .. l /\ i \in Nat
          BY <1>2, <2>2, <2>8
        <5> HIDE DEF l
        <5>2. j - (i - 1) \in 1 .. l - i /\ j = (i - 1) + (j - (i - 1))
          BY <3>2, <5>1
        <5> QED BY <5>2 DEF l
      <4>2. units[j] = whole[i + k]
        BY <2>8, <4>1
      <4>4. i + k = j + 1 /\ j + 1 \in 1 .. Len(whole)
        <5> DEFINE l == Len(whole)
        <5>1. l \in Nat /\ i \in Nat /\ i >= 1 /\ k \in 1 .. l - i /\ j = (i - 1) + k
          BY <1>2, <2>2, <4>1
        <5> HIDE DEF l
        <5>2. k \in Nat /\ k >= 1 /\ k <= l - i
          BY <5>1
        <5> QED BY <5>1, <5>2, SMTT(30) DEF l
      <4>3. j + 1 = Len(whole) /\ units[j] = Check(n)
        BY <1>3, <4>2, <4>4
      <4>5. j = Len(units)
        <5>1. Len(units) = Len(whole) - 1 /\ j \in Nat
          BY <2>8
        <5>2. Len(units) = (j + 1) - 1
          BY <4>3, <5>1, Zenon
        <5> QED BY <5>1, <5>2
      <4> QED BY <4>3, <4>5
    <3> QED BY <2>2, <3>1, <3>2
  <2>6. Transmit(frame, units)
    BY <2>1 DEF units, before, after
  <2>7. Sends(frame, units)
    BY <1>2, <2>1, <2>8 DEF Sends, n, whole
  <2> QED BY <2>5, <2>6, <2>7, <2>8 DEF n
<1> QED
  BY <1>5, <1>6, <1>7

-----------------------------------------------------------------------------
(* The stream                                                              *)
(*                                                                         *)
(* `flow` is every unit the ring has been given, first to last.  No        *)
(* variable holds it: the invariant says that there is one that explains   *)
(* what the ring, the batch and the parser hold.                           *)

\* where the thread has got to in the stream, and where a frame's part of it ends
Parsed == stored - Len(ring) - Len(batch)
EndOf(k) == IF k < Len(sent) THEN starts[k + 1] ELSE stored
Whole(k) == Line(k, sent[k])

SourceInv(flow) ==
  /\ flow \in Seq(Nat) /\ stored = Len(flow)
  /\ starts \in Seq(Nat) /\ Len(starts) = Len(sent)
  /\ sent = <<>> => line = <<>> /\ stored = 0
  /\ \A k \in Numbers : starts[k] <= stored /\ (k = 1 => starts[k] = 0)
  /\ \A j, k \in Numbers : j <= k => starts[j] <= starts[k]
  /\ hurt \subseteq Numbers /\ faults \in Nat

\* a check is the last unit of its frame
ChecksInv(flow) ==
  /\ \A q \in 1 .. Len(flow) : flow[q] > 100 =>
       /\ flow[q] - 100 \in Numbers
       /\ q = EndOf(flow[q] - 100) /\ starts[flow[q] - 100] < q
       /\ flow[q] = Check(Len(sent)) => line = <<>>
  /\ \A i \in 1 .. Len(line) : line[i] > 100 => i = Len(line) /\ line[i] = Check(Len(sent))

\* a frame that no fault has hit is in the stream as it was sent
ContentInv(flow) ==
  /\ \A k \in Numbers \ hurt :
       /\ k < Len(sent) => EndOf(k) - starts[k] = Len(Whole(k))
       /\ \A i \in 1 .. EndOf(k) - starts[k] : flow[starts[k] + i] = Whole(k)[i]
  /\ Len(sent) \in Numbers \ hurt =>
       /\ stored - starts[Len(sent)] + Len(line) = Len(Whole(Len(sent)))
       /\ \A i \in 1 .. Len(line) : line[i] = Whole(Len(sent))[stored - starts[Len(sent)] + i]

\* one that the only fault has hit is shorter or differs
Got(k) == EndOf(k) - starts[k]
Left(k) == IF k = Len(sent) THEN Len(line) ELSE 0
HurtInv(flow) ==
  /\ faults = 0 => hurt = {}
  /\ \A j, k \in hurt : j = k
  /\ \A k \in hurt :
       \/ Got(k) + Left(k) < Len(Whole(k))
       \/ /\ Got(k) + Left(k) = Len(Whole(k))
          /\ \E i \in 1 .. Len(Whole(k)) :
               (IF i <= Got(k) THEN flow[starts[k] + i] ELSE line[i - Got(k)]) # Whole(k)[i]

StreamInv(flow) ==
  /\ SourceInv(flow) /\ ChecksInv(flow) /\ ContentInv(flow)
  /\ MaxFaults <= 1 => HurtInv(flow)

\* The units of a frame that was sent.
LEMMA WholeUnits ==
  ASSUME IInv, NEW k \in Numbers
  PROVE  /\ k \in Nat /\ Len(sent[k].payload) \in Nat
         /\ Whole(k) \in Seq(Nat) /\ Len(Whole(k)) = Len(sent[k].payload) + 5
         /\ Whole(k)[1] = Sync1 /\ Whole(k)[2] = Sync2
         /\ Whole(k)[3] = sent[k].kind /\ Whole(k)[4] = Len(sent[k].payload)
         /\ \A i \in 1 .. Len(sent[k].payload) : Whole(k)[4 + i] = sent[k].payload[i]
         /\ Whole(k)[Len(sent[k].payload) + 5] = Check(k)
         /\ \A i \in 1 .. 4 + Len(sent[k].payload) : Whole(k)[i] <= 100
<1>1. k \in Nat /\ sent[k] \in Frames
  BY ElementOfSeq, LenProperties DEF IInv, KindsInv, Numbers
<1> QED
  BY <1>1, LineUnits, LineFacts, ZenonT(40) DEF Whole

\* What a transmission adds, and that it moves nothing.
LEMMA TransmitFacts ==
  ASSUME IInv, NEW flow, SourceInv(flow), NEW frame \in Frames, NEW units, Transmit(frame, units),
         NEW n, n = Len(sent) + 1
  PROVE  /\ Len(sent) \in Nat /\ Len(sent)' = n /\ Numbers' = Numbers \cup {n} /\ n \notin Numbers
         /\ \A k \in Numbers : /\ sent'[k] = sent[k] /\ starts'[k] = starts[k] /\ k < n
                               /\ EndOf(k)' = EndOf(k) /\ Whole(k)' = Whole(k)
         /\ sent'[n] = frame /\ starts'[n] = stored
         /\ EndOf(n)' = stored /\ Whole(n)' = Line(n, frame)
         /\ starts' \in Seq(Nat) /\ Len(starts') = n
         /\ line = <<>> /\ line' = units /\ UNCHANGED <<ring, batch, parser, outcome, stored>>
<1>1. Len(sent) \in Nat /\ sent \in Seq(Frames) /\ starts \in Seq(Nat) /\ Len(starts) = Len(sent)
      /\ stored \in Nat
  BY LenProperties DEF IInv, KindsInv, SourceInv
<1>2. sent' = Append(sent, frame) /\ starts' = Append(starts, stored)
      /\ line = <<>> /\ line' = units /\ UNCHANGED <<ring, batch, parser, outcome, stored>>
  BY DEF Transmit
<1>3. /\ Len(sent') = n /\ starts' \in Seq(Nat) /\ Len(starts') = n
      /\ \A k \in 1 .. Len(sent) : sent'[k] = sent[k] /\ starts'[k] = starts[k]
      /\ sent'[n] = frame /\ starts'[n] = stored
  <2>1. /\ Len(sent') = n /\ \A k \in 1 .. Len(sent) : sent'[k] = sent[k]
        /\ sent'[n] = frame
    BY <1>1, <1>2, AppendProperties
  <2>2. /\ starts' \in Seq(Nat) /\ Len(starts') = n
        /\ \A k \in 1 .. Len(sent) : starts'[k] = starts[k]
        /\ starts'[n] = stored
    BY <1>1, <1>2, AppendProperties
  <2> QED BY <2>1, <2>2
<1>4. Numbers = 1 .. Len(sent) /\ Numbers' = 1 .. n
  BY <1>3 DEF Numbers
<1>5. ASSUME NEW k \in Numbers
      PROVE  k < n /\ EndOf(k)' = EndOf(k) /\ Whole(k)' = Whole(k)
  <2>1. k \in 1 .. Len(sent) /\ k < n
    BY <1>1, <1>4
  <2>2. EndOf(k)' = starts'[k + 1]
    BY <1>3, <2>1 DEF EndOf
  <2>3. CASE k < Len(sent)
    <3>1. k + 1 \in 1 .. Len(sent)
      BY <1>1, <2>1, <2>3
    <3>2. EndOf(k) = starts[k + 1]
      BY <2>3 DEF EndOf
    <3>3. starts'[k + 1] = starts[k + 1]
      BY <1>3, <3>1
    <3> QED BY <1>3, <2>1, <2>2, <3>2, <3>3 DEF Whole
  <2>4. CASE k = Len(sent)
    <3>1. EndOf(k) = stored /\ starts'[k + 1] = stored
      BY <1>1, <1>3, <2>4 DEF EndOf
    <3> QED BY <1>3, <2>1, <2>2, <3>1 DEF Whole
  <2> QED BY <1>1, <2>1, <2>3, <2>4
<1>6. EndOf(n)' = stored /\ Whole(n)' = Line(n, frame)
  BY <1>1, <1>2, <1>3 DEF EndOf, Whole
<1>7. Numbers' = Numbers \cup {n} /\ n \notin Numbers
  BY <1>1, <1>4
<1> QED
  BY <1>1, <1>2, <1>3, <1>4, <1>5, <1>6, <1>7

LEMMA StreamSend ==
  ASSUME IInv, NEW flow, StreamInv(flow), NEW frame \in Frames, NEW units \in Seq(Nat),
         Transmit(frame, units), Sends(frame, units),
         \A i \in 1 .. Len(units) : units[i] > 100 => i = Len(units) /\ units[i] = Check(Len(sent) + 1),
         NEW n, n = Len(sent) + 1
  PROVE  StreamInv(flow)'
<1> DEFINE whole == Line(n, frame)
<1> USE DEF StreamInv
<1>1. /\ Len(sent) \in Nat /\ Len(sent)' = n /\ Numbers' = Numbers \cup {n} /\ n \notin Numbers
      /\ \A k \in Numbers : /\ sent'[k] = sent[k] /\ starts'[k] = starts[k] /\ k < n
                            /\ EndOf(k)' = EndOf(k) /\ Whole(k)' = Whole(k)
      /\ sent'[n] = frame /\ starts'[n] = stored /\ EndOf(n)' = stored /\ Whole(n)' = whole
      /\ starts' \in Seq(Nat) /\ Len(starts') = n
      /\ line = <<>> /\ line' = units /\ stored' = stored
  BY TransmitFacts
<1>2. Len(line) = 0
  BY <1>1, EmptySeq
<1>3. Len(units) \in Nat /\ whole \in Seq(Nat) /\ Len(whole) \in Nat /\ stored \in Nat
  BY <1>1, LineFacts, LenProperties DEF SourceInv
<1>4. Len(sent) # 0 => Len(sent) \in Numbers
  BY <1>1 DEF Numbers
<1>5. \/ units = whole /\ UNCHANGED <<hurt, faults>>
      \/ /\ faults < MaxFaults /\ faults' = faults + 1 /\ hurt' = hurt \cup {n}
         /\ \/ Len(units) < Len(whole)
            \/ Len(units) = Len(whole) /\ \E i \in 1 .. Len(units) : units[i] # whole[i]
  BY DEF Sends, Hurt
<1> HIDE DEF whole
<1>6. n = Len(sent) + 1
  OBVIOUS
<1>7. SourceInv(flow)'
  <2>1. \A k \in Numbers' : starts'[k] <= stored' /\ (k = 1 => starts'[k] = 0)
    <3> TAKE k \in Numbers'
    <3>1. CASE k \in Numbers
      BY <1>1, <3>1 DEF SourceInv
    <3>2. CASE k = n
      <4>1. k = 1 => stored = 0
        <5> SUFFICES ASSUME k = 1 PROVE stored = 0
          OBVIOUS
        <5>1. sent = <<>>
          BY <1>1, <1>6, <3>2, EmptySeq, LenProperties DEF IInv, KindsInv
        <5> QED BY <5>1 DEF SourceInv
      <4> QED BY <1>1, <1>3, <3>2, <4>1
    <3> QED BY <1>1, <3>1, <3>2
  <2>2. \A j, k \in Numbers' : j <= k => starts'[j] <= starts'[k]
    <3> TAKE j, k \in Numbers'
    <3> HAVE j <= k
    <3>1. CASE k \in Numbers
      <4>1. j \in Numbers
        BY <1>1, <1>6, <3>1 DEF Numbers
      <4> QED BY <1>1, <3>1, <4>1 DEF SourceInv
    <3>2. CASE k = n
      <4>1. CASE j \in Numbers
        BY <1>1, <3>2, <4>1 DEF SourceInv
      <4>2. CASE j = n
        BY <1>1, <1>3, <3>2, <4>2
      <4> QED BY <1>1, <4>1, <4>2
    <3> QED BY <1>1, <3>1, <3>2
  <2>3. hurt' \subseteq Numbers' /\ faults' \in Nat
    BY <1>1, <1>5 DEF SourceInv
  <2>4. sent' # <<>>
    BY <1>1, <1>6, EmptySeq
  <2> QED BY <1>1, <2>1, <2>2, <2>3, <2>4 DEF SourceInv
<1>8. ChecksInv(flow)'
  <2>1. ASSUME NEW q \in 1 .. Len(flow), flow[q] > 100
        PROVE  /\ flow[q] - 100 \in Numbers'
               /\ q = EndOf(flow[q] - 100)' /\ starts'[flow[q] - 100] < q
               /\ flow[q] # Check(n)
    <3>1. /\ flow[q] - 100 \in Numbers
          /\ q = EndOf(flow[q] - 100) /\ starts[flow[q] - 100] < q
      BY <2>1 DEF ChecksInv
    <3>2. flow[q] \in Nat
      BY ElementOfSeq DEF SourceInv
    <3>3. flow[q] # Check(n)
      BY <1>1, <1>6, <3>1, <3>2 DEF Check, Numbers
    <3>4. \A k : k = flow[q] - 100 => EndOf(k)' = EndOf(k) /\ starts'[k] = starts[k]
      BY <1>1, <3>1
    <3> DEFINE m == flow[q] - 100
    <3>5. EndOf(m)' = EndOf(m) /\ starts'[m] = starts[m]
      BY <1>1, <3>1
    <3> QED BY <1>1, <3>1, <3>3, <3>5
  <2>2. \A i \in 1 .. Len(line') : line'[i] > 100 => i = Len(line') /\ line'[i] = Check(Len(sent'))
    BY <1>1, <1>6
  <2> QED BY <1>1, <2>1, <2>2 DEF ChecksInv
<1>9. ContentInv(flow)'
  <2>1. ASSUME NEW k \in Numbers' \ hurt'
        PROVE  /\ k < Len(sent') => EndOf(k)' - starts'[k] = Len(Whole(k)')
               /\ \A i \in 1 .. EndOf(k)' - starts'[k] : flow[starts'[k] + i] = Whole(k)'[i]
    <3>1. CASE k \in Numbers
      <4>1. k \in Numbers \ hurt
        BY <1>5, <2>1, <3>1
      <4>2. EndOf(k) - starts[k] = Len(Whole(k))
        <5>1. CASE k < Len(sent)
          BY <4>1, <5>1 DEF ContentInv
        <5>2. CASE ~(k < Len(sent))
          <6>1. k = Len(sent)
            BY <1>1, <3>1, <5>2 DEF Numbers
          <6>2. stored - starts[k] + Len(line) = Len(Whole(k)) /\ EndOf(k) = stored
            BY <4>1, <5>2, <6>1 DEF ContentInv, EndOf
          <6>3. starts[k] \in Nat
            BY <3>1, ElementOfSeq DEF SourceInv, Numbers
          <6> QED BY <1>2, <1>3, <6>2, <6>3
        <5> QED BY <5>1, <5>2
      <4>3. \A i \in 1 .. EndOf(k) - starts[k] : flow[starts[k] + i] = Whole(k)[i]
        BY <4>1 DEF ContentInv
      <4> QED BY <1>1, <3>1, <4>2, <4>3
    <3>2. CASE k = n
      <4>1. EndOf(k)' - starts'[k] = 0 /\ ~(k < Len(sent'))
        BY <1>1, <1>3, <1>6, <3>2
      <4>2. 1 .. EndOf(k)' - starts'[k] = {}
        BY <4>1
      <4> QED BY <4>1, <4>2
    <3> QED BY <1>1, <2>1, <3>1, <3>2
  <2>2. ASSUME n \in Numbers' \ hurt'
        PROVE  /\ stored' - starts'[n] + Len(line') = Len(Whole(n)')
               /\ \A i \in 1 .. Len(line') : line'[i] = Whole(n)'[stored' - starts'[n] + i]
    <3>1. units = whole
      BY <1>5, <2>2
    <3>2. stored' - starts'[n] = 0 /\ \A i \in 1 .. Len(whole) : 0 + i = i
      BY <1>1, <1>3
    <3> QED BY <1>1, <1>3, <3>1, <3>2
  <2> QED BY <1>1, <2>1, <2>2 DEF ContentInv
<1>10. ASSUME MaxFaults <= 1 PROVE HurtInv(flow)'
  <2>1. HurtInv(flow)
    BY <1>10
  <2>2. ASSUME NEW k \in hurt
        PROVE  /\ Got(k)' = Got(k) /\ Left(k)' = 0 /\ Left(k) = 0 /\ starts'[k] = starts[k]
               /\ Whole(k)' = Whole(k) /\ Got(k) \in Int /\ Len(Whole(k)) \in Nat
    <3>1. k \in Numbers
      BY DEF SourceInv
    <3>2. Got(k)' = Got(k) /\ Left(k)' = 0 /\ Left(k) = 0
      BY <1>1, <1>2, <3>1 DEF Got, Left
    <3>3. starts[k] \in Nat /\ EndOf(k) \in Nat
      <4>1. \A j \in Numbers : starts[j] \in Nat
        BY ElementOfSeq DEF SourceInv, Numbers
      <4>2. k < Len(sent) => k + 1 \in Numbers
        BY <1>1, <3>1 DEF Numbers
      <4> QED BY <1>3, <3>1, <4>1, <4>2 DEF EndOf
    <3> QED BY <1>1, <3>1, <3>2, <3>3, WholeUnits, SMTT(30) DEF Got
  <2>3. CASE units = whole /\ UNCHANGED <<hurt, faults>>
    <3>1. ASSUME NEW k \in hurt'
          PROVE  \/ Got(k)' + Left(k)' < Len(Whole(k)')
                 \/ /\ Got(k)' + Left(k)' = Len(Whole(k)')
                    /\ \E i \in 1 .. Len(Whole(k)') :
                         (IF i <= Got(k)' THEN flow[starts'[k] + i] ELSE line'[i - Got(k)'])
                           # Whole(k)'[i]
      <4>1. k \in hurt
        BY <2>3, <3>1
      <4>2. CASE Got(k) + Left(k) < Len(Whole(k))
        BY <2>2, <4>1, <4>2
      <4>3. CASE ~(Got(k) + Left(k) < Len(Whole(k)))
        <5>1. PICK i \in 1 .. Len(Whole(k)) :
                (IF i <= Got(k) THEN flow[starts[k] + i] ELSE line[i - Got(k)]) # Whole(k)[i]
          BY <2>1, <4>1, <4>3 DEF HurtInv
        <5>2. Got(k) = Len(Whole(k))
          BY <2>1, <2>2, <4>1, <4>3 DEF HurtInv
        <5>3. i <= Got(k)
          BY <2>2, <4>1, <5>2
        <5>4. flow[starts'[k] + i] # Whole(k)'[i] /\ i <= Got(k)' /\ i \in 1 .. Len(Whole(k)')
          BY <2>2, <4>1, <5>1, <5>3
        <5>5. Got(k)' + Left(k)' = Len(Whole(k)')
          BY <2>2, <4>1, <5>2
        <5> QED BY <5>4, <5>5
      <4> QED BY <4>2, <4>3
    <3>2. (faults' = 0 => hurt' = {}) /\ \A j, k \in hurt' : j = k
      BY <2>1, <2>3 DEF HurtInv
    <3> QED BY <3>1, <3>2 DEF HurtInv
  <2>4. CASE ~(units = whole /\ UNCHANGED <<hurt, faults>>)
    <3>1. /\ faults < MaxFaults /\ faults' = faults + 1 /\ hurt' = hurt \cup {n}
          /\ \/ Len(units) < Len(whole)
             \/ Len(units) = Len(whole) /\ \E i \in 1 .. Len(units) : units[i] # whole[i]
      BY <1>5, <2>4
    <3>2. faults = 0
      BY <1>10, <3>1, MaxFaultsAssumption DEF MaxFaultsAssumption, SourceInv
    <3>3. hurt' = {n} /\ faults' # 0
      BY <2>1, <3>1, <3>2 DEF HurtInv
    <3>4. Got(n)' = 0 /\ Left(n)' = Len(units)
      BY <1>1, <1>3 DEF Got, Left
    <3>5. \/ Got(n)' + Left(n)' < Len(Whole(n)')
          \/ /\ Got(n)' + Left(n)' = Len(Whole(n)')
             /\ \E i \in 1 .. Len(Whole(n)') :
                  (IF i <= Got(n)' THEN flow[starts'[n] + i] ELSE line'[i - Got(n)']) # Whole(n)'[i]
      <4>1. CASE Len(units) < Len(whole)
        BY <1>1, <1>3, <3>4, <4>1
      <4>2. CASE ~(Len(units) < Len(whole))
        <5>1. Len(units) = Len(whole)
          BY <3>1, <4>2
        <5>2. PICK i \in 1 .. Len(units) : units[i] # whole[i]
          BY <3>1, <4>2
        <5>3. ~(i <= Got(n)') /\ i - Got(n)' = i /\ i \in 1 .. Len(Whole(n)')
          BY <1>1, <1>3, <3>4, <5>1
        <5>4. Got(n)' + Left(n)' = Len(Whole(n)')
          BY <1>1, <1>3, <3>4, <5>1
        <5>5. line'[i - Got(n)'] # Whole(n)'[i]
          BY <1>1, <5>2, <5>3
        <5> QED BY <5>3, <5>4, <5>5
      <4> QED BY <4>1, <4>2
    <3> QED BY <3>3, <3>5 DEF HurtInv
  <2> QED BY <2>3, <2>4
<1> QED
  BY <1>7, <1>8, <1>9, <1>10

\* What the interrupt takes off the line, and what of it the ring gets.
Takes(flow, read, fits, more) ==
  /\ 1 <= read /\ read <= Len(line) /\ fits <= read /\ Len(line) \in Nat
  /\ Len(sent) \in Numbers
  /\ Len(line') = Len(line) - read /\ \A i \in 1 .. Len(line) - read : line'[i] = line[read + i]
  /\ Len(more) = stored + fits /\ stored' = stored + fits /\ stored \in Nat
  /\ \A q \in 1 .. stored : more[q] = flow[q]
  /\ \A i \in 1 .. fits : more[stored + i] = line[i]
  /\ ring' \in Seq(Nat) /\ Len(ring') = Len(ring) + fits
  /\ \A i \in 1 .. Len(ring) : ring'[i] = ring[i]
  /\ \A i \in 1 .. fits : ring'[Len(ring) + i] = line[i]
  /\ IF fits < read THEN Hurt(Len(sent)) ELSE UNCHANGED <<hurt, faults>>
  /\ UNCHANGED <<sent, batch, parser, outcome, starts>>

LEMMA IsrFacts ==
  ASSUME IInv, NEW flow, StreamInv(flow), UartIsr
  PROVE  \E read, fits \in Nat, more \in Seq(Nat) : Takes(flow, read, fits, more)
<1> DEFINE read == Least(FifoRead, Len(line))
           fits == Least(read, RingSize - Len(ring))
           part == SubSeq(line, 1, fits)
           more == flow \o part
<1>1. /\ Len(line) \in Nat /\ Len(ring) \in Nat /\ FifoRead \in Nat \ {0} /\ RingSize - Len(ring) \in Nat
      /\ line \in Seq(Nat) /\ ring \in Seq(Nat) /\ flow \in Seq(Nat) /\ stored = Len(flow) /\ stored \in Nat
  BY LenProperties, SizesAssumption, SMTT(30) DEF IInv, KindsInv, TypeOK, SizesAssumption, StreamInv, SourceInv
<1>2. line # <<>> /\ Len(line) >= 1
  BY <1>1, EmptySeq DEF UartIsr
<1>3. read \in Nat /\ read <= Len(line) /\ 1 <= read
  BY <1>1, <1>2 DEF Least
<1>4. fits \in Nat /\ fits <= read /\ fits <= RingSize - Len(ring)
  BY <1>1, <1>3 DEF Least
<1>5. /\ line' = SubSeq(line, read + 1, Len(line)) /\ ring' = ring \o part /\ stored' = stored + fits
      /\ IF fits < read THEN Hurt(Len(sent)) ELSE UNCHANGED <<hurt, faults>>
      /\ UNCHANGED <<sent, batch, parser, outcome, starts>>
  BY DEF UartIsr
<1> HIDE DEF read, fits
<1>6. part \in Seq(Nat) /\ Len(part) = fits /\ \A i \in 1 .. fits : part[i] = line[i]
  <2>1. /\ SubSeq(line, 0 + 1, fits) \in Seq(Nat) /\ Len(SubSeq(line, 0 + 1, fits)) = fits - 0
        /\ \A i \in 1 .. fits - 0 : SubSeq(line, 0 + 1, fits)[i] = line[0 + i]
    BY <1>1, <1>3, <1>4, StretchUnits, SMTT(30)
  <2>2. part = SubSeq(line, 0 + 1, fits)
    OBVIOUS
  <2> HIDE DEF part
  <2> QED BY <1>4, <2>1, <2>2
<1> HIDE DEF part
<1>7. Len(line') = Len(line) - read /\ \A i \in 1 .. Len(line) - read : line'[i] = line[read + i]
  BY <1>1, <1>3, <1>5, StretchUnits
<1>8. /\ more \in Seq(Nat) /\ Len(more) = stored + fits
      /\ \A q \in 1 .. stored : more[q] = flow[q]
      /\ \A i \in 1 .. fits : more[stored + i] = line[i]
  <2>1. /\ more \in Seq(Nat) /\ Len(more) = Len(flow) + Len(part)
        /\ \A i \in 1 .. Len(flow) : more[i] = flow[i]
        /\ \A i \in 1 .. Len(part) : more[Len(flow) + i] = part[i]
    BY <1>1, <1>6, ConcatUnits
  <2> HIDE DEF more
  <2> QED BY <1>1, <1>6, <2>1
<1>9. /\ ring' \in Seq(Nat) /\ Len(ring') = Len(ring) + fits
      /\ \A i \in 1 .. Len(ring) : ring'[i] = ring[i]
      /\ \A i \in 1 .. fits : ring'[Len(ring) + i] = line[i]
  <2>1. /\ ring \o part \in Seq(Nat) /\ Len(ring \o part) = Len(ring) + Len(part)
        /\ \A i \in 1 .. Len(ring) : (ring \o part)[i] = ring[i]
        /\ \A i \in 1 .. Len(part) : (ring \o part)[Len(ring) + i] = part[i]
    BY <1>1, <1>6, ConcatUnits
  <2> QED BY <1>5, <1>6, <2>1
<1>10. Len(sent) \in Numbers
  <2>1. sent # <<>>
    BY <1>2 DEF StreamInv, SourceInv
  <2>2. Len(sent) \in Nat /\ Len(sent) # 0
    BY <2>1, EmptySeq, LenProperties DEF IInv, KindsInv
  <2> QED BY <2>2 DEF Numbers
<1> HIDE DEF more
<1>11. Takes(flow, read, fits, more)
  BY <1>1, <1>3, <1>4, <1>5, <1>7, <1>8, <1>9, <1>10 DEF Takes
<1> QED
  BY <1>3, <1>4, <1>8, <1>11

LEMMA StreamIsr ==
  ASSUME IInv, NEW flow, StreamInv(flow), UartIsr,
         NEW read \in Nat, NEW fits \in Nat, NEW more \in Seq(Nat),
         Takes(flow, read, fits, more)
  PROVE  StreamInv(more)'
<1> USE DEF StreamInv
<1>1. PICK n \in Numbers : n = Len(sent)
  BY DEF Takes
<1>2. /\ n \in Nat /\ Numbers = 1 .. n /\ Numbers' = Numbers /\ Len(sent') = n
      /\ sent' = sent /\ starts' = starts /\ line # <<>>
      /\ hurt \subseteq Numbers /\ hurt \subseteq hurt' /\ hurt' \subseteq hurt \cup {n}
  <2>1. n \in Nat /\ Numbers = 1 .. n
    BY <1>1, LenProperties DEF IInv, KindsInv, Numbers
  <2>2. sent' = sent /\ starts' = starts /\ Numbers' = Numbers /\ line # <<>>
    BY DEF Takes, Numbers, UartIsr
  <2>3. hurt \subseteq Numbers /\ hurt \subseteq hurt' /\ hurt' \subseteq hurt \cup {n}
    <3>1. hurt' = hurt \/ hurt' = hurt \cup {n}
      BY <1>1 DEF Takes, Hurt
    <3> QED BY <3>1 DEF SourceInv
  <2> QED BY <1>1, <2>1, <2>2, <2>3
\* the numbers alone
<1>a. /\ 1 <= read /\ read <= Len(line) /\ fits <= read /\ Len(line) \in Nat
      /\ Len(line') = Len(line) - read
  BY DEF Takes
<1>g. stored = Len(flow) /\ Len(more) = stored + fits
  BY DEF Takes, SourceInv
<1>h. stored \in Nat /\ stored' = stored + fits /\ n \in Nat
  BY <1>2 DEF Takes
<1>b. \A k \in Numbers : starts[k] \in Nat /\ starts[k] <= stored
  BY ElementOfSeq DEF SourceInv, Numbers
<1>d. starts[n] \in Nat /\ starts[n] <= stored
  BY <1>b
<1>e. /\ \A i \in 1 .. Len(line) - read : line'[i] = line[read + i]
      /\ \A q \in 1 .. stored : more[q] = flow[q]
      /\ \A i \in 1 .. fits : more[stored + i] = line[i]
  BY DEF Takes
<1>f. n \notin hurt' => fits = read
  BY <1>1, <1>a, <1>h DEF Takes, Hurt
<1>3. /\ \A k \in Numbers : k # n => /\ EndOf(k)' = EndOf(k) /\ EndOf(k) \in Nat /\ EndOf(k) <= stored
      /\ EndOf(n)' = stored + fits /\ EndOf(n) = stored
      /\ \A k \in Numbers : Whole(k)' = Whole(k)
  <2>1. ASSUME NEW k \in Numbers, k # n
        PROVE  /\ EndOf(k)' = EndOf(k) /\ EndOf(k) \in Nat /\ EndOf(k) <= stored
    <3>1. k + 1 \in Numbers /\ k < n
      BY <1>2, <2>1
    <3>2. EndOf(k) = starts[k + 1] /\ EndOf(k)' = starts[k + 1]
      BY <1>1, <1>2, <3>1 DEF EndOf
    <3> QED BY <1>b, <3>1, <3>2
  <2>2. EndOf(n)' = stored + fits /\ EndOf(n) = stored
    BY <1>1, <1>2, <1>a, <1>h DEF EndOf
  <2> QED BY <1>2, <2>1, <2>2 DEF Whole
<1>5. SourceInv(more)'
  <2>1. faults' \in Nat /\ hurt' \subseteq Numbers
    <3>1. faults' = faults \/ faults' = faults + 1
      BY DEF Hurt, Takes
    <3>2. faults \in Nat
      BY DEF SourceInv
    <3> QED BY <1>2, <3>1, <3>2
  <2>2. \A k \in Numbers : starts[k] <= stored' /\ (k = 1 => starts[k] = 0)
    <3> TAKE k \in Numbers
    <3>1. starts[k] \in Nat /\ starts[k] <= stored
      BY <1>b
    <3>2. starts[k] <= stored'
      BY <1>a, <1>h, <3>1
    <3> QED BY <3>2 DEF SourceInv
  <2>3. sent # <<>>
    BY <1>2 DEF SourceInv
  <2> QED BY <1>2, <1>g, <1>h, <2>1, <2>2, <2>3 DEF SourceInv
<1>6. ChecksInv(more)'
  <2>1. ASSUME NEW q \in 1 .. Len(more), more[q] > 100
        PROVE  /\ more[q] - 100 \in Numbers /\ q = EndOf(more[q] - 100)' /\ starts[more[q] - 100] < q
               /\ (more[q] = Check(n) => line' = <<>>)
    <3>1. CASE q <= stored
      <4>1. q \in 1 .. Len(flow) /\ more[q] = flow[q]
        <5>1. q \in 1 .. stored
          BY <1>g, <1>h, <3>1
        <5> QED BY <1>e, <1>g, <5>1
      <4> DEFINE m == flow[q] - 100
      <4>2. m \in Numbers /\ q = EndOf(m) /\ starts[m] < q /\ (flow[q] = Check(n) => line = <<>>)
        BY <1>1, <2>1, <4>1 DEF ChecksInv
      <4>3. flow[q] \in Nat
        BY <4>1, ElementOfSeq DEF SourceInv
      <4>7. flow[q] # Check(n)
        BY <1>2, <4>2
      <4>4. m # n
        BY <1>h, <4>3, <4>7 DEF Check
      <4>5. EndOf(m)' = q
        BY <1>3, <4>2, <4>4
      <4> QED BY <4>1, <4>2, <4>5, <4>7
    <3>2. CASE q > stored
      <4>1. PICK i \in 1 .. fits : q = stored + i
        <5>1. q - stored \in 1 .. fits /\ q = stored + (q - stored)
          BY <1>g, <1>h, <3>2
        <5> QED BY <5>1
      <4>2. more[q] = line[i] /\ i \in 1 .. Len(line)
        BY <1>a, <1>h, <1>e, <4>1
      <4>3. i = Len(line) /\ more[q] = Check(n)
        BY <1>1, <2>1, <4>2 DEF ChecksInv
      <4>8. i = Len(line)
        BY <4>3
      <4>4. fits = read /\ read = Len(line) /\ i = fits
        BY <1>a, <1>h, <4>8
      <4>5. more[q] - 100 = n
        BY <1>a, <1>h, <4>3 DEF Check
      <4>6. line' = <<>>
        <5>1. line' \in Seq(Nat) /\ Len(line') = 0
          BY <1>a, <1>h, <4>4, UartIsrInv DEF IInv, KindsInv
        <5> QED BY <5>1, EmptySeq
      <4>7. starts[n] < q
        BY <1>d, <1>a, <1>h, <4>1
      <4>9. q = EndOf(n)'
        BY <1>3, <4>1, <4>4
      <4> QED BY <4>5, <4>6, <4>7, <4>9
    <3> QED BY <1>g, <1>h, <3>1, <3>2
  <2>2. ASSUME NEW i \in 1 .. Len(line'), line'[i] > 100
        PROVE  i = Len(line') /\ line'[i] = Check(n)
    <3>1. i \in 1 .. Len(line) - read /\ line'[i] = line[read + i] /\ read + i \in 1 .. Len(line)
      <4>1. i \in 1 .. Len(line) - read
        BY <1>a, <1>h
      <4>2. read + i \in 1 .. Len(line)
        BY <1>a, <1>h, <4>1
      <4> QED BY <1>e, <4>1, <4>2
    <3>2. read + i = Len(line) /\ line[read + i] = Check(n)
      BY <1>1, <2>2, <3>1 DEF ChecksInv
    <3>3. i = Len(line) - read
      BY <1>a, <1>h, <3>2
    <3> QED BY <1>a, <1>h, <3>1, <3>2, <3>3
  <2> QED BY <1>2, <2>1, <2>2 DEF ChecksInv
<1>7. ContentInv(more)'
  <2>1. ASSUME NEW k \in Numbers \ hurt'
        PROVE  /\ k < n => EndOf(k)' - starts[k] = Len(Whole(k))
               /\ \A i \in 1 .. EndOf(k)' - starts[k] : more[starts[k] + i] = Whole(k)[i]
    <3>1. k \in Numbers \ hurt
      BY <1>2
    <3>2. \A i \in 1 .. EndOf(k) - starts[k] : more[starts[k] + i] = Whole(k)[i]
      <4> TAKE i \in 1 .. EndOf(k) - starts[k]
      <4>1. flow[starts[k] + i] = Whole(k)[i]
        BY <3>1 DEF ContentInv
      <4>2. EndOf(k) \in Nat /\ EndOf(k) <= stored
        BY <1>3, <1>a, <1>h
      <4>4. starts[k] \in Nat
        BY <1>b
      <4>3. starts[k] + i \in 1 .. stored
        BY <1>h, <4>2, <4>4, SMTT(30)
      <4> QED BY <1>e, <4>1, <4>3
    <3>3. CASE k # n
      <4>1. k < n => EndOf(k) - starts[k] = Len(Whole(k))
        BY <1>1, <3>1 DEF ContentInv
      <4> QED BY <1>3, <3>2, <3>3, <4>1
    <3>4. CASE k = n
      <4>1. /\ stored - starts[n] + Len(line) = Len(Whole(n))
            /\ \A i \in 1 .. Len(line) : line[i] = Whole(n)[stored - starts[n] + i]
        BY <1>1, <3>1, <3>4 DEF ContentInv
      <4>2. ASSUME NEW i \in 1 .. (stored + fits) - starts[n]
            PROVE  more[starts[n] + i] = Whole(n)[i]
        <5>1. CASE i <= stored - starts[n]
          <6>1. i \in 1 .. stored - starts[n]
            BY <1>a, <1>h, <1>d, <5>1
          <6> QED BY <1>3, <3>2, <3>4, <6>1
        <5>2. CASE i > stored - starts[n]
          <6>1. PICK j \in 1 .. fits : i = stored - starts[n] + j
            <7>1. i - (stored - starts[n]) \in 1 .. fits
                  /\ i = stored - starts[n] + (i - (stored - starts[n]))
              BY <1>h, <1>d, <5>2
            <7> QED BY <7>1
          <6>5. starts[n] + i = stored + j
            BY <1>h, <1>d, <6>1, SMTT(30)
          <6>6. j \in 1 .. Len(line)
            BY <1>a
          <6>2. starts[n] + i = stored + j /\ j \in 1 .. Len(line)
            BY <6>5, <6>6
          <6>3. line[j] = Whole(n)[i]
            BY <4>1, <6>1, <6>2
          <6>4. more[starts[n] + i] = line[j]
            BY <1>e, <6>2
          <6> QED BY <6>3, <6>4
        <5> QED BY <1>a, <1>h, <1>d, <5>1, <5>2, SMTT(30)
      <4>3. ~(k < n)
        BY <1>a, <1>h, <3>4
      <4>4. EndOf(k)' = stored + fits
        BY <1>3, <3>4
      <4>5. \A i \in 1 .. EndOf(k)' - starts[k] : more[starts[k] + i] = Whole(k)[i]
        BY <3>4, <4>2, <4>4, Zenon
      <4> QED BY <3>4, <4>3, <4>5
    <3> QED BY <3>3, <3>4
  <2>2. ASSUME n \notin hurt'
        PROVE  /\ stored' - starts[n] + Len(line') = Len(Whole(n))
               /\ \A i \in 1 .. Len(line') : line'[i] = Whole(n)[stored' - starts[n] + i]
    <3>1. /\ stored - starts[n] + Len(line) = Len(Whole(n))
          /\ \A i \in 1 .. Len(line) : line[i] = Whole(n)[stored - starts[n] + i]
      BY <1>1, <1>2, <2>2 DEF ContentInv
    <3>2. fits = read
      BY <1>f, <2>2
    <3>3. stored' - starts[n] + Len(line') = stored - starts[n] + Len(line)
      BY <1>a, <1>h, <1>d, <3>2
    <3>4. ASSUME NEW i \in 1 .. Len(line')
          PROVE  line'[i] = Whole(n)[stored' - starts[n] + i]
      <4>0. i \in 1 .. Len(line) - read
        BY <1>a, <1>h
      <4>1. line'[i] = line[read + i] /\ read + i \in 1 .. Len(line)
        BY <1>a, <1>h, <1>e, <4>0
      <4>2. stored - starts[n] + (read + i) = stored' - starts[n] + i
        BY <1>a, <1>h, <1>d, <3>2
      <4>3. line[read + i] = Whole(n)[stored - starts[n] + (read + i)]
        BY <3>1, <4>1
      <4> QED BY <4>1, <4>2, <4>3
    <3> QED BY <3>1, <3>3, <3>4
  <2>3. Whole(Len(sent))' = Whole(n) /\ starts'[Len(sent')] = starts[n]
    BY <1>1, <1>2, <1>3 DEF Whole
  <2>4. \A k \in Numbers \ hurt' :
          /\ k < Len(sent') => EndOf(k)' - starts'[k] = Len(Whole(k)')
          /\ \A i \in 1 .. EndOf(k)' - starts'[k] : more[starts'[k] + i] = Whole(k)'[i]
    BY <1>2, <1>3, <2>1
  <2>5. Len(sent') \in Numbers \ hurt' =>
          /\ stored' - starts'[Len(sent')] + Len(line') = Len(Whole(Len(sent))')
          /\ \A i \in 1 .. Len(line') : line'[i] = Whole(Len(sent))'[stored' - starts'[Len(sent')] + i]
    BY <1>2, <2>2, <2>3
  <2> QED BY <1>2, <2>4, <2>5 DEF ContentInv
<1>8. ASSUME MaxFaults <= 1 PROVE HurtInv(more)'
  <2>1. HurtInv(flow)
    BY <1>8
  <2>2. \A k \in Numbers : Got(k) \in Int /\ Len(Whole(k)) \in Nat /\ Got(k) <= stored - starts[k]
                           /\ (k # n => Got(k)' = Got(k) /\ Left(k)' = 0 /\ Left(k) = 0)
    <3> TAKE k \in Numbers
    <3>1. EndOf(k) \in Nat /\ EndOf(k) <= stored /\ starts[k] \in Nat
      BY <1>3, <1>a, <1>h, <1>b
    <3>2. Got(k) \in Int /\ Got(k) <= stored - starts[k]
      BY <1>a, <1>h, <3>1 DEF Got
    <3>3. k # n => Got(k)' = Got(k) /\ Left(k)' = 0 /\ Left(k) = 0
      BY <1>1, <1>2, <1>3 DEF Got, Left
    <3>4. Len(Whole(k)) \in Nat
      BY LenProperties, WholeUnits
    <3> QED BY <3>2, <3>3, <3>4
  <2>3. /\ Got(n) = stored - starts[n] /\ Got(n)' = (stored + fits) - starts[n]
        /\ Left(n) = Len(line) /\ Left(n)' = Len(line) - read
    <3>1. Got(n) = stored - starts[n] /\ Got(n)' = (stored + fits) - starts[n]
      <4>1. Got(n)' = EndOf(n)' - starts'[n] /\ Got(n) = EndOf(n) - starts[n]
        BY DEF Got
      <4>2. starts' = starts /\ EndOf(n)' = stored + fits /\ EndOf(n) = stored
        BY <1>2, <1>3
      <4> QED BY <4>1, <4>2, Zenon
    <3>2. Left(n) = Len(line) /\ Left(n)' = Len(line')
      BY <1>1, <1>2 DEF Left
    <3> QED BY <1>a, <1>h, <3>1, <3>2
  <2>4. CASE fits < read
    <3>1. faults < MaxFaults /\ faults' = faults + 1 /\ hurt' = hurt \cup {n}
      BY <1>1, <2>4 DEF Hurt, Takes
    <3>2. faults = 0
      BY <1>8, <3>1, MaxFaultsAssumption DEF MaxFaultsAssumption, SourceInv
    <3>3. hurt = {} /\ hurt' = {n} /\ faults' # 0
      BY <2>1, <3>1, <3>2 DEF HurtInv
    <3>4. stored - starts[n] + Len(line) = Len(Whole(n))
      BY <1>1, <3>3 DEF ContentInv
    <3>5. Got(n)' + Left(n)' < Len(Whole(n)')
      <4>1. ((stored + fits) - starts[n]) + (Len(line) - read) < stored - starts[n] + Len(line)
        BY <1>a, <1>h, <1>d, <2>4
      <4> QED BY <1>3, <2>3, <3>4, <4>1
    <3> QED BY <3>3, <3>5 DEF HurtInv
  <2>5. CASE fits = read
    <3>1. hurt' = hurt /\ faults' = faults
      BY <1>a, <1>h, <2>5 DEF Takes
    <3>2. ASSUME NEW k \in hurt
          PROVE  \/ Got(k)' + Left(k)' < Len(Whole(k)')
                 \/ /\ Got(k)' + Left(k)' = Len(Whole(k)')
                    /\ \E i \in 1 .. Len(Whole(k)') :
                         (IF i <= Got(k)' THEN more[starts'[k] + i] ELSE line'[i - Got(k)'])
                           # Whole(k)'[i]
      <4>0. k \in Numbers
        BY <1>2
      <4>9. starts[k] \in Nat
        BY <1>b, <4>0
      <4>8. Got(k) \in Int /\ Got(k) <= stored - starts[k] /\ Len(Whole(k)) \in Nat
        BY <2>2, <4>0
      <4>7. Got(k)' \in Int /\ Got(k) <= Got(k)'
        <5>1. CASE k = n
          BY <1>a, <1>h, <1>d, <2>3, <5>1
        <5>2. CASE k # n
          BY <2>2, <4>0, <4>8, <5>2
        <5> QED BY <5>1, <5>2
      <4>1. Got(k)' + Left(k)' = Got(k) + Left(k)
        <5>1. CASE k = n
          <6>1. ((stored + fits) - starts[n]) + (Len(line) - read) = stored - starts[n] + Len(line)
            BY <1>a, <1>h, <1>d, <2>5
          <6> QED BY <2>3, <5>1, <6>1
        <5>2. CASE k # n
          BY <2>2, <4>0, <5>2
        <5> QED BY <5>1, <5>2
      <4>2. CASE Got(k) + Left(k) < Len(Whole(k))
        BY <1>3, <4>0, <4>1, <4>2
      <4>3. CASE ~(Got(k) + Left(k) < Len(Whole(k)))
        <5>1. Got(k) + Left(k) = Len(Whole(k))
          BY <2>1, <4>3 DEF HurtInv
        <5>2. PICK i \in 1 .. Len(Whole(k)) :
                (IF i <= Got(k) THEN flow[starts[k] + i] ELSE line[i - Got(k)]) # Whole(k)[i]
          BY <2>1, <4>3 DEF HurtInv
        <5>3. (IF i <= Got(k)' THEN more[starts[k] + i] ELSE line'[i - Got(k)'])
              = (IF i <= Got(k) THEN flow[starts[k] + i] ELSE line[i - Got(k)])
          <6>1. CASE i <= Got(k)
            <7>1. i <= Got(k)'
              BY <4>7, <4>8, <6>1
            <7>2. starts[k] + i \in 1 .. stored
              BY <1>h, <4>8, <4>9, <6>1, SMTT(30)
            <7> QED BY <1>e, <6>1, <7>1, <7>2
          <6>2. CASE ~(i <= Got(k))
            <7>1. k = n
              BY <2>2, <4>0, <4>8, <5>1, <6>2
            <7>2. CASE i <= Got(k)'
              <8>1. i - Got(k) \in 1 .. fits /\ starts[k] + i = stored + (i - Got(k))
                <9>1. ~(i <= stored - starts[n]) /\ i <= (stored + fits) - starts[n]
                  BY <2>3, <6>2, <7>1, <7>2
                <9>2. /\ i - (stored - starts[n]) \in 1 .. fits
                      /\ starts[n] + i = stored + (i - (stored - starts[n]))
                  BY <1>h, <1>d, <4>8, <9>1, SMTT(30)
                <9> QED BY <2>3, <7>1, <9>2
              <8>2. more[starts[k] + i] = line[i - Got(k)]
                BY <1>e, <8>1
              <8> QED BY <6>2, <7>2, <8>2
            <7>3. CASE ~(i <= Got(k)')
              <8>1. i - Got(k)' \in 1 .. Len(line) - read /\ read + (i - Got(k)') = i - Got(k)
                <9>1. ~(i <= (stored + fits) - starts[n]) /\ i <= stored - starts[n] + Len(line)
                  BY <2>3, <4>8, <5>1, <7>1, <7>3
                <9>2. /\ i - ((stored + fits) - starts[n]) \in 1 .. Len(line) - read
                      /\ read + (i - ((stored + fits) - starts[n])) = i - (stored - starts[n])
                  <10> DEFINE l == Len(line)
                              s == starts[n]
                  <10>1. read <= l /\ l \in Nat /\ s \in Nat /\ stored \in Nat /\ fits = read
                    BY <1>a, <1>h, <1>d, <2>5
                  <10>2. ~(i <= (stored + fits) - s) /\ i <= stored - s + l /\ i \in Int
                    BY <4>8, <9>1
                  <10> HIDE DEF l, s
                  <10>3. /\ i - ((stored + fits) - s) \in 1 .. l - read
                         /\ read + (i - ((stored + fits) - s)) = i - (stored - s)
                    BY <10>1, <10>2
                  <10> QED BY <10>3 DEF l, s
                <9> QED BY <2>3, <7>1, <9>2
              <8>2. line'[i - Got(k)'] = line[i - Got(k)]
                BY <1>e, <8>1
              <8> QED BY <6>2, <7>3, <8>2
            <7> QED BY <7>2, <7>3
          <6> QED BY <6>1, <6>2
        <5>4. (IF i <= Got(k)' THEN more[starts'[k] + i] ELSE line'[i - Got(k)']) # Whole(k)'[i]
          BY <1>2, <1>3, <4>0, <5>2, <5>3
        <5> QED BY <1>2, <1>3, <4>0, <4>1, <5>1, <5>4
      <4> QED BY <4>2, <4>3
    <3> QED BY <2>1, <3>1, <3>2 DEF HurtInv
  <2> QED BY <1>a, <1>h, <2>4, <2>5
<1> QED
  BY <1>5, <1>6, <1>7, <1>8

\* The thread touches neither the stream nor what is on the line.
LEMMA StreamKept ==
  ASSUME IInv, NEW flow, StreamInv(flow),
         UNCHANGED <<sent, line, starts, stored, hurt, faults>>
  PROVE  StreamInv(flow)'
BY DEF StreamInv, SourceInv, ChecksInv, ContentInv, HurtInv, Numbers, EndOf, Whole, Got, Left

-----------------------------------------------------------------------------
(* The ring, the batch and the parser                                      *)

PipeInv(flow) ==
  /\ Parsed \in Nat
  /\ \A i \in 1 .. Len(batch) : batch[i] = flow[Parsed + i]
  /\ \A i \in 1 .. Len(ring) : ring[i] = flow[Parsed + Len(batch) + i]

\* how many units the parser holds of a frame it has begun, and those before them
Held ==
  IF state = "SYNC1" THEN 0 ELSE IF state = "SYNC2" THEN 1
  ELSE IF state = "HEADER" THEN 2 + Len(header) ELSE 4 + Len(payload)
Begun == Parsed - Held

\* what the parser holds are the last units it took
CandidateInv(flow) ==
  /\ Begun \in Nat
  /\ state # "SYNC1" => flow[Begun + 1] = Sync1
  /\ state \notin {"SYNC1", "SYNC2"} => flow[Begun + 2] = Sync2
  /\ state = "HEADER" => \A i \in 1 .. Len(header) : flow[Begun + 2 + i] = header[i]
  /\ state \in {"PAYLOAD", "CHECKSUM"} =>
       /\ flow[Begun + 3] = header[1] /\ flow[Begun + 4] = header[2]
       /\ \A i \in 1 .. Len(payload) : flow[Begun + 4 + i] = payload[i]

\* The numbers of the pipe and of the parser.
LEMMA PipeSizes ==
  ASSUME IInv, NEW flow, SourceInv(flow)
  PROVE  /\ stored \in Nat /\ stored = Len(flow) /\ Len(ring) \in Nat /\ Len(batch) \in Nat
         /\ Len(header) \in Nat /\ Len(payload) \in Nat /\ Held \in Nat
         /\ Parsed \in Int /\ Parsed <= stored
<1>1. stored \in Nat /\ stored = Len(flow)
  BY LenProperties DEF SourceInv
<1>2. Len(ring) \in Nat /\ Len(batch) \in Nat /\ Len(header) \in Nat /\ Len(payload) \in Nat
  BY LenProperties DEF IInv, KindsInv
<1>3. Held \in Nat
  BY <1>2 DEF Held
<1>4. Parsed \in Int /\ Parsed <= stored
  BY <1>1, <1>2 DEF Parsed
<1> QED
  BY <1>1, <1>2, <1>3, <1>4

\* What the parser holds by its state, and that it is no whole frame.
LEMMA HeldFacts ==
  ASSUME IInv, NEW flow, SourceInv(flow)
  PROVE  /\ state = "SYNC1" => Held = 0
         /\ state = "SYNC2" => Held = 1
         /\ state = "HEADER" => Held = 2 + Len(header) /\ Len(header) < 2
         /\ state \in {"PAYLOAD", "CHECKSUM"} =>
              /\ Held = 4 + Len(payload) /\ header[2] \in Nat /\ header[2] <= MaxPayload
              /\ Len(header) = 2 /\ Len(payload) <= header[2]
         /\ state = "PAYLOAD" => Len(payload) < header[2]
         /\ state = "CHECKSUM" => Len(payload) = header[2]
         /\ state \in {"SYNC1", "SYNC2", "HEADER", "PAYLOAD", "CHECKSUM"}
         /\ Held < FrameMax
<1>1. /\ state \in {"SYNC1", "SYNC2", "HEADER", "PAYLOAD", "CHECKSUM"}
      /\ state = "HEADER" => Len(header) < 2
      /\ state = "PAYLOAD" => Len(header) = 2 /\ Len(payload) < header[2]
      /\ state = "CHECKSUM" => Len(header) = 2 /\ Len(payload) = header[2]
      /\ state \in {"PAYLOAD", "CHECKSUM"} => header[2] <= MaxPayload
  BY DEF IInv, TypeOK, LengthInv, HeaderUnits
<1>2. Len(header) \in Nat /\ Len(payload) \in Nat /\ MaxPayload \in Nat
  BY PipeSizes, SizesAssumption DEF SizesAssumption
<1>3. Len(header) = 2 => header[2] \in Nat
  <2>1. header \in Seq(Nat)
    BY DEF IInv, KindsInv
  <2>2. Len(header) = 2 => 2 \in 1 .. Len(header)
    OBVIOUS
  <2> QED BY <2>1, <2>2, ElementOfSeq
<1>4. state \in {"PAYLOAD", "CHECKSUM"} => Len(payload) <= header[2] /\ Held = 4 + Len(payload)
  BY <1>1, <1>2, <1>3 DEF Held
<1>5. FrameMax = 5 + MaxPayload
  BY <1>2 DEF FrameMax, HeaderUnits
<1>6. Held < FrameMax
  <2>1. CASE state \in {"PAYLOAD", "CHECKSUM"}
    BY <1>1, <1>2, <1>3, <1>4, <1>5, <2>1
  <2>2. CASE state \notin {"PAYLOAD", "CHECKSUM"}
    BY <1>1, <1>2, <1>5, <2>2 DEF Held
  <2> QED BY <2>1, <2>2
<1>7. /\ state = "SYNC1" => Held = 0
      /\ state = "SYNC2" => Held = 1
      /\ state = "HEADER" => Held = 2 + Len(header)
  BY DEF Held
<1> QED
  BY <1>1, <1>3, <1>4, <1>6, <1>7

\* Nothing the parser holds changes when the stream grows.
LEMMA PipeGrows ==
  ASSUME IInv, NEW flow, SourceInv(flow), PipeInv(flow), CandidateInv(flow),
         NEW more, \A q \in 1 .. stored : more[q] = flow[q],
         batch' = batch, UNCHANGED parser, Parsed' = Parsed,
         \A i \in 1 .. Len(ring') : ring'[i] = more[Parsed + Len(batch) + i]
  PROVE  PipeInv(more)' /\ CandidateInv(more)'
<1>1. /\ stored \in Nat /\ Parsed \in Nat /\ Parsed <= stored /\ Held \in Nat /\ Begun \in Nat
      /\ Len(batch) \in Nat /\ Len(ring) \in Nat
      /\ Parsed + Len(batch) <= stored /\ Begun + Held = Parsed
  <2>1. /\ stored \in Nat /\ Parsed \in Nat /\ Held \in Nat /\ Begun \in Nat
        /\ Len(batch) \in Nat /\ Len(ring) \in Nat
    BY PipeSizes DEF PipeInv, CandidateInv
  <2>2. Parsed = stored - Len(ring) - Len(batch) /\ Begun = Parsed - Held
    BY DEF Parsed, Begun
  <2> QED BY <2>1, <2>2
<1>2. PipeInv(more)'
  <2>1. \A i \in 1 .. Len(batch) : batch[i] = more[Parsed + i]
    <3> TAKE i \in 1 .. Len(batch)
    <3>1. Parsed + i \in 1 .. stored
      BY <1>1
    <3> QED BY <3>1 DEF PipeInv
  <2> QED BY <1>1, <2>1 DEF PipeInv
<1>3. \A i \in 1 .. Held : more[Begun + i] = flow[Begun + i]
  <2> TAKE i \in 1 .. Held
  <2>1. Begun + i \in 1 .. stored
    BY <1>1
  <2> QED BY <2>1
<1>4. CandidateInv(more)'
  <2>1. state' = state /\ header' = header /\ payload' = payload /\ Held' = Held /\ Begun' = Begun
    BY DEF parser, Held, Begun
  <2>2. state # "SYNC1" => more[Begun + 1] = flow[Begun + 1]
    BY <1>3, HeldFacts, PipeSizes
  <2>3. state \notin {"SYNC1", "SYNC2"} => more[Begun + 2] = flow[Begun + 2]
    BY <1>3, HeldFacts, PipeSizes
  <2>4. ASSUME state = "HEADER", NEW i \in 1 .. Len(header)
        PROVE  more[Begun + 2 + i] = header[i]
    <3>1. flow[Begun + 2 + i] = header[i]
      BY <2>4 DEF CandidateInv
    <3>2. Held = 2 + Len(header) /\ Len(header) \in Nat
      BY <2>4, HeldFacts, PipeSizes
    <3>3. 2 + i \in 1 .. Held /\ Begun + 2 + i = Begun + (2 + i)
      BY <1>1, <3>2
    <3> QED BY <1>3, <3>1, <3>3
  <2>5. ASSUME state \in {"PAYLOAD", "CHECKSUM"}
        PROVE  /\ more[Begun + 3] = header[1] /\ more[Begun + 4] = header[2]
               /\ \A i \in 1 .. Len(payload) : more[Begun + 4 + i] = payload[i]
    <3>1. Held = 4 + Len(payload) /\ Len(payload) \in Nat
      BY <2>5, HeldFacts, PipeSizes
    <3>2. more[Begun + 3] = header[1] /\ more[Begun + 4] = header[2]
      <4>1. 3 \in 1 .. Held /\ 4 \in 1 .. Held
        BY <3>1
      <4> QED BY <1>3, <2>5, <4>1 DEF CandidateInv
    <3>3. ASSUME NEW i \in 1 .. Len(payload)
          PROVE  more[Begun + 4 + i] = payload[i]
      <4>1. flow[Begun + 4 + i] = payload[i]
        BY <2>5 DEF CandidateInv
      <4>2. 4 + i \in 1 .. Held /\ Begun + 4 + i = Begun + (4 + i)
        BY <1>1, <3>1
      <4> QED BY <1>3, <4>1, <4>2
    <3> QED BY <3>2, <3>3
  <2>6. /\ Begun \in Nat
        /\ state # "SYNC1" => more[Begun + 1] = Sync1
        /\ state \notin {"SYNC1", "SYNC2"} => more[Begun + 2] = Sync2
    BY <1>1, <2>2, <2>3 DEF CandidateInv
  <2> QED BY <2>1, <2>4, <2>5, <2>6 DEF CandidateInv
<1> QED
  BY <1>2, <1>4

\* The interrupt puts behind the ring's units what it puts behind the stream's.
LEMMA PipeIsr ==
  ASSUME IInv, NEW flow, SourceInv(flow), PipeInv(flow), CandidateInv(flow),
         NEW read \in Nat, NEW fits \in Nat, NEW more \in Seq(Nat), Takes(flow, read, fits, more)
  PROVE  PipeInv(more)' /\ CandidateInv(more)' /\ Parsed' = Parsed
<1>1. /\ stored \in Nat /\ Len(ring) \in Nat /\ Len(batch) \in Nat /\ Parsed \in Nat
      /\ Parsed = stored - Len(ring) - Len(batch)
  BY PipeSizes DEF PipeInv, Parsed
<1>2. /\ stored' = stored + fits /\ Len(ring') = Len(ring) + fits /\ batch' = batch /\ UNCHANGED parser
      /\ \A q \in 1 .. stored : more[q] = flow[q]
      /\ \A i \in 1 .. fits : more[stored + i] = line[i]
      /\ \A i \in 1 .. Len(ring) : ring'[i] = ring[i]
      /\ \A i \in 1 .. fits : ring'[Len(ring) + i] = line[i]
  BY DEF Takes
<1>3. Parsed' = Parsed
  <2>1. Parsed' = stored' - Len(ring') - Len(batch')
    BY DEF Parsed
  <2> QED BY <1>1, <1>2, <2>1
<1>4. ASSUME NEW i \in 1 .. Len(ring')
      PROVE  ring'[i] = more[Parsed + Len(batch) + i]
  <2>1. i \in 1 .. Len(ring) + fits
    BY <1>2
  <2>2. CASE i <= Len(ring)
    <3>1. i \in 1 .. Len(ring) /\ Parsed + Len(batch) + i \in 1 .. stored
      BY <1>1, <2>1, <2>2
    <3> QED BY <1>2, <3>1 DEF PipeInv
  <2>3. CASE ~(i <= Len(ring))
    <3>1. PICK j \in 1 .. fits : i = Len(ring) + j
      <4>1. i - Len(ring) \in 1 .. fits /\ i = Len(ring) + (i - Len(ring))
        BY <1>1, <2>1, <2>3
      <4> QED BY <4>1
    <3>2. Parsed + Len(batch) + i = stored + j
      BY <1>1, <3>1
    <3> QED BY <1>2, <3>1, <3>2
  <2> QED BY <2>2, <2>3
<1> QED
  BY <1>2, <1>3, <1>4, PipeGrows

\* Taking a batch moves the ring's first units before the rest.
LEMMA PipeBatch ==
  ASSUME IInv, NEW flow, SourceInv(flow), PipeInv(flow), CandidateInv(flow), GetBatch
  PROVE  PipeInv(flow)' /\ CandidateInv(flow)' /\ Parsed' = Parsed
<1> DEFINE read == Least(BatchSize, Len(ring))
<1>1. /\ stored \in Nat /\ Len(ring) \in Nat /\ Parsed \in Nat /\ BatchSize \in Nat /\ ring \in Seq(Nat)
  BY PipeSizes, SizesAssumption DEF PipeInv, SizesAssumption, IInv, KindsInv
<1>2. read \in Nat /\ read <= Len(ring)
  BY <1>1 DEF Least
<1>3. batch = <<>> /\ batch' = SubSeq(ring, 1, read) /\ ring' = SubSeq(ring, read + 1, Len(ring))
      /\ stored' = stored /\ UNCHANGED parser
  BY DEF GetBatch, stream
<1> HIDE DEF read
<1>4. Len(batch') = read /\ \A i \in 1 .. read : batch'[i] = ring[i]
  <2>1. /\ Len(SubSeq(ring, 0 + 1, read)) = read - 0
        /\ \A i \in 1 .. read - 0 : SubSeq(ring, 0 + 1, read)[i] = ring[0 + i]
    BY <1>1, <1>2, StretchUnits
  <2>2. batch' = SubSeq(ring, 0 + 1, read)
    BY <1>3
  <2> QED BY <1>2, <2>1, <2>2
<1>5. Len(ring') = Len(ring) - read /\ \A i \in 1 .. Len(ring) - read : ring'[i] = ring[read + i]
  BY <1>1, <1>2, <1>3, StretchUnits
<1>6. Len(batch) = 0 /\ Parsed = stored - Len(ring)
  <2>1. Len(batch) = 0
    BY <1>3, EmptySeq
  <2> QED BY <1>1, <2>1 DEF Parsed
<1>7. Parsed' = Parsed
  <2>1. Parsed' = stored' - Len(ring') - Len(batch')
    BY DEF Parsed
  <2> QED BY <1>1, <1>2, <1>3, <1>4, <1>5, <1>6, <2>1
<1>8. \A i \in 1 .. Len(ring) : ring[i] = flow[Parsed + i]
  BY <1>1, <1>6 DEF PipeInv
<1>9. PipeInv(flow)'
  <2>1. \A i \in 1 .. Len(batch') : batch'[i] = flow[Parsed + i]
    <3> TAKE i \in 1 .. Len(batch')
    <3>1. i \in 1 .. read
      BY <1>4
    <3>2. i \in 1 .. Len(ring)
      BY <1>1, <1>2, <3>1
    <3> QED BY <1>4, <1>8, <3>1, <3>2
  <2>2. ASSUME NEW i \in 1 .. Len(ring')
        PROVE  ring'[i] = flow[Parsed + Len(batch') + i]
    <3>1. i \in 1 .. Len(ring) - read
      BY <1>5
    <3>2. read + i \in 1 .. Len(ring) /\ Parsed + (read + i) = Parsed + read + i
      BY <1>1, <1>2, <3>1
    <3>3. ring'[i] = ring[read + i] /\ ring[read + i] = flow[Parsed + (read + i)]
      BY <1>5, <1>8, <3>1, <3>2
    <3> QED BY <1>4, <3>2, <3>3
  <2> QED BY <1>1, <1>7, <2>1, <2>2 DEF PipeInv
<1>10. CandidateInv(flow)'
  <2>1. state' = state /\ header' = header /\ payload' = payload /\ Begun' = Begun
    BY <1>3, <1>7 DEF parser, Held, Begun
  <2> QED BY <2>1 DEF CandidateInv
<1> QED
  BY <1>7, <1>9, <1>10

\* The parser takes the next unit of the stream.
LEMMA PipeUnit ==
  ASSUME IInv, NEW flow, SourceInv(flow), PipeInv(flow), NEW in, RxUnit(in)
  PROVE  /\ PipeInv(flow)' /\ Parsed' = Parsed + 1 /\ Parsed + 1 <= stored
         /\ Unit = flow[Parsed + 1] /\ Unit \in Nat
         /\ UNCHANGED <<sent, line, starts, stored, hurt, faults>>
<1>1. /\ stored \in Nat /\ Len(ring) \in Nat /\ Len(batch) \in Nat /\ Parsed \in Nat
      /\ Parsed = stored - Len(ring) - Len(batch) /\ batch \in Seq(Nat)
  BY PipeSizes DEF PipeInv, Parsed, IInv, KindsInv
<1>2. batch # <<>> /\ batch' = Tail(batch) /\ ring' = ring /\ stored' = stored
      /\ UNCHANGED <<sent, line, starts, stored, hurt, faults>>
  BY DEF RxUnit, stream
<1>3. /\ Unit \in Nat /\ Len(batch') = Len(batch) - 1
      /\ \A i \in 1 .. Len(batch') : batch'[i] = batch[i + 1]
  BY <1>1, <1>2, HeadTailProperties DEF Unit
<1>4. Len(batch) >= 1 /\ Unit = batch[1]
  <2>1. Len(batch) # 0
    BY <1>1, <1>2, EmptySeq
  <2>2. Unit = batch[1]
    BY <1>1, <1>2 DEF Unit
  <2> QED BY <1>1, <2>1, <2>2
<1>5. Unit = flow[Parsed + 1]
  BY <1>1, <1>4 DEF PipeInv
<1>6. Parsed' = Parsed + 1 /\ Parsed + 1 <= stored
  <2>1. Parsed' = stored' - Len(ring') - Len(batch')
    BY DEF Parsed
  <2> QED BY <1>1, <1>2, <1>3, <1>4, <2>1
<1>7. PipeInv(flow)'
  <2>1. ASSUME NEW i \in 1 .. Len(batch')
        PROVE  batch'[i] = flow[Parsed + 1 + i]
    <3>1. i \in 1 .. Len(batch) - 1
      BY <1>3
    <3>2. i + 1 \in 1 .. Len(batch) /\ Parsed + (i + 1) = Parsed + 1 + i
      BY <1>1, <3>1
    <3> QED BY <1>3, <3>2 DEF PipeInv
  <2>2. ASSUME NEW i \in 1 .. Len(ring)
        PROVE  ring[i] = flow[Parsed + 1 + Len(batch') + i]
    <3>1. Parsed + 1 + (Len(batch) - 1) + i = Parsed + Len(batch) + i
      BY <1>1
    <3> QED BY <1>3, <3>1 DEF PipeInv
  <2> QED BY <1>1, <1>2, <1>6, <2>1, <2>2 DEF PipeInv
<1> QED
  BY <1>2, <1>3, <1>5, <1>6, <1>7

\* Each unit extends what the parser holds, begins a frame or ends the search for one.
LEMMA CandidateSync1 ==
  ASSUME IInv, NEW flow, SourceInv(flow), PipeInv(flow), CandidateInv(flow), RxSync1
  PROVE  CandidateInv(flow)' /\ state' \in {"SYNC1", "SYNC2"}
<1>1. RxUnit("SYNC1") /\ state = "SYNC1" /\ state' = IF Unit = Sync1 THEN "SYNC2" ELSE "SYNC1"
  BY DEF RxSync1, RxUnit
<1>2. Parsed' = Parsed + 1 /\ Unit = flow[Parsed + 1] /\ Parsed \in Nat
  BY <1>1, PipeUnit DEF PipeInv
<1>3. Held' = IF Unit = Sync1 THEN 1 ELSE 0
  BY <1>1 DEF Held
<1>4. Begun' = Parsed' - Held'
  BY DEF Begun
<1>5. CASE Unit = Sync1
  <2>1. Begun' = Parsed /\ state' = "SYNC2"
    BY <1>1, <1>2, <1>3, <1>4, <1>5
  <2> QED BY <1>2, <1>5, <2>1 DEF CandidateInv
<1>6. CASE Unit # Sync1
  <2>1. Begun' = Parsed + 1 /\ state' = "SYNC1"
    BY <1>1, <1>2, <1>3, <1>4, <1>6
  <2> QED BY <1>2, <2>1 DEF CandidateInv
<1> QED BY <1>5, <1>6

LEMMA CandidateSync2 ==
  ASSUME IInv, NEW flow, SourceInv(flow), PipeInv(flow), CandidateInv(flow), RxSync2
  PROVE  /\ CandidateInv(flow)' /\ state = "SYNC2" /\ Parsed = Begun + 1
         /\ Unit # Sync2 => state' \in {"SYNC1", "SYNC2"}
         /\ Unit = Sync2 => state' = "HEADER" /\ Begun' = Begun
<1>1. /\ RxUnit("SYNC2") /\ state = "SYNC2"
      /\ state' = IF Unit = Sync2 THEN "HEADER" ELSE IF Unit = Sync1 THEN "SYNC2" ELSE "SYNC1"
      /\ Unit = Sync2 => header' = <<>>
  BY DEF RxSync2, RxUnit
<1>2. Parsed' = Parsed + 1 /\ Unit = flow[Parsed + 1] /\ Parsed \in Nat
  BY <1>1, PipeUnit DEF PipeInv
<1>3. Held = 1 /\ Begun \in Nat /\ Parsed = Begun + 1 /\ flow[Begun + 1] = Sync1
  <2>1. Held = 1 /\ Begun = Parsed - Held /\ Begun \in Nat /\ flow[Begun + 1] = Sync1
    BY <1>1 DEF Held, Begun, CandidateInv
  <2> QED BY <1>2, <2>1
<1>4. Begun' = Parsed' - Held'
  BY DEF Begun
<1>5. CASE Unit = Sync2
  <2>1. state' = "HEADER" /\ header' = <<>> /\ Len(header') = 0
    BY <1>1, <1>5, EmptySeq
  <2>2. Held' = 2 + Len(header')
    BY <2>1 DEF Held
  <2>3. Begun' = Begun
    BY <1>2, <1>3, <1>4, <2>1, <2>2
  <2>4. flow[Begun + 2] = Sync2
    BY <1>2, <1>3, <1>5
  <2>5. \A i \in 1 .. Len(header') : FALSE
    BY <2>1
  <2>6. CandidateInv(flow)'
    BY <1>3, <2>1, <2>3, <2>4, <2>5 DEF CandidateInv
  <2> QED BY <1>1, <1>3, <1>5, <2>1, <2>3, <2>6
<1>6. CASE Unit # Sync2 /\ Unit = Sync1
  <2>1. state' = "SYNC2"
    BY <1>1, <1>6
  <2>2. Held' = 1
    BY <2>1 DEF Held
  <2>3. Begun' = Parsed
    BY <1>2, <1>4, <2>2
  <2>4. CandidateInv(flow)'
    BY <1>2, <1>6, <2>1, <2>3 DEF CandidateInv
  <2> QED BY <1>1, <1>3, <1>6, <2>1, <2>4
<1>7. CASE Unit # Sync2 /\ Unit # Sync1
  <2>1. state' = "SYNC1"
    BY <1>1, <1>7
  <2>2. Held' = 0
    BY <2>1 DEF Held
  <2>3. Begun' = Parsed + 1
    BY <1>2, <1>4, <2>2
  <2>4. CandidateInv(flow)'
    BY <1>2, <2>1, <2>3 DEF CandidateInv
  <2> QED BY <1>1, <1>3, <1>7, <2>1, <2>4
<1> QED BY <1>5, <1>6, <1>7

LEMMA CandidateHeader ==
  ASSUME IInv, NEW flow, SourceInv(flow), PipeInv(flow), CandidateInv(flow), RxHeader
  PROVE  /\ CandidateInv(flow)' /\ state = "HEADER"
         /\ Parsed = Begun + 2 + Len(header)
         /\ state' # "SYNC1" => state' \in {"HEADER", "PAYLOAD", "CHECKSUM"} /\ Begun' = Begun
         /\ state' = "SYNC1" => Len(header) = 1 /\ ~LengthOk(Unit)
<1>1. RxUnit("HEADER") /\ state = "HEADER" /\ header' = Append(header, Unit)
  BY DEF RxHeader, RxUnit
<1>2. Parsed' = Parsed + 1 /\ Unit = flow[Parsed + 1] /\ Parsed \in Nat /\ Unit \in Nat
  BY <1>1, PipeUnit DEF PipeInv
<1>3. Held = 2 + Len(header) /\ Begun \in Nat /\ Len(header) \in Nat /\ Len(header) < 2
  BY <1>1, HeldFacts, PipeSizes DEF CandidateInv
<1>4. Parsed = Begun + 2 + Len(header)
  BY <1>2, <1>3 DEF Begun
<1>12. Len(header) + 1 < HeaderUnits \/ Len(header) = 1
  <2>1. Len(header) \in Nat /\ Len(header) < 2
    BY <1>3
  <2> DEFINE l == Len(header)
  <2>2. l \in Nat /\ l < 2
    BY <2>1
  <2> HIDE DEF l
  <2>3. l + 1 < HeaderUnits \/ l = 1
    BY <2>2 DEF HeaderUnits
  <2> QED BY <2>3 DEF l
<1>5. Begun' = Parsed' - Held'
  BY DEF Begun
<1>6. /\ Len(header') = Len(header) + 1 /\ header'[Len(header) + 1] = Unit
      /\ \A i \in 1 .. Len(header) : header'[i] = header[i]
  <2>1. header \in Seq(Nat)
    BY DEF IInv, KindsInv
  <2> QED BY <1>1, <1>2, <2>1, AppendProperties
<1>7. ASSUME NEW i \in 1 .. Len(header')
      PROVE  flow[Begun + 2 + i] = header'[i]
  <2>1. CASE i <= Len(header)
    <3>1. i \in 1 .. Len(header)
      BY <1>3, <1>6, <2>1
    <3>2. flow[Begun + 2 + i] = header[i]
      BY <1>1, <3>1 DEF CandidateInv
    <3> QED BY <1>6, <3>1, <3>2
  <2>2. CASE ~(i <= Len(header))
    <3>1. i = Len(header) + 1 /\ Parsed + 1 = Begun + 2 + i
      BY <1>3, <1>4, <1>6, <2>2
    <3> QED BY <1>2, <1>6, <3>1
  <2> QED BY <2>1, <2>2
<1>8. flow[Begun + 1] = Sync1 /\ flow[Begun + 2] = Sync2
  BY <1>1 DEF CandidateInv
<1>9. CASE Len(header) + 1 < HeaderUnits
  <2>1. state' = "HEADER"
    BY <1>1, <1>9 DEF RxHeader
  <2>2. Held' = 2 + Len(header')
    BY <2>1 DEF Held
  <2>3. Begun' = Begun
    BY <1>2, <1>3, <1>4, <1>5, <1>6, <2>2
  <2>4. CandidateInv(flow)'
    BY <1>3, <1>7, <1>8, <2>1, <2>3 DEF CandidateInv
  <2> QED BY <1>1, <1>4, <2>1, <2>3, <2>4
<1>10. CASE ~(Len(header) + 1 < HeaderUnits) /\ LengthOk(Unit)
  <2>1. state' \in {"PAYLOAD", "CHECKSUM"} /\ payload' = <<>> /\ Len(payload') = 0
    BY <1>10, EmptySeq DEF RxHeader
  <2>2. Held' = 4 + Len(payload')
    BY <2>1 DEF Held
  <2>3. Len(header) = 1 /\ Len(header') = 2
    BY <1>6, <1>10, <1>12
  <2>4. Begun' = Begun
    BY <1>2, <1>3, <1>4, <1>5, <2>1, <2>2, <2>3
  <2>5. flow[Begun + 3] = header'[1] /\ flow[Begun + 4] = header'[2]
    <3>1. 1 \in 1 .. Len(header') /\ 2 \in 1 .. Len(header') /\ Begun + 2 + 1 = Begun + 3
          /\ Begun + 2 + 2 = Begun + 4
      BY <1>3, <2>3
    <3> QED BY <1>7, <3>1
  <2>6. \A i \in 1 .. Len(payload') : FALSE
    BY <2>1
  <2>7. CandidateInv(flow)'
    BY <1>3, <1>8, <2>1, <2>4, <2>5, <2>6 DEF CandidateInv
  <2> QED BY <1>1, <1>4, <2>1, <2>4, <2>7
<1>11. CASE ~(Len(header) + 1 < HeaderUnits) /\ ~LengthOk(Unit)
  <2>1. state' = "SYNC1"
    BY <1>11 DEF RxHeader
  <2>2. Held' = 0
    BY <2>1 DEF Held
  <2>3. Begun' = Parsed + 1
    BY <1>2, <1>5, <2>2
  <2>4. CandidateInv(flow)'
    BY <1>2, <2>1, <2>3 DEF CandidateInv
  <2>5. Len(header) = 1
    BY <1>11, <1>12
  <2> QED BY <1>1, <1>4, <1>11, <2>1, <2>4, <2>5
<1> QED BY <1>9, <1>10, <1>11

LEMMA CandidatePayload ==
  ASSUME IInv, NEW flow, SourceInv(flow), PipeInv(flow), CandidateInv(flow), RxPayload
  PROVE  /\ CandidateInv(flow)' /\ state = "PAYLOAD" /\ state' \in {"PAYLOAD", "CHECKSUM"}
         /\ Begun' = Begun
<1>1. /\ RxUnit("PAYLOAD") /\ state = "PAYLOAD" /\ payload' = Append(payload, Unit)
      /\ header' = header /\ state' \in {"PAYLOAD", "CHECKSUM"}
  BY DEF RxPayload, RxUnit
<1>2. Parsed' = Parsed + 1 /\ Unit = flow[Parsed + 1] /\ Parsed \in Nat /\ Unit \in Nat
  BY <1>1, PipeUnit DEF PipeInv
<1>3. Held = 4 + Len(payload) /\ Begun \in Nat /\ Len(payload) \in Nat
  BY <1>1, HeldFacts, PipeSizes DEF CandidateInv
<1>4. Parsed = Begun + 4 + Len(payload)
  BY <1>2, <1>3 DEF Begun
<1>5. /\ Len(payload') = Len(payload) + 1 /\ payload'[Len(payload) + 1] = Unit
      /\ \A i \in 1 .. Len(payload) : payload'[i] = payload[i]
  <2>1. payload \in Seq(Nat)
    BY DEF IInv, KindsInv
  <2> QED BY <1>1, <1>2, <2>1, AppendProperties
<1>6. ASSUME NEW i \in 1 .. Len(payload')
      PROVE  flow[Begun + 4 + i] = payload'[i]
  <2>1. CASE i <= Len(payload)
    <3>1. i \in 1 .. Len(payload)
      BY <1>3, <1>5, <2>1
    <3>2. flow[Begun + 4 + i] = payload[i]
      BY <1>1, <3>1 DEF CandidateInv
    <3> QED BY <1>5, <3>1, <3>2
  <2>2. CASE ~(i <= Len(payload))
    <3>1. i = Len(payload) + 1 /\ Parsed + 1 = Begun + 4 + i
      BY <1>3, <1>4, <1>5, <2>2
    <3> QED BY <1>2, <1>5, <3>1
  <2> QED BY <2>1, <2>2
<1>7. Begun' = Begun
  <2>1. Begun' = Parsed' - Held' /\ Held' = 4 + Len(payload')
    BY <1>1 DEF Begun, Held
  <2> QED BY <1>2, <1>3, <1>4, <1>5, <2>1
<1>8. /\ flow[Begun + 1] = Sync1 /\ flow[Begun + 2] = Sync2
      /\ flow[Begun + 3] = header[1] /\ flow[Begun + 4] = header[2]
  BY <1>1 DEF CandidateInv
<1>9. CandidateInv(flow)'
  BY <1>1, <1>3, <1>6, <1>7, <1>8 DEF CandidateInv
<1> QED BY <1>1, <1>7, <1>9

LEMMA CandidateChecksum ==
  ASSUME IInv, NEW flow, SourceInv(flow), PipeInv(flow), CandidateInv(flow), RxChecksum
  PROVE  /\ CandidateInv(flow)' /\ state = "CHECKSUM" /\ state' = "SYNC1"
         /\ Parsed = Begun + 4 + Len(payload)
<1>1. RxUnit("CHECKSUM") /\ state = "CHECKSUM" /\ state' = "SYNC1"
  BY DEF RxChecksum, RxUnit, AfterCheck
<1>2. Parsed' = Parsed + 1 /\ Parsed \in Nat
  BY <1>1, PipeUnit DEF PipeInv
<1>3. Begun' = Parsed' - Held' /\ Held' = 0
  BY <1>1 DEF Begun, Held
<1>4. Begun' = Parsed + 1
  BY <1>2, <1>3
<1>5. Held = 4 + Len(payload) /\ Len(payload) \in Nat
  BY <1>1, HeldFacts, PipeSizes
<1>6. Parsed = Begun + 4 + Len(payload)
  BY <1>2, <1>5 DEF Begun
<1> QED BY <1>1, <1>2, <1>4, <1>6 DEF CandidateInv

-----------------------------------------------------------------------------
(* Where frames begin and where the parser takes them to begin             *)

\* a sync word is a frame's first units, or of a frame that was hit or spells it
AlignInv ==
  state \notin {"SYNC1", "SYNC2"} =>
    \A k \in Numbers \ hurt :
      starts[k] <= Begun /\ Begun < EndOf(k) /\ SyncFree(sent[k].payload) => Begun = starts[k]

\* what DamageBounded asks of a frame
Clear(n) ==
  /\ n \in Numbers \ hurt
  /\ \A m \in 1 .. n : SyncFree(sent[m].payload)
  /\ Len(sent[n].payload) <= MaxPayload
  /\ \A m \in hurt : m < n => starts[n] - starts[m + 1] >= FrameMax

\* the parser follows such a frame from its first unit
TrackInv ==
  \A n \in Numbers :
    Clear(n) /\ starts[n] < Parsed /\ Parsed < starts[n] + Len(Whole(n)) => Begun = starts[n]

\* and takes it
TakenInv == \A n \in Numbers : Clear(n) /\ Parsed >= starts[n] + Len(Whole(n)) => n \in accepted

\* The numbers of a frame that no fault has hit.
LEMMA FrameFacts ==
  ASSUME IInv, NEW flow, SourceInv(flow), ContentInv(flow), NEW k \in Numbers \ hurt
  PROVE  /\ k \in Nat /\ starts[k] \in Nat /\ starts[k] <= stored /\ EndOf(k) \in Nat
         /\ starts[k] <= EndOf(k) /\ EndOf(k) <= stored
         /\ Len(Whole(k)) \in Nat /\ EndOf(k) <= starts[k] + Len(Whole(k))
         /\ EndOf(k) < starts[k] + Len(Whole(k)) => k = Len(sent) /\ EndOf(k) = stored
<1>1. k \in Nat /\ Len(sent) \in Nat /\ k <= Len(sent) /\ k >= 1
  BY LenProperties DEF Numbers, IInv, KindsInv
<1>2. starts[k] \in Nat /\ starts[k] <= stored /\ stored \in Nat
  BY <1>1, ElementOfSeq, LenProperties DEF SourceInv, Numbers
<1>3. Whole(k) \in Seq(Nat) /\ Len(Whole(k)) \in Nat
  BY WholeUnits, LenProperties
<1>4. CASE k < Len(sent)
  <2>1. k + 1 \in Numbers
    BY <1>1, <1>4 DEF Numbers
  <2>2. starts[k + 1] \in Nat /\ starts[k + 1] <= stored
    BY <2>1, ElementOfSeq, LenProperties DEF SourceInv, Numbers
  <2>3. starts[k] <= starts[k + 1]
    BY <1>1, <2>1 DEF SourceInv
  <2>4. EndOf(k) = starts[k + 1]
    BY <1>4 DEF EndOf
  <2>5. EndOf(k) - starts[k] = Len(Whole(k))
    BY <1>4 DEF ContentInv
  <2>6. EndOf(k) = starts[k] + Len(Whole(k))
    <3> DEFINE e == EndOf(k)
               l == Len(Whole(k))
               s == starts[k]
    <3>1. e \in Nat /\ l \in Nat /\ s \in Nat /\ e - s = l
      BY <1>2, <1>3, <2>2, <2>4, <2>5
    <3> HIDE DEF e, l, s
    <3>2. e = s + l
      BY <3>1
    <3> QED BY <3>2 DEF e, l, s
  <2> QED BY <1>1, <1>2, <1>3, <2>2, <2>3, <2>4, <2>6
<1>5. CASE ~(k < Len(sent))
  <2>1. k = Len(sent) /\ EndOf(k) = stored
    BY <1>1, <1>5 DEF EndOf
  <2>2. stored - starts[k] + Len(line) = Len(Whole(k)) /\ Len(line) \in Nat
    BY <2>1, LenProperties DEF ContentInv, IInv, KindsInv
  <2>3. stored <= starts[k] + Len(Whole(k))
    <3> DEFINE l == Len(line)
               w == Len(Whole(k))
               s == starts[k]
    <3>1. l \in Nat /\ w \in Nat /\ s \in Nat /\ stored \in Nat /\ stored - s + l = w
      BY <1>2, <1>3, <2>2
    <3> HIDE DEF l, w, s
    <3>2. stored <= s + w
      BY <3>1
    <3> QED BY <3>2 DEF l, w, s
  <2> QED BY <1>1, <1>2, <1>3, <2>1, <2>3
<1> QED BY <1>4, <1>5

\* Its units are in the stream where they belong.
LEMMA FrameUnit ==
  ASSUME IInv, NEW flow, SourceInv(flow), ContentInv(flow), NEW k \in Numbers \ hurt,
         NEW i \in Nat, i >= 1, starts[k] + i <= EndOf(k)
  PROVE  flow[starts[k] + i] = Whole(k)[i] /\ i <= Len(Whole(k))
<1>1. /\ starts[k] \in Nat /\ EndOf(k) \in Nat /\ Len(Whole(k)) \in Nat
      /\ EndOf(k) <= starts[k] + Len(Whole(k))
  BY FrameFacts
<1>2. i \in 1 .. EndOf(k) - starts[k] /\ i <= Len(Whole(k))
  BY <1>1
<1> QED BY <1>2 DEF ContentInv

\* The first two units of a frame are found together nowhere else in it.
LEMMA SyncFound ==
  ASSUME IInv, NEW flow, SourceInv(flow), ContentInv(flow), NEW k \in Numbers \ hurt,
         NEW b \in Nat, starts[k] <= b, b < EndOf(k), b + 2 <= stored,
         flow[b + 1] = Sync1, flow[b + 2] = Sync2, SyncFree(sent[k].payload)
  PROVE  b = starts[k]
<1> DEFINE s == starts[k]
           e == EndOf(k)
           w == Len(Whole(k))
           p == sent[k].payload
           l == Len(p)
<1>1. /\ s \in Nat /\ e \in Nat /\ e <= s + w /\ s <= b /\ b < e
      /\ e < s + w => e = stored
  BY FrameFacts
<1>2. l \in Nat /\ w = l + 5
  BY WholeUnits
<1>3. /\ Whole(k)[2] = Sync2 /\ Whole(k)[3] = sent[k].kind /\ Whole(k)[4] = l
      /\ \A j \in 1 .. l : Whole(k)[4 + j] = p[j]
      /\ Whole(k)[l + 5] = Check(k) /\ k \in Nat
  BY WholeUnits
<1>4. /\ Sync1 # Sync2 /\ <<sent[k].kind, l>> # <<Sync1, Sync2>>
      /\ l > 0 => <<l, p[1]>> # <<Sync1, Sync2>>
      /\ ~(Sync1 > 100) /\ ~(Sync2 > 100)
  <2>1. sent[k] \in Frames
    BY ElementOfSeq, LenProperties DEF IInv, KindsInv, Numbers
  <2>2. Sync1 \in Nat /\ Sync2 \in Nat /\ Sync1 <= 100 /\ Sync2 <= 100
    BY UnitsAssumption, FramesAssumption DEF UnitsAssumption, FramesAssumption
  <2> QED BY <2>1, <2>2, SizesAssumption, FramesAssumption DEF SizesAssumption, FramesAssumption
<1>5. Check(k) > 100 /\ Check(k) \in Nat
  <2>1. k > 0
    BY <1>3 DEF Numbers
  <2> QED BY <1>3, <2>1 DEF Check
<1>6. \A i \in Nat : i >= 1 /\ s + i <= e => flow[s + i] = Whole(k)[i]
  BY FrameUnit
<1> HIDE DEF s, e, w, p, l
<1> SUFFICES ASSUME b # s PROVE FALSE
  BY DEF s
<1>7. PICK i \in Nat : b = s + i /\ i >= 1 /\ i + 1 <= l + 5
  <2>1. b - s \in Nat /\ b = s + (b - s) /\ b - s >= 1 /\ (b - s) + 1 <= l + 5
    BY <1>1, <1>2
  <2> QED BY <2>1
<1>8. Whole(k)[i + 1] = Sync1
  <2>1. i + 1 \in Nat /\ i + 1 >= 1 /\ s + (i + 1) <= e /\ s + (i + 1) = b + 1
    BY <1>1, <1>7
  <2> QED BY <1>6, <2>1
<1>9. Sync1 # Check(k) /\ Sync2 # Check(k)
  BY <1>4, <1>5
<1>10. i # 1 /\ i # l + 4
  <2>1. i = 1 => i + 1 = 2
    OBVIOUS
  <2>2. i = l + 4 => i + 1 = l + 5
    BY <1>2
  <2> QED BY <1>3, <1>4, <1>8, <1>9, <2>1, <2>2
<1>11. Whole(k)[i + 2] = Sync2
  <2>1. i + 2 \in Nat /\ i + 2 >= 1 /\ s + (i + 2) <= e /\ s + (i + 2) = b + 2
    <3>1. i + 2 <= l + 5
      BY <1>2, <1>7, <1>10
    <3>2. CASE e < s + w
      BY <1>1, <1>7, <3>2
    <3>3. CASE ~(e < s + w)
      BY <1>1, <1>2, <1>7, <3>1, <3>3
    <3> QED BY <3>2, <3>3
  <2> QED BY <1>6, <2>1
<1>12. i \notin {1, 2, 3} /\ i # l + 4
  <2>1. i # 2
    <3>1. i = 2 => i + 1 = 3 /\ i + 2 = 4
      OBVIOUS
    <3> QED BY <1>3, <1>4, <1>8, <1>11, <3>1
  <2>2. i # 3
    <3>1. i = 3 => i + 1 = 4 /\ i + 2 = 5
      OBVIOUS
    <3>2. CASE l = 0
      <4>1. l + 5 = 5
        BY <3>2
      <4> QED BY <1>3, <1>11, <1>9, <3>1, <4>1
    <3>3. CASE l # 0
      <4>1. 1 \in 1 .. l /\ 4 + 1 = 5 /\ l > 0
        BY <1>2, <3>3
      <4>2. Whole(k)[5] = p[1]
        BY <1>3, <4>1
      <4> QED BY <1>3, <1>4, <1>8, <1>11, <3>1, <4>1, <4>2
    <3> QED BY <3>2, <3>3
  <2> QED BY <1>10, <2>1, <2>2
<1>13. PICK j \in 1 .. l : i + 1 = 4 + j
  <2>1. i - 3 \in 1 .. l /\ i + 1 = 4 + (i - 3)
    BY <1>2, <1>7, <1>12
  <2> QED BY <2>1
<1>14. p[j] = Sync1
  BY <1>3, <1>8, <1>13
<1>15. CASE j = l
  <2>1. i + 2 = l + 5
    BY <1>2, <1>7, <1>13, <1>15
  <2> QED BY <1>3, <1>11, <1>9, <2>1
<1>16. CASE j # l
  <2>1. j \in 1 .. l - 1 /\ j + 1 \in 1 .. l /\ i + 2 = 4 + (j + 1)
    BY <1>2, <1>7, <1>13, <1>16
  <2>2. p[j + 1] = Sync2
    BY <1>3, <1>11, <2>1
  <2>3. \A m \in 1 .. l - 1 : <<p[m], p[m + 1]>> # <<Sync1, Sync2>>
    BY DEF SyncFree, p, l
  <2> QED BY <1>14, <2>1, <2>2, <2>3
<1> QED BY <1>15, <1>16

\* Every unit of the stream before frame n is of a frame before n.
LEMMA SegmentOf ==
  ASSUME IInv, NEW flow, SourceInv(flow), NEW n \in Numbers, NEW b \in Nat, b < starts[n]
  PROVE  \E k \in Numbers : k < n /\ k + 1 \in Numbers /\ starts[k] <= b /\ b < starts[k + 1]
<1>1. Len(sent) \in Nat /\ \A k \in Numbers : k \in Nat /\ starts[k] \in Nat
  <2>1. Len(sent) \in Nat
    BY LenProperties DEF IInv, KindsInv
  <2>2. ASSUME NEW k \in Numbers PROVE k \in Nat /\ starts[k] \in Nat
    <3>1. k \in 1 .. Len(starts) /\ starts \in Seq(Nat)
      BY DEF SourceInv, Numbers
    <3> QED BY <3>1, ElementOfSeq
  <2> QED BY <2>1, <2>2
<1> DEFINE After == {k \in Numbers : starts[k] > b}
<1>2. After \subseteq Nat /\ n \in After
  BY <1>1
<1>3. PICK j \in After : \A k \in After : j <= k
  <2> HIDE DEF After
  <2> QED BY <1>2, LeastNumber
<1>4. j \in Numbers /\ j \in Nat /\ starts[j] > b /\ j <= n /\ n \in Nat
  BY <1>1, <1>2, <1>3
<1>5. 1 \in Numbers /\ starts[1] = 0
  <2>1. 1 \in Numbers
    BY <1>1, <1>4 DEF Numbers
  <2> QED BY <2>1 DEF SourceInv
<1>6. j # 1
  BY <1>4, <1>5
<1>7. j - 1 \in Numbers /\ j - 1 < n /\ (j - 1) + 1 = j /\ ~(j <= j - 1)
  BY <1>1, <1>4, <1>6 DEF Numbers
<1>8. ~(starts[j - 1] > b)
  <2>1. j - 1 \notin After
    BY <1>3, <1>7
  <2> QED BY <1>7, <2>1
<1>9. starts[j - 1] <= b
  BY <1>1, <1>7, <1>8
<1> QED BY <1>4, <1>7, <1>9

\* Where a clear frame begins the parser is not in another.
LEMMA AtStart ==
  ASSUME IInv, NEW flow, SourceInv(flow), ContentInv(flow), PipeInv(flow), CandidateInv(flow),
         AlignInv, NEW n \in Numbers, Clear(n), Parsed = starts[n]
  PROVE  state = "SYNC1"
<1> SUFFICES ASSUME state # "SYNC1" PROVE FALSE
  OBVIOUS
<1>1. /\ Held \in Nat /\ Held < FrameMax /\ Begun \in Nat /\ Parsed \in Nat /\ Parsed <= stored
      /\ stored \in Nat /\ Begun + Held = Parsed
  <2>1. /\ Held \in Nat /\ Held < FrameMax /\ Begun \in Nat /\ Parsed \in Nat /\ stored \in Nat
        /\ Parsed <= stored
    BY HeldFacts, PipeSizes DEF PipeInv, CandidateInv
  <2>2. Begun = Parsed - Held
    BY DEF Begun
  <2> QED BY <2>1, <2>2
<1>2. Held >= 1
  BY HeldFacts, PipeSizes
<1>3. Begun < starts[n]
  BY <1>1, <1>2
<1>4. PICK k \in Numbers : k < n /\ k + 1 \in Numbers /\ starts[k] <= Begun /\ Begun < starts[k + 1]
  BY <1>1, <1>3, SegmentOf
<1>5. n \in Nat /\ k \in Nat /\ Len(sent) \in Nat /\ n <= Len(sent) /\ k + 1 <= n /\ k < Len(sent)
  <2>1. n \in Nat /\ k \in Nat /\ Len(sent) \in Nat /\ n <= Len(sent)
    BY LenProperties DEF Numbers, IInv, KindsInv
  <2> QED BY <1>4, <2>1
<1>6. starts[n] \in Nat /\ starts[k] \in Nat /\ starts[k + 1] \in Nat /\ starts[k + 1] <= starts[n]
  <2>1. starts[n] \in Nat /\ starts[k] \in Nat /\ starts[k + 1] \in Nat
    BY <1>4, ElementOfSeq DEF SourceInv, Numbers
  <2> QED BY <1>4, <1>5, <2>1 DEF SourceInv
<1>7. FrameMax \in Nat
  BY SizesAssumption DEF SizesAssumption, FrameMax, HeaderUnits
<1>8. k \notin hurt
  <2> SUFFICES ASSUME k \in hurt PROVE FALSE
    OBVIOUS
  <2>1. starts[n] - starts[k + 1] >= FrameMax
    BY <1>4 DEF Clear
  <2> QED BY <1>1, <1>4, <1>6, <1>7, <2>1
<1>9. EndOf(k) = starts[k + 1]
  BY <1>5 DEF EndOf
<1>10. SyncFree(sent[k].payload)
  <2>1. k \in 1 .. n
    BY <1>4, <1>5 DEF Numbers
  <2> QED BY <2>1 DEF Clear
<1>11. Len(sent[k].payload) \in Nat /\ starts[k + 1] = starts[k] + Len(sent[k].payload) + 5
  <2>1. k \in Numbers \ hurt /\ EndOf(k) \in Nat
    BY <1>4, <1>6, <1>8, <1>9
  <2>2. /\ EndOf(k) <= starts[k] + Len(Whole(k))
        /\ EndOf(k) < starts[k] + Len(Whole(k)) => k = Len(sent)
    BY <2>1, FrameFacts
  <2>3. Len(Whole(k)) = Len(sent[k].payload) + 5 /\ Len(sent[k].payload) \in Nat
    BY <1>4, WholeUnits
  <2>4. k # Len(sent)
    BY <1>5
  <2> DEFINE l == Len(sent[k].payload)
             w == Len(Whole(k))
  <2>5. l \in Nat /\ w = l + 5 /\ ~(starts[k + 1] < starts[k] + w) /\ starts[k + 1] <= starts[k] + w
    BY <1>9, <2>2, <2>3, <2>4
  <2> HIDE DEF l, w
  <2>6. starts[k + 1] = starts[k] + l + 5
    BY <1>6, <2>5
  <2> QED BY <2>5, <2>6 DEF l
<1> DEFINE l == Len(sent[k].payload)
<1>12. k \in Numbers \ hurt
  BY <1>4, <1>8
<1>13. CASE state = "SYNC2"
  <2>1. Held = 1 /\ flow[Begun + 1] = Sync1
    BY <1>13, HeldFacts DEF CandidateInv
  <2>2. l \in Nat /\ l + 5 \in Nat /\ l + 5 >= 1 /\ starts[k] + (l + 5) = Begun + 1
        /\ starts[k] + (l + 5) <= starts[k + 1]
    <3> HIDE DEF l
    <3>1. l \in Nat /\ starts[k + 1] = starts[k] + l + 5
      BY <1>11 DEF l
    <3> QED BY <1>1, <1>3, <1>4, <1>6, <2>1, <3>1
  <2>3. flow[starts[k] + (l + 5)] = Whole(k)[l + 5]
    BY <1>9, <1>12, <2>2, FrameUnit
  <2>4. Whole(k)[l + 5] = Check(k)
    BY <1>4, WholeUnits
  <2>5. Check(k) > 100 /\ Sync1 <= 100 /\ Sync1 \in Nat /\ Check(k) \in Nat
    <3>1. k >= 1
      BY <1>4 DEF Numbers
    <3>2. Sync1 <= 100 /\ Sync1 \in Nat
      BY UnitsAssumption, FramesAssumption DEF UnitsAssumption, FramesAssumption
    <3> QED BY <1>5, <3>1, <3>2 DEF Check
  <2>6. Check(k) = Sync1
    BY <2>1, <2>2, <2>3, <2>4
  <2> QED BY <2>5, <2>6
<1>14. CASE state # "SYNC2"
  <2>1. Begun = starts[k]
    BY <1>4, <1>9, <1>10, <1>12, <1>14 DEF AlignInv
  <2>2. CASE state = "HEADER"
    <3>1. Held = 2 + Len(header) /\ Len(header) < 2 /\ Len(header) \in Nat
      BY <2>2, HeldFacts, PipeSizes
    <3>2. Held < 4
      <4> DEFINE h == Len(header)
      <4>1. Held = 2 + h /\ h < 2 /\ h \in Nat
        BY <3>1
      <4> HIDE DEF h
      <4> QED BY <4>1
    <3> HIDE DEF l
    <3>3. l \in Nat /\ starts[k + 1] = starts[k] + l + 5
      BY <1>11 DEF l
    <3> QED BY <1>1, <1>6, <2>1, <3>2, <3>3
  <2>3. CASE state \in {"PAYLOAD", "CHECKSUM"}
    <3>1. Held = 4 + Len(payload) /\ Len(payload) \in Nat /\ Len(payload) <= header[2]
      BY <2>3, HeldFacts, PipeSizes
    <3>2. header[2] = flow[starts[k] + 4]
      BY <2>1, <2>3 DEF CandidateInv
    <3>3. starts[k] + 4 <= EndOf(k) /\ l \in Nat
      <4> HIDE DEF l
      <4>1. l \in Nat /\ starts[k + 1] = starts[k] + l + 5
        BY <1>11 DEF l
      <4> QED BY <1>6, <1>9, <4>1
    <3>4. flow[starts[k] + 4] = Whole(k)[4]
      BY <1>12, <3>3, FrameUnit
    <3>5. Whole(k)[4] = l
      BY <1>4, WholeUnits
    <3>6. Len(payload) <= l
      BY <3>1, <3>2, <3>4, <3>5
    <3> DEFINE p == Len(payload)
    <3>7. p \in Nat /\ p <= l /\ Held = 4 + p /\ l \in Nat /\ starts[k + 1] = starts[k] + l + 5
      BY <1>11, <3>1, <3>6
    <3> HIDE DEF l, p
    <3> QED BY <1>1, <1>6, <2>1, <3>7
  <2> QED BY <1>14, <2>2, <2>3, HeldFacts
<1> QED BY <1>13, <1>14

\* What is sent or stored after them moves nothing of what the parser has met.
ParserInv == AlignInv /\ TrackInv /\ TakenInv

\* A frame that is clear after a fault was clear before it.
LEMMA ClearBefore ==
  ASSUME NEW n \in Numbers, Clear(n)', Numbers \subseteq Numbers', hurt \subseteq hurt',
         \A k \in Numbers : sent'[k] = sent[k] /\ starts'[k] = starts[k],
         hurt \subseteq Numbers, Len(sent) \in Nat
  PROVE  Clear(n)
<1>1. n \in Nat /\ n <= Len(sent)
  BY DEF Numbers
<1>2. n \in Numbers \ hurt /\ Len(sent[n].payload) <= MaxPayload
  BY DEF Clear
<1>3. ASSUME NEW m \in 1 .. n PROVE SyncFree(sent[m].payload)
  <2>1. m \in Numbers
    BY <1>1 DEF Numbers
  <2>2. SyncFree(sent'[m].payload)
    BY DEF Clear
  <2> QED BY <2>1, <2>2
<1>4. ASSUME NEW m \in hurt, m < n PROVE starts[n] - starts[m + 1] >= FrameMax
  <2>1. m \in Numbers /\ m + 1 \in Numbers
    <3>1. m \in Numbers /\ m \in Nat /\ m >= 1
      BY DEF Numbers
    <3> QED BY <1>1, <1>4, <3>1 DEF Numbers
  <2>2. starts'[n] - starts'[m + 1] >= FrameMax
    BY <1>4 DEF Clear
  <2> QED BY <2>1, <2>2
<1> QED BY <1>2, <1>3, <1>4 DEF Clear

LEMMA ParserSend ==
  ASSUME IInv, NEW flow, StreamInv(flow), PipeInv(flow), CandidateInv(flow), ParserInv,
         NEW frame \in Frames, NEW units, Transmit(frame, units), Sends(frame, units),
         NEW n, n = Len(sent) + 1
  PROVE  ParserInv'
<1> USE DEF StreamInv, ParserInv
<1>1. /\ Len(sent) \in Nat /\ Numbers' = Numbers \cup {n} /\ n \notin Numbers
      /\ \A k \in Numbers : /\ sent'[k] = sent[k] /\ starts'[k] = starts[k]
                            /\ EndOf(k)' = EndOf(k) /\ Whole(k)' = Whole(k)
      /\ starts'[n] = stored /\ EndOf(n)' = stored /\ Whole(n)' = Line(n, frame)
      /\ UNCHANGED <<ring, batch, parser, outcome, stored>>
  BY TransmitFacts
<1>2. state' = state /\ Parsed' = Parsed /\ Held' = Held /\ Begun' = Begun /\ accepted' = accepted
  BY <1>1 DEF parser, outcome, Parsed, Held, Begun
<1>3. hurt \subseteq hurt' /\ hurt \subseteq Numbers
  BY DEF Sends, Hurt, SourceInv
<1>4. Parsed \in Nat /\ Parsed <= stored /\ Begun \in Nat /\ Held \in Nat /\ Begun + Held = Parsed
      /\ stored \in Nat
  <2>1. Parsed \in Nat /\ Parsed <= stored /\ Begun \in Nat /\ Held \in Nat /\ stored \in Nat
    BY PipeSizes DEF PipeInv, CandidateInv
  <2>2. Begun = Parsed - Held
    BY DEF Begun
  <2> QED BY <2>1, <2>2
<1>5. Len(Line(n, frame)) \in Nat /\ Len(Line(n, frame)) > 0
  <2>1. n \in Nat
    BY <1>1
  <2>2. Len(frame.payload) \in Nat /\ Len(Line(n, frame)) = Len(frame.payload) + 5
    BY <2>1, LineUnits
  <2> DEFINE l == Len(Line(n, frame))
  <2>3. l \in Nat /\ l > 0
    BY <2>2
  <2> QED BY <2>3
<1>6. \A k \in Numbers : Clear(k)' => Clear(k)
  BY <1>1, <1>3, ClearBefore
<1>7. AlignInv'
  <2>1. ASSUME state \notin {"SYNC1", "SYNC2"}, NEW k \in Numbers' \ hurt',
               starts'[k] <= Begun, Begun < EndOf(k)', SyncFree(sent'[k].payload)
        PROVE  Begun = starts'[k]
    <3>1. CASE k = n
      BY <1>1, <1>4, <2>1, <3>1
    <3>2. CASE k # n
      <4>1. k \in Numbers \ hurt
        BY <1>1, <1>3, <3>2
      <4> QED BY <1>1, <2>1, <4>1 DEF AlignInv
    <3> QED BY <3>1, <3>2
  <2> QED BY <1>2, <2>1 DEF AlignInv
<1>8. TrackInv'
  <2>1. ASSUME NEW k \in Numbers', Clear(k)', starts'[k] < Parsed,
               Parsed < starts'[k] + Len(Whole(k)')
        PROVE  Begun = starts'[k]
    <3>1. CASE k = n
      BY <1>1, <1>4, <2>1, <3>1
    <3>2. CASE k # n
      <4>1. k \in Numbers
        BY <1>1, <3>2
      <4> QED BY <1>1, <1>6, <2>1, <4>1 DEF TrackInv
    <3> QED BY <3>1, <3>2
  <2> QED BY <1>2, <2>1 DEF TrackInv
<1>9. TakenInv'
  <2>1. ASSUME NEW k \in Numbers', Clear(k)', Parsed >= starts'[k] + Len(Whole(k)')
        PROVE  k \in accepted
    <3>1. CASE k = n
      <4>1. Parsed >= stored + Len(Line(n, frame))
        BY <1>1, <2>1, <3>1
      <4> QED BY <1>4, <1>5, <4>1
    <3>2. CASE k # n
      <4>1. k \in Numbers
        BY <1>1, <3>2
      <4> QED BY <1>1, <1>6, <2>1, <4>1 DEF TakenInv
    <3> QED BY <3>1, <3>2
  <2> QED BY <1>2, <2>1 DEF TakenInv
<1> QED BY <1>7, <1>8, <1>9

\* Nor does the interrupt.
LEMMA ParserIsr ==
  ASSUME IInv, NEW flow, StreamInv(flow), PipeInv(flow), CandidateInv(flow), ParserInv,
         NEW read \in Nat, NEW fits \in Nat, NEW more, Takes(flow, read, fits, more),
         Parsed' = Parsed
  PROVE  ParserInv'
<1> USE DEF StreamInv, ParserInv
<1>1. sent' = sent /\ starts' = starts /\ UNCHANGED parser /\ UNCHANGED outcome
      /\ hurt \subseteq hurt' /\ stored' = stored + fits /\ stored \in Nat
      /\ Numbers' = Numbers
  BY DEF Takes, Hurt, Numbers
<1>2. state' = state /\ Held' = Held /\ Begun' = Begun /\ accepted' = accepted
  BY <1>1 DEF parser, outcome, Held, Begun
<1>3. hurt \subseteq Numbers /\ Len(sent) \in Nat
  BY LenProperties DEF SourceInv, IInv, KindsInv
<1>4. \A k \in Numbers : Clear(k)' => Clear(k)
  BY <1>1, <1>3, ClearBefore
<1>5. \A k : Whole(k)' = Whole(k)
  BY <1>1 DEF Whole
<1>6. AlignInv'
  <2>1. ASSUME state \notin {"SYNC1", "SYNC2"}, NEW k \in Numbers \ hurt',
               starts[k] <= Begun, Begun < EndOf(k)', SyncFree(sent[k].payload)
        PROVE  Begun = starts[k]
    <3>1. k \in Numbers \ hurt
      BY <1>1
    <3>2. Begun < EndOf(k)
      <4>1. CASE k < Len(sent)
        BY <1>1, <2>1, <4>1 DEF EndOf
      <4>2. CASE ~(k < Len(sent))
        <5>1. EndOf(k) = stored
          BY <4>2 DEF EndOf
        <5>2. Held \in Nat /\ Parsed \in Nat /\ Parsed <= stored
          BY PipeSizes DEF PipeInv
        <5>3. Held >= 1
          BY <2>1, HeldFacts, PipeSizes
        <5>4. Begun = Parsed - Held
          BY DEF Begun
        <5> QED BY <1>1, <5>1, <5>2, <5>3, <5>4
      <4> QED BY <4>1, <4>2
    <3> QED BY <2>1, <3>1, <3>2 DEF AlignInv
  <2> QED BY <1>1, <1>2, <2>1 DEF AlignInv
<1>7. TrackInv'
  BY <1>1, <1>2, <1>4, <1>5 DEF TrackInv
<1>8. TakenInv'
  BY <1>1, <1>2, <1>4, <1>5 DEF TakenInv
<1> QED BY <1>6, <1>7, <1>8

\* The unit the parser takes, within a frame that no fault has hit.
LEMMA NextUnit ==
  ASSUME IInv, NEW flow, SourceInv(flow), ContentInv(flow), PipeInv(flow), NEW in, RxUnit(in),
         NEW n \in Numbers \ hurt, NEW i \in Nat, i >= 1, Parsed + 1 = starts[n] + i,
         i <= Len(Whole(n))
  PROVE  Unit = Whole(n)[i] /\ starts[n] + i <= EndOf(n)
<1>1. /\ Parsed + 1 <= stored /\ Unit = flow[Parsed + 1]
  BY PipeUnit
<1>2. /\ starts[n] \in Nat /\ EndOf(n) \in Nat /\ Len(Whole(n)) \in Nat
      /\ EndOf(n) < starts[n] + Len(Whole(n)) => EndOf(n) = stored
  BY FrameFacts
<1>3. starts[n] + i <= EndOf(n)
  <2>1. CASE EndOf(n) < starts[n] + Len(Whole(n))
    BY <1>1, <1>2, <2>1
  <2>2. CASE ~(EndOf(n) < starts[n] + Len(Whole(n)))
    <3> DEFINE w == Len(Whole(n))
    <3>1. w \in Nat /\ i <= w /\ ~(EndOf(n) < starts[n] + w)
      BY <1>2, <2>2
    <3> HIDE DEF w
    <3> QED BY <1>2, <3>1
  <2> QED BY <2>1, <2>2
<1>4. flow[starts[n] + i] = Whole(n)[i]
  BY <1>3, FrameUnit
<1> QED BY <1>1, <1>3, <1>4

\* What a unit must do for the parser to follow the frames it can.
Follows ==
  \A n \in Numbers :
    Clear(n) =>
      /\ state = "SYNC1" /\ Unit = Sync1 => Begun' = Parsed
      /\ /\ Begun = starts[n] /\ starts[n] < Parsed
         /\ Parsed + 1 < starts[n] + Len(Whole(n))
         => Begun' = Begun
      /\ /\ Begun = starts[n] /\ starts[n] < Parsed
         /\ Parsed + 1 = starts[n] + Len(Whole(n))
         => n \in accepted'

LEMMA ParserStep ==
  ASSUME IInv, NEW flow, StreamInv(flow), PipeInv(flow), CandidateInv(flow), ParserInv,
         NEW in, RxUnit(in), AlignInv', Follows, accepted \subseteq accepted'
  PROVE  ParserInv'
<1> USE DEF StreamInv, ParserInv
<1>1. Parsed' = Parsed + 1 /\ Parsed \in Nat /\ UNCHANGED <<sent, line, starts, stored, hurt, faults>>
  BY PipeUnit DEF PipeInv
<1>2. /\ Numbers' = Numbers
      /\ \A n : Clear(n)' <=> Clear(n)
      /\ \A n : Whole(n)' = Whole(n)
  BY <1>1 DEF Numbers, Clear, Whole
<1>3. ASSUME NEW n \in Numbers, Clear(n)
      PROVE  /\ starts[n] < Parsed + 1 /\ Parsed + 1 < starts[n] + Len(Whole(n)) => Begun' = starts[n]
             /\ Parsed + 1 >= starts[n] + Len(Whole(n)) => n \in accepted'
  <2>1. n \in Numbers \ hurt
    BY <1>3 DEF Clear
  <2>2. /\ starts[n] \in Nat /\ Len(Whole(n)) \in Nat
    BY <2>1, FrameFacts
  <2>3. Len(Whole(n)) >= 5 /\ Whole(n)[1] = Sync1
    <3>1. Len(sent[n].payload) \in Nat /\ Len(Whole(n)) = Len(sent[n].payload) + 5 /\ Whole(n)[1] = Sync1
      BY WholeUnits
    <3> DEFINE l == Len(sent[n].payload)
    <3>2. l \in Nat /\ l + 5 >= 5
      BY <3>1
    <3> QED BY <3>1, <3>2
  <2> DEFINE w == Len(Whole(n))
  <2>4. w \in Nat /\ w >= 5
    BY <2>2, <2>3
  <2>5. CASE Parsed < starts[n]
    <3>1. ~(starts[n] < Parsed + 1) /\ ~(Parsed + 1 >= starts[n] + w)
      <4> HIDE DEF w
      <4> QED BY <1>1, <2>2, <2>4, <2>5
    <3> QED BY <3>1
  <2>6. CASE Parsed = starts[n]
    <3>1. state = "SYNC1"
      BY <1>3, <2>6, AtStart
    <3>2. Unit = Sync1
      <4>1. Parsed + 1 = starts[n] + 1 /\ 1 <= Len(Whole(n)) /\ 1 \in Nat /\ 1 >= 1
        <5>1. 1 <= w
          <6> HIDE DEF w
          <6> QED BY <2>4
        <5> QED BY <2>6, <5>1
      <4> QED BY <2>1, <2>3, <4>1, NextUnit
    <3>3. Begun' = starts[n]
      BY <1>3, <2>6, <3>1, <3>2 DEF Follows
    <3>4. ~(Parsed + 1 >= starts[n] + w)
      <4> HIDE DEF w
      <4> QED BY <2>2, <2>4, <2>6
    <3> QED BY <3>3, <3>4
  <2>7. CASE Parsed > starts[n]
    <3>1. CASE Parsed >= starts[n] + w
      <4>1. n \in accepted
        BY <1>3, <3>1 DEF TakenInv
      <4>2. ~(Parsed + 1 < starts[n] + w)
        <5> HIDE DEF w
        <5> QED BY <1>1, <2>2, <2>4, <3>1
      <4> QED BY <4>1, <4>2
    <3>2. CASE ~(Parsed >= starts[n] + w)
      <4>1. /\ Parsed < starts[n] + w /\ starts[n] < Parsed
            /\ Parsed + 1 >= starts[n] + w => Parsed + 1 = starts[n] + w
        <5> HIDE DEF w
        <5> QED BY <1>1, <2>2, <2>4, <2>7, <3>2
      <4>2. Begun = starts[n]
        BY <1>3, <4>1 DEF TrackInv
      <4> QED BY <1>3, <4>1, <4>2 DEF Follows
    <3> QED BY <3>1, <3>2
  <2> QED BY <1>1, <2>2, <2>5, <2>6, <2>7
<1>4. TrackInv'
  BY <1>1, <1>2, <1>3 DEF TrackInv
<1>5. TakenInv'
  BY <1>1, <1>2, <1>3 DEF TakenInv
<1> QED BY <1>4, <1>5

\* How far the parser is in a frame it follows.
LEMMA Place ==
  ASSUME IInv, NEW flow, SourceInv(flow), PipeInv(flow), CandidateInv(flow)
  PROVE  Parsed = Begun + Held /\ Begun \in Nat /\ Held \in Nat /\ Parsed \in Nat
<1>1. Begun \in Nat /\ Held \in Nat /\ Parsed \in Nat
  BY PipeSizes DEF PipeInv, CandidateInv
<1>2. Begun = Parsed - Held
  BY DEF Begun
<1> QED BY <1>1, <1>2

LEMMA ParserSync1 ==
  ASSUME IInv, NEW flow, StreamInv(flow), PipeInv(flow), CandidateInv(flow), ParserInv, RxSync1
  PROVE  ParserInv'
<1> USE DEF StreamInv
<1>1. RxUnit("SYNC1") /\ state = "SYNC1" /\ accepted' = accepted
  BY DEF RxSync1, RxUnit, outcome
<1>2. AlignInv'
  BY CandidateSync1 DEF AlignInv
<1>3. Begun = Parsed
  <2>1. Held = 0
    BY <1>1 DEF Held
  <2> QED BY <2>1, Place
<1>4. Unit = Sync1 => Begun' = Parsed
  <2> HAVE Unit = Sync1
  <2>1. state' = "SYNC2"
    BY DEF RxSync1
  <2>2. Held' = 1 /\ Begun' = Parsed' - Held'
    BY <2>1 DEF Held, Begun
  <2>3. Parsed' = Parsed + 1 /\ Parsed \in Nat
    BY <1>1, PipeUnit, Place
  <2> QED BY <2>2, <2>3
<1>5. Follows
  <2>1. Parsed \in Nat
    BY Place
  <2> QED BY <1>3, <1>4, <2>1 DEF Follows
<1> QED BY <1>1, <1>2, <1>5, ParserStep

LEMMA ParserSync2 ==
  ASSUME IInv, NEW flow, StreamInv(flow), PipeInv(flow), CandidateInv(flow), ParserInv, RxSync2
  PROVE  ParserInv'
<1> USE DEF StreamInv
<1>1. RxUnit("SYNC2") /\ state = "SYNC2" /\ accepted' = accepted
  BY DEF RxSync2, RxUnit, outcome
<1>2. /\ Parsed = Begun + 1 /\ Begun \in Nat
      /\ Unit # Sync2 => state' \in {"SYNC1", "SYNC2"}
      /\ Unit = Sync2 => state' = "HEADER" /\ Begun' = Begun
  BY CandidateSync2, Place
<1>3. /\ Parsed + 1 <= stored /\ Unit = flow[Parsed + 1]
      /\ UNCHANGED <<sent, line, starts, stored, hurt, faults>>
  BY <1>1, PipeUnit
<1>4. AlignInv'
  <2>1. CASE Unit # Sync2
    BY <1>2, <2>1 DEF AlignInv
  <2>2. CASE Unit = Sync2
    <3>1. flow[Begun + 1] = Sync1
      BY <1>1 DEF CandidateInv
    <3>2. flow[Begun + 2] = Sync2 /\ Begun + 2 <= stored
      <4>1. Parsed + 1 = Begun + 2
        BY <1>2
      <4> QED BY <1>3, <2>2, <4>1
    <3>3. ASSUME NEW k \in Numbers \ hurt, starts[k] <= Begun, Begun < EndOf(k),
                 SyncFree(sent[k].payload)
          PROVE  Begun = starts[k]
      BY <1>2, <3>1, <3>2, <3>3, SyncFound
    <3>4. Numbers' = Numbers /\ (\A k : EndOf(k)' = EndOf(k)) /\ Begun' = Begun
      BY <1>2, <1>3, <2>2 DEF Numbers, EndOf
    <3> QED BY <1>3, <3>3, <3>4 DEF AlignInv
  <2> QED BY <2>1, <2>2
<1>5. ASSUME NEW n \in Numbers, Clear(n), Begun = starts[n], starts[n] < Parsed
      PROVE  /\ Unit = Sync2 /\ Parsed + 1 # starts[n] + Len(Whole(n))
  <2>1. n \in Numbers \ hurt
    BY <1>5 DEF Clear
  <2>2. Len(sent[n].payload) \in Nat /\ Len(Whole(n)) = Len(sent[n].payload) + 5 /\ Whole(n)[2] = Sync2
    BY WholeUnits
  <2> DEFINE l == Len(sent[n].payload)
  <2>3. l \in Nat
    BY <2>2
  <2>4. Parsed + 1 = starts[n] + 2 /\ 2 <= l + 5 /\ Parsed + 1 # starts[n] + (l + 5)
    <3>1. starts[n] \in Nat
      BY <1>2, <1>5
    <3> HIDE DEF l
    <3> QED BY <1>2, <1>5, <2>3, <3>1
  <2>5. 2 \in Nat /\ 2 >= 1 /\ 2 <= Len(Whole(n))
    BY <2>2, <2>4
  <2>6. Unit = Whole(n)[2]
    BY <1>1, <2>1, <2>4, <2>5, NextUnit
  <2> QED BY <2>2, <2>4, <2>6
<1>6. Follows
  BY <1>1, <1>2, <1>5 DEF Follows
<1> QED BY <1>1, <1>4, <1>6, ParserStep

LEMMA ParserHeader ==
  ASSUME IInv, NEW flow, StreamInv(flow), PipeInv(flow), CandidateInv(flow), ParserInv, RxHeader
  PROVE  ParserInv'
<1> USE DEF StreamInv
<1>1. RxUnit("HEADER") /\ state = "HEADER" /\ accepted' = accepted
  BY DEF RxHeader, RxUnit, outcome
<1>2. /\ Parsed = Begun + 2 + Len(header) /\ Begun \in Nat
      /\ state' # "SYNC1" => state' \in {"HEADER", "PAYLOAD", "CHECKSUM"} /\ Begun' = Begun
      /\ state' = "SYNC1" => Len(header) = 1 /\ ~LengthOk(Unit)
  BY CandidateHeader, Place
<1>3. /\ UNCHANGED <<sent, line, starts, stored, hurt, faults>>
  BY <1>1, PipeUnit
<1>4. AlignInv'
  <2>1. CASE state' = "SYNC1"
    BY <2>1 DEF AlignInv
  <2>2. CASE state' # "SYNC1"
    <3>1. Numbers' = Numbers /\ (\A k : EndOf(k)' = EndOf(k)) /\ Begun' = Begun
      BY <1>2, <1>3, <2>2 DEF Numbers, EndOf
    <3> QED BY <1>1, <1>3, <3>1 DEF AlignInv, ParserInv
  <2> QED BY <2>1, <2>2
<1>5. ASSUME NEW n \in Numbers, Clear(n), Begun = starts[n], starts[n] < Parsed
      PROVE  /\ state' # "SYNC1" /\ Parsed + 1 # starts[n] + Len(Whole(n))
  <2>1. n \in Numbers \ hurt /\ Len(sent[n].payload) <= MaxPayload
    BY <1>5 DEF Clear
  <2>2. Len(sent[n].payload) \in Nat /\ Len(Whole(n)) = Len(sent[n].payload) + 5
        /\ Whole(n)[4] = Len(sent[n].payload)
    BY WholeUnits
  <2> DEFINE l == Len(sent[n].payload)
             h == Len(header)
  <2>3. l \in Nat /\ h \in Nat /\ h < 2
    BY <1>1, <2>2, HeldFacts, PipeSizes
  <2>4. Parsed + 1 # starts[n] + (l + 5) /\ (h = 1 => Parsed + 1 = starts[n] + 4) /\ 4 <= l + 5
    <3>1. starts[n] \in Nat /\ Parsed = starts[n] + 2 + h
      BY <1>2, <1>5
    <3> HIDE DEF l, h
    <3> QED BY <2>3, <3>1
  <2>5. CASE state' = "SYNC1"
    <3>1. Parsed + 1 = starts[n] + 4 /\ 4 \in Nat /\ 4 >= 1 /\ 4 <= Len(Whole(n))
      BY <1>2, <2>2, <2>4, <2>5
    <3>2. Unit = Whole(n)[4]
      BY <1>1, <2>1, <3>1, NextUnit
    <3> QED BY <1>2, <2>1, <2>2, <2>5, <3>2 DEF LengthOk
  <2> QED BY <2>2, <2>4, <2>5
<1>6. Follows
  BY <1>1, <1>2, <1>5 DEF Follows
<1> QED BY <1>1, <1>4, <1>6, ParserStep

\* What the header and the payload say of a frame the parser follows.
LEMMA HeldPayload ==
  ASSUME IInv, NEW flow, SourceInv(flow), ContentInv(flow), PipeInv(flow), CandidateInv(flow),
         state \in {"PAYLOAD", "CHECKSUM"}, NEW n \in Numbers \ hurt, Begun = starts[n],
         NEW in, RxUnit(in)
  PROVE  /\ header[1] = sent[n].kind /\ header[2] = Len(sent[n].payload)
         /\ \A i \in 1 .. Len(payload) : payload[i] = sent[n].payload[i]
<1>1. /\ Held = 4 + Len(payload) /\ Len(payload) \in Nat /\ Len(payload) <= header[2]
      /\ header[2] \in Nat
  BY HeldFacts, PipeSizes
<1>2. /\ Parsed = Begun + Held /\ Begun \in Nat /\ Parsed + 1 <= stored /\ Parsed \in Nat
  BY Place, PipeUnit
<1>3. /\ flow[Begun + 3] = header[1] /\ flow[Begun + 4] = header[2]
      /\ \A i \in 1 .. Len(payload) : flow[Begun + 4 + i] = payload[i]
  BY DEF CandidateInv
<1>4. /\ Len(sent[n].payload) \in Nat /\ Len(Whole(n)) = Len(sent[n].payload) + 5
      /\ Whole(n)[3] = sent[n].kind /\ Whole(n)[4] = Len(sent[n].payload)
      /\ \A i \in 1 .. Len(sent[n].payload) : Whole(n)[4 + i] = sent[n].payload[i]
  BY WholeUnits
<1>5. /\ starts[n] \in Nat /\ EndOf(n) \in Nat /\ Len(Whole(n)) \in Nat /\ stored \in Nat
      /\ EndOf(n) < starts[n] + Len(Whole(n)) => EndOf(n) = stored
  BY FrameFacts, PipeSizes
<1> DEFINE l == Len(sent[n].payload)
           p == Len(payload)
<1>6. /\ l \in Nat /\ p \in Nat /\ Parsed = starts[n] + (4 + p)
      /\ EndOf(n) < starts[n] + (l + 5) => EndOf(n) >= stored
      /\ stored \in Nat /\ EndOf(n) \in Nat /\ starts[n] \in Nat /\ Parsed + 1 <= stored
  BY <1>1, <1>2, <1>4, <1>5
<1> HIDE DEF l, p
<1>7. starts[n] + 3 <= EndOf(n) /\ starts[n] + 4 <= EndOf(n)
  <2>1. CASE EndOf(n) < starts[n] + (l + 5)
    BY <1>6, <2>1
  <2>2. CASE ~(EndOf(n) < starts[n] + (l + 5))
    BY <1>6, <2>2
  <2> QED BY <2>1, <2>2
<1>8. flow[starts[n] + 3] = Whole(n)[3] /\ flow[starts[n] + 4] = Whole(n)[4]
  BY <1>7, FrameUnit
<1>9. header[1] = sent[n].kind /\ header[2] = l
  BY <1>3, <1>4, <1>8 DEF l
<1>10. ASSUME NEW i \in 1 .. Len(payload)
       PROVE  payload[i] = sent[n].payload[i]
  <2>1. i \in 1 .. p /\ p <= l
    BY <1>1, <1>9 DEF p
  <2>2. i \in 1 .. l /\ 4 + i \in Nat /\ 4 + i >= 1
    BY <1>6, <2>1
  <2>3. starts[n] + (4 + i) <= EndOf(n) /\ starts[n] + (4 + i) = starts[n] + 4 + i
    <3>1. CASE EndOf(n) < starts[n] + (l + 5)
      BY <1>6, <2>1, <3>1, SMTT(30)
    <3>2. CASE ~(EndOf(n) < starts[n] + (l + 5))
      BY <1>6, <2>1, <3>2, SMTT(30)
    <3> QED BY <3>1, <3>2
  <2>4. flow[starts[n] + (4 + i)] = Whole(n)[4 + i]
    BY <2>2, <2>3, FrameUnit
  <2>5. Whole(n)[4 + i] = sent[n].payload[i]
    BY <1>4, <2>2 DEF l
  <2>6. flow[Begun + 4 + i] = payload[i]
    BY <1>3
  <2> QED BY <2>3, <2>4, <2>5, <2>6
<1> QED BY <1>9, <1>10 DEF l

LEMMA ParserPayload ==
  ASSUME IInv, NEW flow, StreamInv(flow), PipeInv(flow), CandidateInv(flow), ParserInv, RxPayload
  PROVE  ParserInv'
<1> USE DEF StreamInv
<1>1. RxUnit("PAYLOAD") /\ state = "PAYLOAD" /\ accepted' = accepted
  BY DEF RxPayload, RxUnit, outcome
<1>2. Begun' = Begun
  BY CandidatePayload
<1>3. /\ UNCHANGED <<sent, line, starts, stored, hurt, faults>>
  BY <1>1, PipeUnit
<1>4. AlignInv'
  <2>1. Numbers' = Numbers /\ (\A k : EndOf(k)' = EndOf(k)) /\ Begun' = Begun
    BY <1>2, <1>3 DEF Numbers, EndOf
  <2> QED BY <1>1, <1>3, <2>1 DEF AlignInv, ParserInv
<1>5. ASSUME NEW n \in Numbers, Clear(n), Begun = starts[n]
      PROVE  Parsed + 1 # starts[n] + Len(Whole(n))
  <2>1. n \in Numbers \ hurt
    BY <1>5 DEF Clear
  <2>2. Len(sent[n].payload) \in Nat /\ Len(Whole(n)) = Len(sent[n].payload) + 5
    BY WholeUnits
  <2>3. header[2] = Len(sent[n].payload)
    BY <1>1, <1>5, <2>1, HeldPayload
  <2>4. Held = 4 + Len(payload) /\ Len(payload) < header[2] /\ Len(payload) \in Nat
    BY <1>1, HeldFacts, PipeSizes
  <2> DEFINE l == Len(sent[n].payload)
             p == Len(payload)
  <2>5. l \in Nat /\ p \in Nat /\ p < l /\ Held = 4 + p /\ Parsed = starts[n] + Held /\ starts[n] \in Nat
    BY <1>5, <2>2, <2>3, <2>4, Place
  <2>6. Parsed + 1 # starts[n] + (l + 5)
    <3> HIDE DEF l, p
    <3> QED BY <2>5
  <2> QED BY <2>2, <2>6
<1>6. Follows
  BY <1>1, <1>2, <1>5 DEF Follows
<1> QED BY <1>1, <1>4, <1>6, ParserStep

LEMMA ParserChecksum ==
  ASSUME IInv, NEW flow, StreamInv(flow), PipeInv(flow), CandidateInv(flow), ParserInv, RxChecksum
  PROVE  ParserInv'
<1> USE DEF StreamInv
<1>1. /\ RxUnit("CHECKSUM") /\ state = "CHECKSUM" /\ accepted \subseteq accepted'
      /\ Matches(Unit) => Unit - 100 \in accepted'
  BY DEF RxChecksum, RxUnit, outcome
<1>2. AlignInv'
  BY CandidateChecksum DEF AlignInv
<1>3. ASSUME NEW n \in Numbers, Clear(n), Begun = starts[n]
      PROVE  /\ ~(Parsed + 1 < starts[n] + Len(Whole(n)))
             /\ Parsed + 1 = starts[n] + Len(Whole(n)) => n \in accepted'
  <2>1. n \in Numbers \ hurt
    BY <1>3 DEF Clear
  <2>2. /\ Len(sent[n].payload) \in Nat /\ Len(Whole(n)) = Len(sent[n].payload) + 5
        /\ Whole(n)[Len(sent[n].payload) + 5] = Check(n) /\ n \in Nat
    BY WholeUnits
  <2>3. /\ header[1] = sent[n].kind /\ header[2] = Len(sent[n].payload)
        /\ \A i \in 1 .. Len(payload) : payload[i] = sent[n].payload[i]
    BY <1>1, <1>3, <2>1, HeldPayload
  <2>4. Held = 4 + Len(payload) /\ Len(payload) = header[2] /\ Len(header) = 2
    BY <1>1, HeldFacts
  <2> DEFINE l == Len(sent[n].payload)
  <2>5. l \in Nat /\ Held = 4 + l /\ Parsed = starts[n] + Held /\ starts[n] \in Nat
    BY <1>3, <2>2, <2>3, <2>4, Place
  <2>6. Parsed + 1 = starts[n] + (l + 5) /\ l + 5 \in Nat /\ l + 5 >= 1
        /\ ~(Parsed + 1 < starts[n] + (l + 5)) /\ l + 5 <= l + 5
    <3> HIDE DEF l
    <3> QED BY <2>5
  <2>7. Unit = Check(n)
    <3>1. l + 5 <= Len(Whole(n))
      BY <2>2, <2>6
    <3>2. Unit = Whole(n)[l + 5]
      BY <1>1, <2>1, <2>6, <3>1, NextUnit
    <3> QED BY <2>2, <3>2
  <2>8. Unit - 100 = n
    BY <2>2, <2>7 DEF Check
  <2>9. Matches(Unit)
    <3>1. n \in DOMAIN sent
      BY LenProperties DEF Numbers, IInv, KindsInv
    <3>2. header = <<sent[n].kind, Len(sent[n].payload)>>
      <4>1. header \in Seq(Nat)
        BY DEF IInv, KindsInv
      <4> QED BY <2>3, <2>4, <4>1
    <3>3. payload = sent[n].payload
      <4>1. payload \in Seq(Nat) /\ sent[n].payload \in Seq(Nat)
        <5>1. sent[n] \in Frames
          BY ElementOfSeq, LenProperties DEF IInv, KindsInv, Numbers
        <5> QED BY <5>1, UnitsAssumption DEF UnitsAssumption, IInv, KindsInv
      <4>2. Len(payload) = Len(sent[n].payload)
        BY <2>3, <2>4
      <4> QED BY <2>3, <4>1, <4>2, SeqEqual
    <3> QED BY <2>8, <3>1, <3>2, <3>3 DEF Matches
  <2>10. n \in accepted'
    BY <1>1, <2>8, <2>9
  <2> QED BY <2>2, <2>6, <2>10
<1>4. Follows
  BY <1>1, <1>3 DEF Follows
<1> QED BY <1>1, <1>2, <1>4, ParserStep

-----------------------------------------------------------------------------
(* What is published                                                       *)

TopicInv ==
  topic # <<>> =>
    /\ topic[1] \in Numbers /\ topic[2] \in Fixes(Pvts[sent[topic[1]].payload[1]])
    /\ sent[topic[1]].kind = NavPvt /\ Len(sent[topic[1]].payload) = PvtLen

\* the parser has taken the check of each frame published
PassedInv(flow) ==
  /\ published \in Seq(Numbers)
  /\ \A i \in 1 .. Len(published) : \E q \in 1 .. Parsed : flow[q] = Check(published[i])

\* what PublishedAsSent says of any number of faults
PublishedInOrder ==
  /\ \A i \in 1 .. Len(published) :
       sent[published[i]].kind = NavPvt /\ Len(sent[published[i]].payload) = PvtLen
  /\ \A i, j \in 1 .. Len(published) : i < j => published[i] < published[j]
  /\ published # <<>> => topic # <<>> /\ topic[1] = published[Len(published)]

\* and of one
Undamaged == MaxFaults <= 1 => \A i \in 1 .. Len(published) : published[i] \notin hurt

PublishInv(flow) == TopicInv /\ PassedInv(flow) /\ PublishedInOrder /\ Undamaged

\* A check in the stream ends its frame, and the later one is the later frame's.
LEMMA CheckPlace ==
  ASSUME IInv, NEW flow, StreamInv(flow), NEW k \in Numbers,
         NEW q \in 1 .. stored, flow[q] = Check(k)
  PROVE  /\ q = EndOf(k) /\ starts[k] < q /\ starts[k] \in Nat
         /\ k = Len(sent) => line = <<>>
<1> USE DEF StreamInv
<1>1. k \in Nat /\ k >= 1 /\ k \in 1 .. Len(starts) /\ starts \in Seq(Nat)
  BY LenProperties DEF Numbers, SourceInv, IInv, KindsInv
<1>2. flow[q] > 100 /\ flow[q] - 100 = k
  BY <1>1 DEF Check
<1>3. q \in 1 .. Len(flow)
  BY DEF SourceInv
<1>4. starts[k] \in Nat
  BY <1>1, ElementOfSeq
<1> QED BY <1>2, <1>3, <1>4 DEF ChecksInv

LEMMA LaterCheck ==
  ASSUME IInv, NEW flow, StreamInv(flow), NEW m \in Numbers, NEW n \in Numbers,
         NEW q \in 1 .. stored, NEW r \in 1 .. stored, flow[q] = Check(m), flow[r] = Check(n), q < r
  PROVE  m < n
<1>1. q = EndOf(m) /\ r = EndOf(n) /\ starts[m] < q /\ starts[m] \in Nat /\ stored \in Nat
  BY CheckPlace, PipeSizes DEF StreamInv
<1>2. m \in Nat /\ n \in Nat /\ Len(sent) \in Nat /\ m <= Len(sent) /\ n >= 1
  BY LenProperties DEF Numbers, IInv, KindsInv
<1> SUFFICES ASSUME ~(m < n) PROVE FALSE
  OBVIOUS
<1>3. m # n
  BY <1>1
<1>4. n + 1 <= m /\ n < Len(sent) /\ n + 1 \in Numbers
  BY <1>2, <1>3 DEF Numbers
<1>5. EndOf(n) = starts[n + 1]
  BY <1>4 DEF EndOf
<1>6. starts[n + 1] <= starts[m]
  BY <1>4 DEF StreamInv, SourceInv
<1>7. r <= starts[m]
  BY <1>1, <1>5, <1>6
<1> QED BY <1>1, <1>7

\* The parser's frame is in the stream, and its check is where the frame ends.
LEMMA MatchFacts ==
  ASSUME IInv, NEW flow, StreamInv(flow), PipeInv(flow), CandidateInv(flow), RxChecksum,
         Matches(Unit), NEW n, n = Unit - 100
  PROVE  /\ n \in Numbers /\ n \in Nat /\ Unit = Check(n) /\ flow[Parsed + 1] = Check(n)
         /\ Parsed + 1 \in 1 .. stored /\ Parsed \in Nat
         /\ header = <<sent[n].kind, Len(sent[n].payload)>> /\ payload = sent[n].payload
         /\ Begun \in Nat /\ Parsed + 1 = Begun + Len(Whole(n)) /\ Len(Whole(n)) \in Nat
         /\ \A i \in 1 .. Len(Whole(n)) : flow[Begun + i] = Whole(n)[i]
<1> USE DEF StreamInv
<1>1. RxUnit("CHECKSUM") /\ state = "CHECKSUM"
  BY DEF RxChecksum, RxUnit
<1>2. /\ Parsed + 1 <= stored /\ Unit = flow[Parsed + 1] /\ Unit \in Nat /\ stored \in Nat
      /\ Parsed = Begun + Held /\ Begun \in Nat /\ Parsed \in Nat
  BY <1>1, PipeUnit, PipeSizes, Place
<1>3. /\ n \in Numbers /\ header = <<sent[n].kind, Len(sent[n].payload)>>
      /\ payload = sent[n].payload
  BY LenProperties DEF Matches, Numbers, IInv, KindsInv
<1>4. n \in Nat /\ Unit = Check(n)
  BY <1>2, <1>3, SMTT(30) DEF Numbers, Check
<1> DEFINE l == Len(sent[n].payload)
<1>5. /\ l \in Nat /\ Len(Whole(n)) = l + 5
      /\ Whole(n)[1] = Sync1 /\ Whole(n)[2] = Sync2 /\ Whole(n)[3] = sent[n].kind /\ Whole(n)[4] = l
      /\ \A i \in 1 .. l : Whole(n)[4 + i] = sent[n].payload[i]
      /\ Whole(n)[l + 5] = Check(n)
  BY <1>3, WholeUnits, ZenonT(40)
<1>6. Held = 4 + l
  BY <1>1, <1>3, HeldFacts
<1>7. /\ flow[Begun + 1] = Sync1 /\ flow[Begun + 2] = Sync2
      /\ flow[Begun + 3] = sent[n].kind /\ flow[Begun + 4] = l
      /\ \A i \in 1 .. l : flow[Begun + 4 + i] = sent[n].payload[i]
  <2>1. header[1] = sent[n].kind /\ header[2] = l
    BY <1>3
  <2> HIDE DEF l
  <2>2. Len(payload) = l
    BY <1>3 DEF l
  <2> QED BY <1>1, <1>3, <2>1, <2>2 DEF CandidateInv
<1> HIDE DEF l
<1>8. Parsed + 1 = Begun + (l + 5) /\ Parsed + 1 \in 1 .. stored
  <2>1. l \in Nat /\ Parsed = Begun + (4 + l)
    BY <1>2, <1>5, <1>6
  <2> QED BY <1>2, <2>1
<1>9. ASSUME NEW i \in 1 .. l + 5 PROVE flow[Begun + i] = Whole(n)[i]
  <2>1. CASE i \in {1, 2, 3, 4}
    BY <1>5, <1>7, <2>1
  <2>2. CASE i \notin {1, 2, 3, 4} /\ i # l + 5
    <3>1. PICK j \in 1 .. l : i = 4 + j
      <4>1. i - 4 \in 1 .. l /\ i = 4 + (i - 4)
        BY <1>5, <2>2
      <4> QED BY <4>1
    <3>2. Begun + i = Begun + 4 + j
      BY <1>2, <3>1
    <3> QED BY <1>5, <1>7, <3>1, <3>2
  <2>3. CASE i = l + 5
    BY <1>2, <1>4, <1>5, <1>8, <2>3
  <2> QED BY <2>1, <2>2, <2>3
<1>10. /\ Parsed + 1 = Begun + Len(Whole(n)) /\ Len(Whole(n)) \in Nat
       /\ \A i \in 1 .. Len(Whole(n)) : flow[Begun + i] = Whole(n)[i]
  <2>1. l + 5 \in Nat
    BY <1>5
  <2> QED BY <1>5, <1>8, <1>9, <2>1, ZenonT(40)
<1>11. flow[Parsed + 1] = Check(n)
  BY <1>2, <1>4
<1> QED BY <1>2, <1>3, <1>4, <1>8, <1>10, <1>11, Zenon

\* The one fault there is does not make a frame that is taken for whole.
LEMMA MatchUndamaged ==
  ASSUME IInv, NEW flow, StreamInv(flow), PipeInv(flow), CandidateInv(flow), RxChecksum,
         Matches(Unit), NEW n, n = Unit - 100, MaxFaults <= 1
  PROVE  n \notin hurt
<1> SUFFICES ASSUME n \in hurt PROVE FALSE
  OBVIOUS
<1> DEFINE w == Len(Whole(n))
<1>1. /\ n \in Numbers /\ n \in Nat /\ flow[Parsed + 1] = Check(n)
      /\ Parsed + 1 \in 1 .. stored /\ Parsed \in Nat
      /\ Begun \in Nat /\ Parsed + 1 = Begun + w /\ w \in Nat
      /\ \A i \in 1 .. w : flow[Begun + i] = Whole(n)[i]
  BY MatchFacts
<1>2. Parsed + 1 = EndOf(n) /\ starts[n] < Parsed + 1 /\ starts[n] \in Nat
      /\ (n = Len(sent) => line = <<>>)
  BY <1>1, CheckPlace
<1>3. Left(n) = 0
  BY <1>2, EmptySeq DEF Left
<1>4. Got(n) = (Begun + w) - starts[n]
  BY <1>1, <1>2 DEF Got
<1>5. \/ Got(n) + Left(n) < w
      \/ /\ Got(n) + Left(n) = w
         /\ \E i \in 1 .. w :
              (IF i <= Got(n) THEN flow[starts[n] + i] ELSE line[i - Got(n)]) # Whole(n)[i]
  BY DEF StreamInv, HurtInv
<1>6. CASE Got(n) + Left(n) < w
  <2>1. /\ Begun < starts[n] /\ starts[n] - Begun \in 1 .. w - 1
        /\ Begun + (starts[n] - Begun) = starts[n]
    <3>1. ((Begun + w) - starts[n]) + 0 < w /\ starts[n] < Begun + w
      BY <1>1, <1>2, <1>3, <1>4, <1>6
    <3>2. w \in Nat /\ Begun \in Nat /\ starts[n] \in Nat
      BY <1>1, <1>2
    <3> HIDE DEF w
    <3> QED BY <3>1, <3>2
  <2>2. flow[starts[n]] = Whole(n)[starts[n] - Begun]
    <3>1. starts[n] - Begun \in 1 .. w
      <4> HIDE DEF w
      <4> QED BY <1>1, <2>1
    <3> QED BY <1>1, <2>1, <3>1
  <2>3. Whole(n)[starts[n] - Begun] <= 100
    <3>1. /\ Len(sent[n].payload) \in Nat /\ w = Len(sent[n].payload) + 5
          /\ \A i \in 1 .. 4 + Len(sent[n].payload) : Whole(n)[i] <= 100
      BY <1>1, WholeUnits
    <3> DEFINE l == Len(sent[n].payload)
    <3>2. l \in Nat /\ w = l + 5
      BY <3>1
    <3>3. starts[n] - Begun \in 1 .. 4 + l
      <4> HIDE DEF w, l
      <4> QED BY <2>1, <3>2
    <3> QED BY <3>1, <3>3
  <2>4. n # 1 /\ n >= 1 /\ Len(sent) \in Nat /\ n <= Len(sent)
    <3>1. n >= 1 /\ Len(sent) \in Nat /\ n <= Len(sent)
      BY <1>1, LenProperties DEF Numbers, IInv, KindsInv
    <3>2. n = 1 => starts[n] = 0
      BY <1>1 DEF StreamInv, SourceInv
    <3> QED BY <1>1, <2>1, <3>1, <3>2
  <2> DEFINE k == n - 1
  <2>5. k \in Numbers /\ k # n /\ k < Len(sent) /\ k + 1 = n /\ k \in Nat /\ k >= 1
    <3>1. n \in Nat
      BY <1>1
    <3>2. \A a, m \in Nat : a # 1 /\ a >= 1 /\ a <= m =>
            /\ a - 1 \in 1 .. m /\ a - 1 # a /\ a - 1 < m /\ (a - 1) + 1 = a
            /\ a - 1 \in Nat /\ a - 1 >= 1
      OBVIOUS
    <3>3. k \in 1 .. Len(sent) /\ k # n /\ k < Len(sent) /\ k + 1 = n /\ k \in Nat /\ k >= 1
      BY <2>4, <3>1, <3>2, ZenonT(40)
    <3> QED BY <3>3 DEF Numbers
  <2> HIDE DEF k
  <2>6. k \in Numbers \ hurt
    <3>1. \A i, j \in hurt : i = j
      BY DEF StreamInv, HurtInv
    <3> QED BY <2>5, <3>1
  <2>7. EndOf(k) = starts[n]
    BY <2>5 DEF EndOf
  <2>8. /\ Len(sent[k].payload) \in Nat /\ Len(Whole(k)) = Len(sent[k].payload) + 5
        /\ Whole(k)[Len(sent[k].payload) + 5] = Check(k)
    BY <2>5, WholeUnits
  <2>9. EndOf(k) <= starts[k] + Len(Whole(k)) /\ ~(EndOf(k) < starts[k] + Len(Whole(k)))
        /\ EndOf(k) \in Nat /\ starts[k] \in Nat
    <3>1. k # Len(sent)
      BY <2>4, <2>5
    <3> QED BY <2>6, <3>1, FrameFacts DEF StreamInv
  <2> DEFINE l == Len(sent[k].payload)
  <2>10. l + 5 \in Nat /\ l + 5 >= 1 /\ starts[k] + (l + 5) = EndOf(k)
    <3>1. l \in Nat /\ EndOf(k) <= starts[k] + (l + 5) /\ ~(EndOf(k) < starts[k] + (l + 5))
      BY <2>8, <2>9
    <3> HIDE DEF l
    <3> QED BY <2>9, <3>1
  <2>11. flow[starts[k] + (l + 5)] = Whole(k)[l + 5]
    <3>1. starts[k] + (l + 5) <= EndOf(k)
      BY <2>9, <2>10
    <3> QED BY <2>6, <2>10, <3>1, FrameUnit DEF StreamInv
  <2>12. flow[starts[n]] = Check(k)
    BY <2>7, <2>8, <2>10, <2>11
  <2>13. ~(Check(k) <= 100)
    BY <2>5 DEF Check
  <2> QED BY <2>2, <2>3, <2>12, <2>13
<1>7. CASE ~(Got(n) + Left(n) < w)
  <2>1. PICK i \in 1 .. w :
          (IF i <= Got(n) THEN flow[starts[n] + i] ELSE line[i - Got(n)]) # Whole(n)[i]
    BY <1>5, <1>7
  <2>2. Got(n) + Left(n) = w
    BY <1>5, <1>7
  <2>3. Begun = starts[n] /\ i <= Got(n)
    <3>1. ((Begun + w) - starts[n]) + 0 = w
      BY <1>3, <1>4, <2>2
    <3>2. w \in Nat /\ Begun \in Nat /\ starts[n] \in Nat
      BY <1>1, <1>2
    <3>3. Begun = starts[n] /\ (Begun + w) - starts[n] = w
      <4> HIDE DEF w
      <4> QED BY <3>1, <3>2
    <3>4. i <= w
      OBVIOUS
    <3> QED BY <1>4, <3>3, <3>4
  <2> QED BY <1>1, <2>1, <2>3
<1> QED BY <1>6, <1>7

\* As long as nothing is published the rest does not disturb it.
LEMMA PublishKept ==
  ASSUME IInv, NEW flow, StreamInv(flow), PipeInv(flow), PublishInv(flow),
         NEW more, \A q \in 1 .. stored : more[q] = flow[q],
         UNCHANGED <<topic, published>>, Parsed' \in Nat, Parsed <= Parsed',
         Numbers \subseteq Numbers', \A k \in Numbers : sent'[k] = sent[k],
         \A k \in Numbers : k \in hurt' \ hurt => k = Len(sent) /\ line # <<>>
  PROVE  PublishInv(more)'
<1>1. published \in Seq(Numbers) /\ Len(published) \in Nat
  BY LenProperties DEF PublishInv, PassedInv
<1>2. \A i \in 1 .. Len(published) : published[i] \in Numbers
  BY <1>1, ElementOfSeq
<1>3. Parsed \in Nat /\ Parsed <= stored /\ stored \in Nat
  BY PipeSizes DEF StreamInv, PipeInv
<1>4. TopicInv'
  BY DEF PublishInv, TopicInv
<1>5. PassedInv(more)'
  <2>1. published' \in Seq(Numbers')
    <3>1. \A i \in 1 .. Len(published) : published[i] \in Numbers'
      BY <1>2
    <3>2. published = [i \in 1 .. Len(published) |-> published[i]]
      BY <1>1
    <3>3. published \in Seq(Numbers')
      BY <1>1, <3>1, <3>2, SeqDef
    <3> QED BY <3>3
  <2>2. ASSUME NEW i \in 1 .. Len(published)
        PROVE  \E q \in 1 .. Parsed' : more[q] = Check(published[i])
    <3>1. PICK q \in 1 .. Parsed : flow[q] = Check(published[i])
      BY DEF PublishInv, PassedInv
    <3>2. q \in 1 .. stored /\ q \in 1 .. Parsed'
      BY <1>3
    <3>3. more[q] = Check(published[i])
      BY <3>1, <3>2
    <3> QED BY <3>2, <3>3
  <2>3. \A i \in 1 .. Len(published) : \E q \in 1 .. Parsed' : more[q] = Check(published[i])'
    BY <2>2 DEF Check
  <2> QED BY <2>1, <2>3 DEF PassedInv
<1>6. PublishedInOrder'
  BY <1>2 DEF PublishInv, PublishedInOrder
<1>7. Undamaged'
  <2>1. ASSUME MaxFaults <= 1, NEW i \in 1 .. Len(published), published[i] \in hurt'
        PROVE  FALSE
    <3>1. published[i] \notin hurt /\ published[i] \in Numbers
      BY <1>2, <2>1 DEF PublishInv, Undamaged
    <3>2. published[i] = Len(sent) /\ line # <<>>
      BY <2>1, <3>1
    <3>3. PICK q \in 1 .. Parsed : flow[q] = Check(published[i])
      BY DEF PublishInv, PassedInv
    <3>4. q \in 1 .. stored
      BY <1>3
    <3> QED BY <3>1, <3>2, <3>3, <3>4, CheckPlace
  <2> QED BY <2>1 DEF Undamaged
<1> QED BY <1>4, <1>5, <1>6, <1>7 DEF PublishInv

\* A publication is of the frame whose check the parser took, the latest so far.
LEMMA PublishStep ==
  ASSUME IInv, NEW flow, StreamInv(flow), PipeInv(flow), CandidateInv(flow), PublishInv(flow),
         RxChecksum, Matches(Unit), header = <<NavPvt, PvtLen>>, NEW n, n = Unit - 100,
         NEW fix \in Fixes(Pvts[payload[1]]),
         topic' = <<n, fix>>, published' = Append(published, n)
  PROVE  PublishInv(flow)'
<1>1. /\ n \in Numbers /\ n \in Nat /\ flow[Parsed + 1] = Check(n)
      /\ Parsed + 1 \in 1 .. stored /\ Parsed \in Nat
      /\ header = <<sent[n].kind, Len(sent[n].payload)>> /\ payload = sent[n].payload
  BY MatchFacts
<1>2. sent[n].kind = NavPvt /\ Len(sent[n].payload) = PvtLen
  BY <1>1
<1>3. Parsed' = Parsed + 1 /\ UNCHANGED <<sent, line, starts, stored, hurt, faults>>
  <2>1. RxUnit("CHECKSUM")
    BY DEF RxChecksum
  <2> QED BY <2>1, PipeUnit DEF StreamInv
<1>4. Numbers' = Numbers
  BY <1>3 DEF Numbers
<1>5. TopicInv'
  BY <1>1, <1>2, <1>3, <1>4 DEF TopicInv
<1>6. /\ published \in Seq(Numbers) /\ Len(published) \in Nat
      /\ published' \in Seq(Numbers) /\ Len(published') = Len(published) + 1
      /\ published'[Len(published) + 1] = n
      /\ \A i \in 1 .. Len(published) : published'[i] = published[i]
  <2>1. published \in Seq(Numbers) /\ Len(published) \in Nat
    BY LenProperties DEF PublishInv, PassedInv
  <2> QED BY <1>1, <2>1, AppendProperties
<1>7. \A i \in 1 .. Len(published) : published[i] \in Numbers
  BY <1>6, ElementOfSeq
<1> DEFINE last == Len(published) + 1
<1>8. \A i \in 1 .. Len(published') : i = last \/ i \in 1 .. Len(published)
  <2> TAKE i \in 1 .. Len(published')
  <2>1. i \in 1 .. last
    BY <1>6
  <2> QED BY <1>6, <2>1
<1>9. \A i \in 1 .. Len(published) : published[i] < n
  <2> TAKE i \in 1 .. Len(published)
  <2>1. PICK q \in 1 .. Parsed : flow[q] = Check(published[i])
    BY DEF PublishInv, PassedInv
  <2>2. q \in 1 .. stored /\ q < Parsed + 1
    <3>1. stored \in Nat
      BY PipeSizes DEF StreamInv
    <3> QED BY <1>1, <3>1
  <2> QED BY <1>1, <1>7, <2>1, <2>2, LaterCheck
<1>10. PassedInv(flow)'
  <2>1. ASSUME NEW i \in 1 .. Len(published')
        PROVE  \E q \in 1 .. Parsed + 1 : flow[q] = Check(published'[i])
    <3>1. CASE i = last
      <4>1. Parsed + 1 \in 1 .. Parsed + 1
        BY <1>1
      <4> QED BY <1>1, <1>6, <3>1, <4>1
    <3>2. CASE i \in 1 .. Len(published)
      <4>1. PICK q \in 1 .. Parsed : flow[q] = Check(published[i])
        BY <3>2 DEF PublishInv, PassedInv
      <4>2. q \in 1 .. Parsed + 1
        BY <1>1
      <4> QED BY <1>6, <3>2, <4>1, <4>2
    <3> QED BY <1>8, <3>1, <3>2
  <2>2. \A i \in 1 .. Len(published') : \E q \in 1 .. Parsed' : flow[q] = Check(published[i])'
    BY <1>3, <2>1 DEF Check
  <2> QED BY <1>4, <1>6, <2>2 DEF PassedInv
<1>11. PublishedInOrder'
  <2>1. ASSUME NEW i \in 1 .. Len(published')
        PROVE  sent[published'[i]].kind = NavPvt /\ Len(sent[published'[i]].payload) = PvtLen
    <3>1. CASE i = last
      BY <1>2, <1>6, <3>1
    <3>2. CASE i \in 1 .. Len(published)
      BY <1>6, <3>2 DEF PublishInv, PublishedInOrder
    <3> QED BY <1>8, <3>1, <3>2
  <2>2. ASSUME NEW i \in 1 .. Len(published'), NEW j \in 1 .. Len(published'), i < j
        PROVE  published'[i] < published'[j]
    <3>1. i \in 1 .. Len(published)
      <4>1. i \in 1 .. last /\ j \in 1 .. last
        BY <1>6
      <4> QED BY <1>6, <2>2, <4>1
    <3>2. CASE j = last
      BY <1>6, <1>9, <3>1, <3>2
    <3>3. CASE j \in 1 .. Len(published)
      <4>1. published[i] < published[j]
        BY <2>2, <3>1, <3>3 DEF PublishInv, PublishedInOrder
      <4> QED BY <1>6, <3>1, <3>3, <4>1
    <3> QED BY <1>8, <3>2, <3>3
  <2>3. topic' # <<>> /\ topic'[1] = published'[Len(published')]
    BY <1>6
  <2> QED BY <1>3, <2>1, <2>2, <2>3 DEF PublishedInOrder
<1>12. Undamaged'
  <2>1. ASSUME MaxFaults <= 1, NEW i \in 1 .. Len(published') PROVE published'[i] \notin hurt
    <3>1. CASE i = last
      BY <1>6, <2>1, <3>1, MatchUndamaged
    <3>2. CASE i \in 1 .. Len(published)
      BY <1>6, <2>1, <3>2 DEF PublishInv, Undamaged
    <3> QED BY <1>8, <3>1, <3>2
  <2> QED BY <1>3, <2>1 DEF Undamaged
<1> QED BY <1>5, <1>10, <1>11, <1>12 DEF PublishInv

LEMMA PublishSend ==
  ASSUME IInv, NEW flow, StreamInv(flow), PipeInv(flow), PublishInv(flow),
         NEW frame \in Frames, NEW units, Transmit(frame, units), Sends(frame, units),
         NEW n, n = Len(sent) + 1
  PROVE  PublishInv(flow)'
<1>1. /\ Numbers' = Numbers \cup {n} /\ n \notin Numbers
      /\ \A k \in Numbers : sent'[k] = sent[k]
      /\ UNCHANGED <<ring, batch, outcome, stored>>
  BY TransmitFacts DEF StreamInv
<1>2. Parsed' = Parsed /\ Parsed \in Nat /\ UNCHANGED <<topic, published>>
  BY <1>1 DEF Parsed, PipeInv, outcome
<1>3. \A k \in Numbers : k \notin hurt' \ hurt
  BY <1>1 DEF Sends, Hurt
<1>4. Parsed' \in Nat /\ Parsed <= Parsed'
  BY <1>2
<1> QED BY <1>1, <1>2, <1>3, <1>4, PublishKept

LEMMA PublishIsr ==
  ASSUME IInv, NEW flow, StreamInv(flow), PipeInv(flow), PublishInv(flow),
         NEW read \in Nat, NEW fits \in Nat, NEW more, Takes(flow, read, fits, more),
         Parsed' = Parsed
  PROVE  PublishInv(more)'
<1>1. sent' = sent /\ Numbers' = Numbers /\ UNCHANGED <<topic, published>>
      /\ \A q \in 1 .. stored : more[q] = flow[q]
  BY DEF Takes, Numbers, outcome
<1>2. \A k \in Numbers : k \in hurt' \ hurt => k = Len(sent)
  BY DEF Takes, Hurt
<1>3. line # <<>>
  <2>1. Len(line) # 0
    BY DEF Takes
  <2> QED BY <2>1, EmptySeq
<1>4. Parsed' \in Nat /\ Parsed <= Parsed'
  BY DEF PipeInv
<1> QED BY <1>1, <1>2, <1>3, <1>4, PublishKept

\* The thread's other steps publish nothing and touch no frame.
LEMMA PublishIdle ==
  ASSUME IInv, NEW flow, StreamInv(flow), PipeInv(flow), PublishInv(flow),
         UNCHANGED <<sent, hurt, topic, published>>, Parsed' = Parsed \/ Parsed' = Parsed + 1
  PROVE  PublishInv(flow)'
<1>1. Numbers' = Numbers
  BY DEF Numbers
<1>2. Parsed' \in Nat /\ Parsed <= Parsed'
  BY DEF PipeInv
<1> QED BY <1>1, <1>2, PublishKept

-----------------------------------------------------------------------------
(* The whole invariant                                                     *)

FlowInv(flow) ==
  StreamInv(flow) /\ PipeInv(flow) /\ CandidateInv(flow) /\ ParserInv /\ PublishInv(flow)

\* At first nothing has been stored.
LEMMA FlowInit == ASSUME Init PROVE FlowInv(<<>>)
<1>1. <<>> \in Seq(Nat) /\ Len(<<>>) = 0 /\ <<>> \in Seq(Numbers)
  BY EmptySeq
<1>2. /\ sent = <<>> /\ line = <<>> /\ ring = <<>> /\ batch = <<>> /\ state = "SYNC1"
      /\ topic = <<>> /\ published = <<>> /\ starts = <<>> /\ stored = 0 /\ hurt = {} /\ faults = 0
  BY DEF Init
<1>3. Numbers = {} /\ Len(sent) \notin Numbers /\ Numbers \ hurt = {}
  BY <1>1, <1>2 DEF Numbers
<1>4. Parsed = 0 /\ Begun = 0
  <2>1. Parsed = (0 - 0) - 0
    BY <1>1, <1>2 DEF Parsed
  <2>2. Held = 0
    BY <1>2 DEF Held
  <2> QED BY <2>1, <2>2 DEF Begun
<1>5. SourceInv(<<>>)
  BY <1>1, <1>2, <1>3 DEF SourceInv
<1>6. ChecksInv(<<>>)
  BY <1>1, <1>2 DEF ChecksInv
<1>7. ContentInv(<<>>)
  BY <1>3 DEF ContentInv
<1>8. HurtInv(<<>>)
  BY <1>2 DEF HurtInv
<1>9. PipeInv(<<>>)
  BY <1>1, <1>2, <1>4 DEF PipeInv
<1>10. CandidateInv(<<>>)
  BY <1>2, <1>4 DEF CandidateInv
<1>11. ParserInv
  BY <1>2, <1>3 DEF ParserInv, AlignInv, TrackInv, TakenInv
<1>12. PublishInv(<<>>)
  <2>1. TopicInv /\ PassedInv(<<>>)
    BY <1>1, <1>2 DEF TopicInv, PassedInv
  <2>2. PublishedInOrder /\ Undamaged
    BY <1>1, <1>2 DEF PublishedInOrder, Undamaged
  <2> QED BY <2>1, <2>2 DEF PublishInv
<1> QED
  BY <1>5, <1>6, <1>7, <1>8, <1>9, <1>10, <1>11, <1>12 DEF FlowInv, StreamInv

\* A transmission leaves the stream as it is.
LEMMA FlowSend ==
  ASSUME IInv, NEW flow, FlowInv(flow),
         NEW frame \in Frames, SendWhole(frame) \/ SendDamaged(frame) \/ SendShort(frame)
  PROVE  FlowInv(flow)'
<1> USE DEF FlowInv
<1>1. PICK units \in Seq(Nat) :
        /\ Transmit(frame, units) /\ Sends(frame, units)
        /\ \A i \in 1 .. Len(units) :
             units[i] > 100 => i = Len(units) /\ units[i] = Check(Len(sent) + 1)
  BY SendFacts
<1>2. PICK n : n = Len(sent) + 1
  OBVIOUS
<1>3. StreamInv(flow)'
  BY <1>1, <1>2, StreamSend
<1>4. UNCHANGED <<ring, batch, parser, stored>>
  BY <1>1 DEF Transmit
<1>5. PipeInv(flow)' /\ CandidateInv(flow)'
  BY <1>4 DEF parser, Parsed, Held, Begun, PipeInv, CandidateInv
<1>6. ParserInv'
  BY <1>1, <1>2, ParserSend
<1>7. PublishInv(flow)'
  BY <1>1, <1>2, PublishSend
<1> QED BY <1>3, <1>5, <1>6, <1>7

\* The interrupt extends it by what the ring has room for.
LEMMA FlowIsr ==
  ASSUME IInv, NEW flow, FlowInv(flow), UartIsr
  PROVE  \E more : FlowInv(more)'
<1> USE DEF FlowInv
<1>1. PICK read \in Nat, fits \in Nat, more \in Seq(Nat) : Takes(flow, read, fits, more)
  BY IsrFacts
<1>2. StreamInv(more)'
  BY <1>1, StreamIsr
<1>3. PipeInv(more)' /\ CandidateInv(more)' /\ Parsed' = Parsed
  BY <1>1, PipeIsr DEF StreamInv
<1>4. ParserInv'
  BY <1>1, <1>3, ParserIsr
<1>5. PublishInv(more)'
  BY <1>1, <1>3, PublishIsr
<1> QED BY <1>2, <1>3, <1>4, <1>5

\* The thread takes from it.
LEMMA FlowBatch ==
  ASSUME IInv, NEW flow, FlowInv(flow), GetBatch
  PROVE  FlowInv(flow)'
<1> USE DEF FlowInv
<1>1. UNCHANGED <<sent, line, starts, stored, hurt, faults, parser, outcome>>
  BY DEF GetBatch
<1>2. StreamInv(flow)'
  BY <1>1, StreamKept
<1>3. PipeInv(flow)' /\ CandidateInv(flow)' /\ Parsed' = Parsed
  BY PipeBatch DEF StreamInv
<1>4. /\ state' = state /\ accepted' = accepted /\ Numbers' = Numbers /\ Begun' = Begun
      /\ UNCHANGED <<topic, published>>
  BY <1>1, <1>3 DEF parser, outcome, Numbers, Held, Begun
<1>5. ParserInv'
  BY <1>1, <1>3, <1>4 DEF ParserInv, AlignInv, TrackInv, TakenInv, EndOf, Whole, Clear
<1>6. PublishInv(flow)'
  BY <1>1, <1>3, <1>4, PublishIdle
<1> QED BY <1>2, <1>3, <1>5, <1>6

LEMMA FlowUnit ==
  ASSUME IInv, NEW flow, FlowInv(flow), RxSync1 \/ RxSync2 \/ RxHeader \/ RxPayload \/ RxChecksum
  PROVE  FlowInv(flow)'
<1> USE DEF FlowInv
<1>1. PICK in : RxUnit(in)
  BY DEF RxSync1, RxSync2, RxHeader, RxPayload, RxChecksum
<1>2. /\ PipeInv(flow)' /\ Parsed' = Parsed + 1
      /\ UNCHANGED <<sent, line, starts, stored, hurt, faults>>
  BY <1>1, PipeUnit DEF StreamInv
<1>3. StreamInv(flow)'
  BY <1>2, StreamKept
<1>4. CandidateInv(flow)'
  BY CandidateSync1, CandidateSync2, CandidateHeader, CandidatePayload, CandidateChecksum DEF StreamInv
<1>5. ParserInv'
  BY ParserSync1, ParserSync2, ParserHeader, ParserPayload, ParserChecksum
<1>6. PublishInv(flow)'
  <2>1. CASE UNCHANGED <<topic, published>>
    BY <1>2, <2>1, PublishIdle
  <2>2. CASE ~UNCHANGED <<topic, published>>
    <3>1. RxChecksum
      BY <2>2 DEF RxSync1, RxSync2, RxHeader, RxPayload, outcome
    <3>2. PICK n : n = Unit - 100
      OBVIOUS
    <3>3. /\ Matches(Unit) /\ header = <<NavPvt, PvtLen>> /\ published' = Append(published, n)
          /\ \E fix \in Fixes(Pvts[payload[1]]) : topic' = <<n, fix>>
      BY <2>2, <3>1, <3>2 DEF RxChecksum, outcome
    <3>4. PICK fix \in Fixes(Pvts[payload[1]]) : topic' = <<n, fix>>
      BY <3>3
    <3> QED BY <3>1, <3>2, <3>3, <3>4, PublishStep
  <2> QED BY <2>1, <2>2
<1> QED BY <1>2, <1>3, <1>4, <1>5, <1>6

\* There is always a stream that explains what the ring and the parser hold.
LEMMA FlowNext ==
  ASSUME IInv, \E flow : FlowInv(flow), [Next]_vars
  PROVE  (\E flow : FlowInv(flow))'
<1>1. PICK flow : FlowInv(flow)
  OBVIOUS
<1>2. CASE \E frame \in Frames : SendWhole(frame) \/ SendDamaged(frame) \/ SendShort(frame)
  BY <1>1, <1>2, FlowSend
<1>3. CASE UartIsr
  BY <1>1, <1>3, FlowIsr
<1>4. CASE Thread
  BY <1>1, <1>4, FlowBatch, FlowUnit DEF Thread
<1>5. CASE UNCHANGED vars
  <2>1. FlowInv(flow)'
    <3>1. UNCHANGED <<Numbers, Parsed, Held, Begun>>
      BY <1>5 DEF vars, Numbers, Parsed, Held, Begun
    <3>2. StreamInv(flow)'
      BY <1>1, <1>5, StreamKept DEF FlowInv, vars
    <3>3. PipeInv(flow)' /\ CandidateInv(flow)'
      BY <1>1, <1>5, <3>1 DEF FlowInv, PipeInv, CandidateInv, vars
    <3>4. ParserInv'
      BY <1>1, <1>5, <3>1
      DEF FlowInv, ParserInv, AlignInv, TrackInv, TakenInv, EndOf, Whole, Clear, vars
    <3>5. PublishInv(flow)'
      BY <1>1, <1>5, <3>1, PublishIdle DEF FlowInv, vars
    <3> QED BY <3>2, <3>3, <3>4, <3>5 DEF FlowInv
  <2> QED BY <2>1
<1> QED BY <1>2, <1>3, <1>4, <1>5 DEF Next

THEOREM FlowInductive == Spec => [](IInv /\ \E flow : FlowInv(flow))
<1>1. Init => \E flow : FlowInv(flow)
  BY FlowInit
<1>2. IInv /\ (\E flow : FlowInv(flow)) /\ [Next]_vars => (\E flow : FlowInv(flow))'
  BY FlowNext
<1> QED
  BY <1>1, <1>2, Inductive, PTL DEF Spec

-----------------------------------------------------------------------------
(* What follows from it                                                    *)

\* A damage costs the frames that begin within a longest frame's length of it
\* and no other: every later one that the parser has had is accepted, whatever
\* the damage, the number of faults and the sizes.
THEOREM DamageIsBounded == Spec => []DamageBounded
<1>1. IInv /\ (\E flow : FlowInv(flow)) => DamageBounded
  BY DEF FlowInv, ParserInv, TakenInv, DamageBounded, Clear, Parsed, Whole
<1> QED
  BY <1>1, FlowInductive, PTL

\* The fix on the topic is always what the report of its frame said, for every
\* report of 32-bit numbers, the vertical speed of -2^31 mm/s excepted.
THEOREM FixCorrect == Spec => []FixAsReported
<1>1. IInv /\ (\E flow : FlowInv(flow)) => FixAsReported
  <2> SUFFICES ASSUME IInv, NEW flow, FlowInv(flow), topic # <<>>
               PROVE  Reported(topic[2], Pvts[sent[topic[1]].payload[1]])
    BY DEF FixAsReported
  <2> DEFINE n == topic[1]
             pvt == Pvts[sent[n].payload[1]]
  <2>1. /\ n \in Numbers /\ topic[2] \in Fixes(pvt)
        /\ sent[n].kind = NavPvt /\ Len(sent[n].payload) = PvtLen
    BY DEF FlowInv, PublishInv, TopicInv
  <2>2. sent[n] \in Frames
    <3>1. sent \in Seq(Frames)
      BY DEF IInv, KindsInv
    <3> QED BY <2>1, <3>1, ElementOfSeq DEF Numbers
  <2>3. Report(pvt)
    BY <2>1, <2>2, FramesAssumption, PvtsAssumption DEF FramesAssumption, PvtsAssumption
  <2> HIDE DEF pvt
  <2>4. topic[2] \in Fixes(pvt)
    BY <2>1
  <2> QED BY <2>3, <2>4, ReportKept DEF pvt
<1> QED
  BY <1>1, FlowInductive, PTL

\* What is published is in order and of NAV-PVT frames of the right size, however
\* many faults there are.
THEOREM PublishedOrdered == Spec => []PublishedInOrder
<1>1. IInv /\ (\E flow : FlowInv(flow)) => PublishedInOrder
  BY DEF FlowInv, PublishInv
<1> QED
  BY <1>1, FlowInductive, PTL

\* One fault never makes a frame that is published: two can, when the unit one
\* frame lost is the unit another's damage becomes.
THEOREM PublishedCorrect == ASSUME MaxFaults <= 1 PROVE Spec => []PublishedAsSent
<1>1. IInv /\ (\E flow : FlowInv(flow)) => PublishedAsSent
  <2> SUFFICES ASSUME IInv, NEW flow, FlowInv(flow) PROVE PublishedAsSent
    OBVIOUS
  <2>1. published \in Seq(Numbers) /\ DOMAIN published = 1 .. Len(published)
    BY LenProperties DEF FlowInv, PublishInv, PassedInv
  <2>2. \A i \in 1 .. Len(published) : published[i] \in Numbers \ hurt
    BY <2>1, ElementOfSeq DEF FlowInv, PublishInv, Undamaged
  <2> QED BY <2>1, <2>2 DEF FlowInv, PublishInv, PublishedInOrder, PublishedAsSent
<1> QED
  BY <1>1, FlowInductive, PTL

=============================================================================
