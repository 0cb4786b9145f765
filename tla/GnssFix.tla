------------------------------- MODULE GnssFix -------------------------------
(***************************************************************************)
(* gnss_onboard.c: how a NAV-PVT report becomes a fix.  Division and       *)
(* remainder are C's, which cut towards zero; the widths are those of the  *)
(* fix's fields.  One report has more than one fix: the negation of its    *)
(* vertical speed may overflow.  The position is carried over untouched    *)
(* and is a value.                                                         *)
(***************************************************************************)
EXTENDS Integers

Cut(a, b) == IF a >= 0 THEN a \div b ELSE -((-a) \div b)
Rest(a, b) == a - b * Cut(a, b)

U16Max == 65535
I16Max == 32767
I32Max == 2147483647
I32 == -I32Max - 1 .. I32Max
SaturateU16(value) == IF value > U16Max THEN U16Max ELSE value
ClampI16(value) ==
  IF value < -I16Max - 1 THEN -I16Max - 1 ELSE IF value > I16Max THEN I16Max ELSE value

SpeedOf(mm) == SaturateU16(IF mm > 0 THEN mm \div 10 ELSE 0)

\* down in mm/s, up in cm/s; the least 32-bit number has no negation in 32 bits,
\* and what is left of it after the division is of either sign
UpsOf(down) ==
  IF down = -I32Max - 1 THEN {-I16Max - 1, I16Max} ELSE {ClampI16(Cut(-down, 10))}

\* a turn in hundredths of a degree
Turn == 36000
\* variant: a heading west of north stays negative
CourseSigned(heading) == Rest(Cut(heading, 1000), Turn)
\* heading in 1e-5 degree, course in hundredths
CourseOf(heading) == (Rest(Cut(heading, 1000), Turn) + Turn) % Turn

FixTypeFrom(pvt) ==
  CASE ~pvt.ok -> "NoFix"
    [] pvt.ok /\ pvt.carrier = "fixed" -> "RtkFixed"
    [] pvt.ok /\ pvt.carrier = "floating" -> "RtkFloat"
    [] OTHER -> CASE pvt.type = "2D" -> "Fix2d"
                  [] pvt.type = "3D" -> "Fix3d"
                  [] pvt.type \in {"GNSS_DR", "DR"} -> "DeadReckoning"
                  [] pvt.type = "TIME_ONLY" -> "TimeOnly"
                  [] OTHER -> "NoFix"

\* days since 1970-01-01
DaysFromCivil(year, month, day) ==
  LET y == IF month <= 2 THEN year - 1 ELSE year
      era == Cut(IF y >= 0 THEN y ELSE y - 399, 400)
      yoe == y - era * 400
      doy == (153 * (IF month > 2 THEN month - 3 ELSE month + 9) + 2) \div 5 + day - 1
      doe == yoe * 365 + yoe \div 4 - yoe \div 100 + doy
  IN era * 146097 + doe - 719468

\* the time as a day and a second of it, if there is one
TimeOf(pvt) ==
  LET days == DaysFromCivil(pvt.year, pvt.month, pvt.day)
  IN IF pvt.timeValid /\ FixTypeFrom(pvt) # "NoFix" /\ days >= 0
     THEN <<days, pvt.hour * 3600 + pvt.minute * 60 + pvt.second>> ELSE <<>>

CourseValidMin == 150

\* publish_nav_pvt: the fix
Fix(pvt, up) ==
  [position |-> pvt.position, accuracy |-> SaturateU16(pvt.accuracy), dop |-> SaturateU16(pvt.dop),
   speed |-> SpeedOf(pvt.speed), up |-> up, course |-> CourseOf(pvt.heading),
   courseValid |-> pvt.speed >= CourseValidMin,
   type |-> FixTypeFrom(pvt), satellites |-> pvt.satellites, time |-> TimeOf(pvt)]

Fixes(pvt) == {Fix(pvt, up) : up \in UpsOf(pvt.down)}

\* what the fields of a report can be; the date and the time count when it says
\* they are valid, and a fix type the code does not know is "NO_FIX"
Report(pvt) ==
  /\ pvt.accuracy \in Nat /\ pvt.dop \in Nat
  /\ pvt.speed \in I32 /\ pvt.down \in I32 /\ pvt.heading \in I32
  /\ pvt.ok \in BOOLEAN /\ pvt.timeValid \in BOOLEAN
  /\ pvt.carrier \in {"none", "floating", "fixed"}
  /\ pvt.type \in {"2D", "3D", "GNSS_DR", "DR", "TIME_ONLY", "NO_FIX"}
  /\ pvt.timeValid =>
       /\ pvt.year \in Nat \ {0} /\ pvt.month \in 1 .. 12 /\ pvt.day \in 1 .. 31
       /\ pvt.hour \in 0 .. 23 /\ pvt.minute \in 0 .. 59 /\ pvt.second \in 0 .. 60

-----------------------------------------------------------------------------
(* What a fix must be, said without the code's arithmetic                  *)

Leap(year) == year % 4 = 0 /\ (year % 100 # 0 \/ year % 400 = 0)
MonthDays(year, month) ==
  IF month = 2 THEN IF Leap(year) THEN 29 ELSE 28
  ELSE IF month \in {4, 6, 9, 11} THEN 30 ELSE 31

\* the days from 1970 on counted one year and one month after another
YearStart[year \in Nat] ==
  IF year <= 1970 THEN 0 ELSE YearStart[year - 1] + IF Leap(year - 1) THEN 366 ELSE 365
MonthStart(year) ==
  LET Days[month \in 1 .. 12] ==
        IF month = 1 THEN 0 ELSE Days[month - 1] + MonthDays(year, month - 1)
  IN Days
CountedDays(year, month, day) == YearStart[year] + MonthStart(year)[month] + day - 1

\* as near as its unit allows, or at the end of its range the value is beyond
Scaled(value, unit, field, low, high) ==
  \/ /\ low <= field /\ field <= high
     /\ unit * field - value < unit /\ value - unit * field < unit
  \/ field = high /\ value >= unit * high
  \/ field = low /\ value <= unit * low

\* a course of one turn, short of the heading by less than its unit, or past it
\* when the heading is negative
SameCourse(heading, course) ==
  /\ course \in 0 .. Turn - 1
  /\ (heading - 1000 * course + 999) % (1000 * Turn) \in 0 .. 1998

\* the vertical speed no 32-bit number is the negation of is left out: its sign
\* may be the wrong one
SameNumbers(fix, pvt) ==
  /\ Scaled(pvt.accuracy, 1, fix.accuracy, 0, U16Max)
  /\ Scaled(pvt.dop, 1, fix.dop, 0, U16Max)
  /\ Scaled(pvt.speed, 10, fix.speed, 0, U16Max)
  /\ pvt.down # -I32Max - 1 => Scaled(-pvt.down, 10, fix.up, -I16Max - 1, I16Max)
  /\ SameCourse(pvt.heading, fix.course)

\* a course can be relied on from 15 cm/s
SameType(fix, pvt) ==
  /\ fix.type = "NoFix" <=> ~pvt.ok \/ (pvt.carrier = "none" /\ pvt.type = "NO_FIX")
  /\ fix.type = "RtkFixed" <=> pvt.ok /\ pvt.carrier = "fixed"
  /\ fix.type = "RtkFloat" <=> pvt.ok /\ pvt.carrier = "floating"
  /\ fix.type \notin {"NoFix", "RtkFixed", "RtkFloat"} =>
       <<pvt.type, fix.type>> \in
         {<<"2D", "Fix2d">>, <<"3D", "Fix3d">>, <<"GNSS_DR", "DeadReckoning">>,
          <<"DR", "DeadReckoning">>, <<"TIME_ONLY", "TimeOnly">>}
  /\ fix.courseValid <=> fix.speed >= 15

\* a leap second is the next minute's first
SameTime(time, pvt) ==
  /\ time[1] = CountedDays(pvt.year, pvt.month, pvt.day)
  /\ pvt.second < 60 =>
       /\ time[2] \div 3600 = pvt.hour /\ (time[2] \div 60) % 60 = pvt.minute
       /\ time[2] % 60 = pvt.second

Reported(fix, pvt) ==
  /\ SameNumbers(fix, pvt) /\ SameType(fix, pvt)
  /\ fix.position = pvt.position /\ fix.satellites = pvt.satellites
  /\ fix.time # <<>> <=> fix.type # "NoFix" /\ pvt.timeValid /\ pvt.year >= 1970
  /\ fix.time # <<>> => SameTime(fix.time, pvt)

=============================================================================
