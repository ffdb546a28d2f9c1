---------------------------- MODULE WindowsProofs ----------------------------
(***************************************************************************)
(* Proofs about Windows: the calendar for every day, and the reaper for    *)
(* any number of reapers, any retention and interval, and any lateness of  *)
(* events.                                                                 *)
(***************************************************************************)
EXTENDS Windows, TLAPS

----------------------------------------------------------------------------
(* The calendar.  An era is 400 years from March 1st on; a year of it begins *)
(* on day YearStart of the era, a month on day MonthStart of the year.       *)

YearStart(y)  == 365 * y + y \div 4 - y \div 100
MonthStart(m) == (153 * m + 2) \div 5

(* The first day of the year after y, or of the next era. *)
YearEnd(y) == YearStart(y + 1) + (IF y = 399 THEN 1 ELSE 0)

(* Day doy of year yoe of an era, in month mp counted from March. *)
IsDay(day, era, yoe, doy, mp) ==
  /\ era \in Int /\ yoe \in Int /\ doy \in Int /\ mp \in Int
  /\ 0 <= yoe /\ yoe <= 399 /\ 0 <= doy /\ YearStart(yoe) + doy < YearEnd(yoe)
  /\ 0 <= mp /\ mp <= 11 /\ MonthStart(mp) <= doy /\ doy < MonthStart(mp + 1)
  /\ day = 146097 * era + YearStart(yoe) + doy - 719468

CivilYear(era, yoe, mp) == yoe + 400 * era + (IF mp < 10 THEN 0 ELSE 1)
CivilMonth(mp)          == IF mp < 10 THEN mp + 3 ELSE mp - 9

(* The year that CivilFromDay finds is the one the day is in. *)
LEMMA YearOfEra ==
  ASSUME NEW doe \in Int, 0 <= doe, doe <= 146096, NEW yoe,
         yoe = (doe - doe \div 1460 + doe \div 36524 - doe \div 146096) \div 365
  PROVE  /\ yoe \in Int /\ 0 <= yoe /\ yoe <= 399
         /\ YearStart(yoe) <= doe /\ doe < YearEnd(yoe)
BY SMT DEF YearStart, YearEnd

(* The month that CivilFromDay finds is the one the day is in. *)
LEMMA MonthOfYear ==
  ASSUME NEW doy \in Int, 0 <= doy, doy <= 365, NEW mp, mp = (5 * doy + 2) \div 153
  PROVE  /\ mp \in Int /\ 0 <= mp /\ mp <= 11
         /\ MonthStart(mp) <= doy /\ doy < MonthStart(mp + 1)
BY SMT DEF MonthStart

LEMMA YearLength ==
  ASSUME NEW yoe \in Int, 0 <= yoe, yoe <= 399
  PROVE  /\ YearStart(yoe) \in Int /\ YearEnd(yoe) \in Int
         /\ YearEnd(yoe) - YearStart(yoe) <= 366
BY SMT DEF YearStart, YearEnd

(* CivilFromDay finds the year, the month and the day of the month. *)
LEMMA CivilFacts ==
  ASSUME NEW day \in Int
  PROVE  \E era, yoe, doy, mp :
           /\ IsDay(day, era, yoe, doy, mp)
           /\ CivilFromDay(day).year = CivilYear(era, yoe, mp)
           /\ CivilFromDay(day).month = CivilMonth(mp)
           /\ CivilFromDay(day).day = doy - MonthStart(mp) + 1
<1> DEFINE era == (day + 719468) \div 146097
           doe == (day + 719468) % 146097
           yoe == (doe - doe \div 1460 + doe \div 36524 - doe \div 146096) \div 365
           doy == doe - YearStart(yoe)
           mp  == (5 * doy + 2) \div 153
<1>1. /\ era \in Int /\ doe \in Int /\ 0 <= doe /\ doe <= 146096
      /\ doe = day + 719468 - 146097 * era
  BY SMT
<1> HIDE DEF era, doe
<1>2. /\ yoe \in Int /\ 0 <= yoe /\ yoe <= 399
      /\ YearStart(yoe) <= doe /\ doe < YearEnd(yoe)
  BY <1>1, YearOfEra, SMT
<1> HIDE DEF yoe
<1>3. YearStart(yoe) \in Int /\ YearEnd(yoe) - YearStart(yoe) <= 366 /\ YearEnd(yoe) \in Int
  BY <1>2, YearLength, SMT
<1>4. doy \in Int /\ 0 <= doy /\ doy <= 365 /\ YearStart(yoe) + doy < YearEnd(yoe)
  BY <1>1, <1>2, <1>3, SMT
<1>5. day = 146097 * era + YearStart(yoe) + doy - 719468
  BY <1>1, <1>3, SMT
<1>6. doy = doe - (365 * yoe + yoe \div 4 - yoe \div 100)
  BY SMT DEF YearStart
<1> HIDE DEF doy
<1>7. /\ mp \in Int /\ 0 <= mp /\ mp <= 11
      /\ MonthStart(mp) <= doy /\ doy < MonthStart(mp + 1)
  BY <1>4, MonthOfYear, SMT
<1>8. IsDay(day, era, yoe, doy, mp)
  BY <1>1, <1>2, <1>4, <1>5, <1>7, SMT DEF IsDay
<1> HIDE DEF mp
<1>9. /\ CivilFromDay(day).year = CivilYear(era, yoe, mp)
      /\ CivilFromDay(day).month = CivilMonth(mp)
      /\ CivilFromDay(day).day = doy - MonthStart(mp) + 1
  <2>1. mp \in Int
    BY <1>7
  <2>2. CivilMonth(mp) <= 2 <=> ~ (mp < 10)
    BY <1>7, SMT DEF CivilMonth
  <2> QED
    BY <2>1, <2>2, SMT DEF CivilFromDay, CivilYear, CivilMonth, MonthStart, YearStart, era, doe, yoe, doy, mp
<1> QED
  BY <1>8, <1>9, SMT

(* Date gives the days back: month mp of year yoe begins where IsDay has it. *)
LEMMA DateFacts ==
  ASSUME NEW era \in Int, NEW yoe \in Int, 0 <= yoe, yoe <= 399,
         NEW mp \in Int, 0 <= mp, mp <= 11, NEW dom \in Int
  PROVE  Date(CivilYear(era, yoe, mp), CivilMonth(mp), dom)
           = 146097 * era + YearStart(yoe) + MonthStart(mp) + dom - 1 - 719468
<1> DEFINE yy == yoe + 400 * era
<1>1. yy \div 400 = era /\ yy % 400 = yoe
  BY SMT
<1>2. CivilYear(era, yoe, mp) = yy + (IF mp < 10 THEN 0 ELSE 1) /\ yy \in Int
  BY SMT DEF CivilYear
<1> HIDE DEF yy
<1>3. CASE mp < 10
  BY <1>1, <1>2, <1>3, SMT DEF Date, CivilMonth, YearStart, MonthStart
<1>4. CASE ~ (mp < 10)
  BY <1>1, <1>2, <1>4, SMT DEF Date, CivilMonth, YearStart, MonthStart
<1> QED
  BY <1>3, <1>4, SMT

(* The first day after month mp of year yoe. *)
MonthEnd(era, yoe, mp) ==
  146097 * era + (IF mp < 11 THEN YearStart(yoe) + MonthStart(mp + 1) ELSE YearEnd(yoe)) - 719468

(* A month further is the next one, also over the year's end. *)
LEMMA NextMonth ==
  ASSUME NEW era \in Int, NEW yoe \in Int, 0 <= yoe, yoe <= 399,
         NEW mp \in Int, 0 <= mp, mp <= 11
  PROVE  Date(CivilYear(era, yoe, mp), CivilMonth(mp) + 1, 1) = MonthEnd(era, yoe, mp)
<1>1. CASE mp < 11 /\ mp # 9
  <2>1. /\ CivilYear(era, yoe, mp + 1) = CivilYear(era, yoe, mp)
        /\ CivilMonth(mp + 1) = CivilMonth(mp) + 1
    BY <1>1, SMT DEF CivilYear, CivilMonth
  <2>2. Date(CivilYear(era, yoe, mp + 1), CivilMonth(mp + 1), 1)
           = 146097 * era + YearStart(yoe) + MonthStart(mp + 1) + 1 - 1 - 719468
    BY <1>1, DateFacts, SMT
  <2>3. YearStart(yoe) \in Int /\ MonthStart(mp + 1) \in Int
    BY SMT DEF YearStart, MonthStart
  <2> QED
    BY <1>1, <2>1, <2>2, <2>3, SMT DEF MonthEnd
<1>2. CASE mp = 9
  <2>1. Date(CivilYear(era, yoe, 9), 13, 1) = Date(CivilYear(era, yoe, 10), 1, 1)
    BY SMT DEF Date, CivilYear
  <2>2. CivilMonth(9) = 12 /\ CivilMonth(10) = 1
    BY SMT DEF CivilMonth
  <2>3. Date(CivilYear(era, yoe, 10), CivilMonth(10), 1)
           = 146097 * era + YearStart(yoe) + MonthStart(10) + 1 - 1 - 719468
    BY DateFacts, SMT
  <2>4. YearStart(yoe) \in Int /\ MonthStart(10) \in Int
    BY SMT DEF YearStart, MonthStart
  <2> QED
    BY <1>2, <2>1, <2>2, <2>3, <2>4, SMT DEF MonthEnd
<1>3. CASE mp = 11
  <2>1. CivilMonth(11) = 2 /\ CivilMonth(0) = 3 /\ MonthStart(0) = 0
    BY SMT DEF CivilMonth, MonthStart
  <2>2. CASE yoe < 399
    <3>1. CivilYear(era, yoe, 11) = CivilYear(era, yoe + 1, 0)
      BY SMT DEF CivilYear
    <3>2. Date(CivilYear(era, yoe + 1, 0), CivilMonth(0), 1)
             = 146097 * era + YearStart(yoe + 1) + MonthStart(0) + 1 - 1 - 719468
      BY <2>2, DateFacts, SMT
    <3>3. YearStart(yoe + 1) \in Int
      BY SMT DEF YearStart
    <3> QED
      BY <1>3, <2>1, <2>2, <3>1, <3>2, <3>3, SMT DEF MonthEnd, YearEnd
  <2>3. CASE yoe = 399
    <3>1. CivilYear(era, 399, 11) = CivilYear(era + 1, 0, 0)
      BY SMT DEF CivilYear
    <3>2. Date(CivilYear(era + 1, 0, 0), CivilMonth(0), 1)
             = 146097 * (era + 1) + YearStart(0) + MonthStart(0) + 1 - 1 - 719468
      BY DateFacts, SMT
    <3>3. YearStart(0) = 0 /\ YearEnd(399) = 146097
      BY SMT DEF YearStart, YearEnd
    <3> QED
      BY <1>3, <2>1, <2>3, <3>1, <3>2, <3>3, SMT DEF MonthEnd
  <2> QED
    BY <2>2, <2>3, SMT
<1> QED
  BY <1>1, <1>2, <1>3, SMT

LEMMA YearsAreOrdered ==
  ASSUME NEW y1 \in Int, NEW y2 \in Int, 0 <= y1, y1 < y2, y2 <= 399
  PROVE  YearEnd(y1) <= YearStart(y2)
<1>1. y1 # 399 /\ y1 + 1 <= y2
  BY SMT
<1>2. YearStart(y1 + 1) <= YearStart(y2) /\ YearStart(y1 + 1) \in Int /\ YearStart(y2) \in Int
  BY <1>1, SMT DEF YearStart
<1> QED
  BY <1>1, <1>2, SMT DEF YearEnd

LEMMA MonthsAreOrdered ==
  ASSUME NEW m1 \in Int, NEW m2 \in Int, 0 <= m1, m1 < m2, m2 <= 11
  PROVE  MonthStart(m1 + 1) <= MonthStart(m2)
BY SMT DEF MonthStart

LEMMA YearInEra ==
  ASSUME NEW yoe \in Int, 0 <= yoe, yoe <= 399
  PROVE  0 <= YearStart(yoe) /\ YearEnd(yoe) <= 146097
BY SMT DEF YearStart, YearEnd

(* A day is in one month of one year. *)
LEMMA DayIsUnique ==
  ASSUME NEW day \in Int, NEW e1, NEW y1, NEW d1, NEW m1, NEW e2, NEW y2, NEW d2, NEW m2,
         IsDay(day, e1, y1, d1, m1), IsDay(day, e2, y2, d2, m2)
  PROVE  e1 = e2 /\ y1 = y2 /\ d1 = d2 /\ m1 = m2
<1>1. /\ e1 \in Int /\ y1 \in Int /\ d1 \in Int /\ m1 \in Int
      /\ e2 \in Int /\ y2 \in Int /\ d2 \in Int /\ m2 \in Int
      /\ 0 <= y1 /\ y1 <= 399 /\ 0 <= y2 /\ y2 <= 399 /\ 0 <= d1 /\ 0 <= d2
      /\ 0 <= m1 /\ m1 <= 11 /\ 0 <= m2 /\ m2 <= 11
  BY SMT DEF IsDay
<1>2. /\ YearStart(y1) \in Int /\ YearEnd(y1) \in Int /\ YearStart(y2) \in Int /\ YearEnd(y2) \in Int
      /\ 0 <= YearStart(y1) /\ YearEnd(y1) <= 146097 /\ 0 <= YearStart(y2) /\ YearEnd(y2) <= 146097
  BY <1>1, YearLength, YearInEra, SMT
<1>3. /\ YearStart(y1) + d1 < YearEnd(y1) /\ YearStart(y2) + d2 < YearEnd(y2)
      /\ day = 146097 * e1 + YearStart(y1) + d1 - 719468
      /\ day = 146097 * e2 + YearStart(y2) + d2 - 719468
  BY SMT DEF IsDay
<1>4. e1 = e2
  BY <1>1, <1>2, <1>3, SMT
<1>5. y1 = y2
  <2>1. YearStart(y1) + d1 = YearStart(y2) + d2
    BY <1>1, <1>2, <1>3, <1>4, SMT
  <2>2. ~ (y1 < y2)
    BY <1>1, <1>2, <1>3, <2>1, YearsAreOrdered, SMT
  <2>3. ~ (y2 < y1)
    BY <1>1, <1>2, <1>3, <2>1, YearsAreOrdered, SMT
  <2> QED
    BY <1>1, <2>2, <2>3, SMT
<1>6. d1 = d2
  BY <1>1, <1>2, <1>3, <1>4, <1>5, SMT
<1>7. m1 = m2
  <2>1. /\ MonthStart(m1) <= d1 /\ d1 < MonthStart(m1 + 1)
        /\ MonthStart(m2) <= d2 /\ d2 < MonthStart(m2 + 1)
    BY SMT DEF IsDay
  <2>2. /\ MonthStart(m1) \in Int /\ MonthStart(m1 + 1) \in Int
        /\ MonthStart(m2) \in Int /\ MonthStart(m2 + 1) \in Int
    BY <1>1, SMT DEF MonthStart
  <2>3. ~ (m1 < m2)
    BY <1>1, <1>6, <2>1, <2>2, MonthsAreOrdered, SMT
  <2>4. ~ (m2 < m1)
    BY <1>1, <1>6, <2>1, <2>2, MonthsAreOrdered, SMT
  <2> QED
    BY <1>1, <2>3, <2>4, SMT
<1> QED
  BY <1>4, <1>5, <1>6, <1>7

(* The day after is the next of the month, or the first of the next one. *)
LEMMA DayAfter ==
  ASSUME NEW day \in Int, NEW era, NEW yoe, NEW doy, NEW mp, IsDay(day, era, yoe, doy, mp)
  PROVE  /\ day < MonthEnd(era, yoe, mp)
         /\ \/ /\ day + 1 < MonthEnd(era, yoe, mp)
               /\ IsDay(day + 1, era, yoe, doy + 1, mp)
            \/ /\ day + 1 = MonthEnd(era, yoe, mp)
               /\ \E e2, y2, d2, m2 : IsDay(day + 1, e2, y2, d2, m2) /\ m2 # mp
<1>1. /\ era \in Int /\ yoe \in Int /\ doy \in Int /\ mp \in Int
      /\ 0 <= yoe /\ yoe <= 399 /\ 0 <= doy /\ 0 <= mp /\ mp <= 11
      /\ YearStart(yoe) + doy < YearEnd(yoe) /\ MonthStart(mp) <= doy /\ doy < MonthStart(mp + 1)
      /\ day = 146097 * era + YearStart(yoe) + doy - 719468
  BY SMT DEF IsDay
<1>2. /\ YearStart(yoe) \in Int /\ YearEnd(yoe) \in Int /\ YearEnd(yoe) - YearStart(yoe) <= 366
      /\ YearEnd(yoe) - YearStart(yoe) >= 365
  BY <1>1, SMT DEF YearStart, YearEnd
<1>3. MonthStart(mp) \in Int /\ MonthStart(mp + 1) \in Int /\ MonthStart(11) = 337 /\ MonthStart(12) = 367
  BY <1>1, SMT DEF MonthStart
<1>4. mp < 11 => MonthStart(mp + 1) <= 337
  BY <1>1, SMT DEF MonthStart
<1>5. day < MonthEnd(era, yoe, mp)
  BY <1>1, <1>2, <1>3, SMT DEF MonthEnd
<1>6. MonthEnd(era, yoe, mp) \in Int
  BY <1>1, <1>2, <1>3, SMT DEF MonthEnd
<1>7. CASE day + 1 < MonthEnd(era, yoe, mp)
  <2>1. /\ YearStart(yoe) + (doy + 1) < YearEnd(yoe)
        /\ MonthStart(mp) <= doy + 1 /\ doy + 1 < MonthStart(mp + 1)
        /\ day + 1 = 146097 * era + YearStart(yoe) + (doy + 1) - 719468
    <3>1. CASE mp < 11
      BY <1>1, <1>2, <1>3, <1>4, <1>7, <3>1, SMT DEF MonthEnd
    <3>2. CASE mp = 11
      BY <1>1, <1>2, <1>3, <1>7, <3>2, SMT DEF MonthEnd
    <3> QED
      BY <1>1, <3>1, <3>2, SMT
  <2>2. IsDay(day + 1, era, yoe, doy + 1, mp)
    BY <1>1, <2>1, SMT DEF IsDay
  <2> QED
    BY <1>5, <1>7, <2>2
<1>8. CASE day + 1 = MonthEnd(era, yoe, mp)
  <2> SUFFICES \E e2, y2, d2, m2 : IsDay(day + 1, e2, y2, d2, m2) /\ m2 # mp
    BY <1>5, <1>8
  <2>1. CASE mp < 11
    <3>1. doy + 1 = MonthStart(mp + 1)
      BY <1>1, <1>2, <1>3, <1>8, <2>1, SMT DEF MonthEnd
    <3>2. MonthStart(mp + 1) < MonthStart(mp + 1 + 1) /\ mp + 1 \in Int /\ mp + 1 # mp
      BY <1>1, SMT DEF MonthStart
    <3>3. YearStart(yoe) + (doy + 1) < YearEnd(yoe)
      BY <1>1, <1>2, <1>3, <1>4, <2>1, <3>1, SMT
    <3>4. IsDay(day + 1, era, yoe, doy + 1, mp + 1)
      BY <1>1, <1>3, <2>1, <3>1, <3>2, <3>3, <1>2, SMT DEF IsDay
    <3> QED
      BY <3>2, <3>4
  <2>2. CASE mp = 11
    <3>1. day + 1 = 146097 * era + YearEnd(yoe) - 719468
      BY <1>8, <2>2, SMT DEF MonthEnd
    <3>2. MonthStart(0) = 0 /\ MonthStart(0 + 1) = 31
      BY SMT DEF MonthStart
    <3>3. CASE yoe < 399
      <4>1. YearEnd(yoe) = YearStart(yoe + 1)
        BY <3>3, <1>1, SMT DEF YearEnd, YearStart
      <4>2. YearStart(yoe + 1) \in Int /\ YearStart(yoe + 1) + 0 < YearEnd(yoe + 1)
        BY <1>1, SMT DEF YearEnd, YearStart
      <4>3. IsDay(day + 1, era, yoe + 1, 0, 0)
        BY <1>1, <3>1, <3>2, <3>3, <4>1, <4>2, SMT DEF IsDay
      <4>4. mp # 0
        BY <2>2, SMT
      <4> QED
        BY <4>3, <4>4, SMT
    <3>4. CASE yoe = 399
      <4>1. YearEnd(399) = 146097 /\ YearStart(0) = 0 /\ YearEnd(0) = 365
        BY SMT DEF YearEnd, YearStart
      <4>2. IsDay(day + 1, era + 1, 0, 0, 0)
        BY <1>1, <3>1, <3>2, <3>4, <4>1, SMT DEF IsDay
      <4>3. mp # 0
        BY <2>2, SMT
      <4> QED
        BY <4>2, <4>3, SMT
    <3> QED
      BY <1>1, <3>3, <3>4, SMT
  <2> QED
    BY <1>1, <2>1, <2>2, SMT
<1> QED
  BY <1>5, <1>6, <1>7, <1>8, SMT

----------------------------------------------------------------------------
(* What ParseEnd reads off the id of a day's window. *)

LEMMA DateType ==
  ASSUME NEW year \in Int, NEW month \in Int, NEW dom \in Int
  PROVE  Date(year, month, dom) \in Int
<1> DEFINE y  == IF month > 12 THEN year + 1 ELSE year
           m  == IF month > 12 THEN month - 12 ELSE month
           yy == IF m <= 2 THEN y - 1 ELSE y
           mm == IF m > 2 THEN m - 3 ELSE m + 9
<1>1. yy \in Int /\ mm \in Int
  BY SMT
<1> HIDE DEF yy, mm
<1>2. (yy \div 400) * 146097 + 365 * (yy % 400) + (yy % 400) \div 4 - (yy % 400) \div 100
        + ((153 * mm + 2) \div 5 + dom - 1) - 719468 \in Int
  BY <1>1, SMT
<1> QED
  BY <1>2, SMT DEF Date, yy, mm

LEMMA CivilType ==
  ASSUME NEW day \in Int
  PROVE  /\ CivilFromDay(day).year \in Int
         /\ CivilFromDay(day).month \in Int
         /\ CivilFromDay(day).day \in Int
<1>1. PICK era, yoe, doy, mp :
         /\ IsDay(day, era, yoe, doy, mp)
         /\ CivilFromDay(day).year = CivilYear(era, yoe, mp)
         /\ CivilFromDay(day).month = CivilMonth(mp)
         /\ CivilFromDay(day).day = doy - MonthStart(mp) + 1
  BY CivilFacts
<1>2. era \in Int /\ yoe \in Int /\ doy \in Int /\ mp \in Int
  BY <1>1, SMT DEF IsDay
<1> QED
  BY <1>1, <1>2, SMT DEF CivilYear, CivilMonth, MonthStart

LEMMA DailyEnd ==
  ASSUME NEW day \in Int
  PROVE  ParseEnd(WindowID("daily", day)) = day + 1
<1>1. PICK era, yoe, doy, mp :
         /\ IsDay(day, era, yoe, doy, mp)
         /\ CivilFromDay(day).year = CivilYear(era, yoe, mp)
         /\ CivilFromDay(day).month = CivilMonth(mp)
         /\ CivilFromDay(day).day = doy - MonthStart(mp) + 1
  BY CivilFacts
<1>2. /\ era \in Int /\ yoe \in Int /\ 0 <= yoe /\ yoe <= 399
      /\ doy \in Int /\ mp \in Int /\ 0 <= mp /\ mp <= 11
      /\ day = 146097 * era + YearStart(yoe) + doy - 719468
  BY <1>1, SMT DEF IsDay
<1>3. MonthStart(mp) \in Int /\ YearStart(yoe) \in Int
  BY <1>2, SMT DEF MonthStart, YearStart
<1>4. Date(CivilYear(era, yoe, mp), CivilMonth(mp), doy - MonthStart(mp) + 1)
        = 146097 * era + YearStart(yoe) + MonthStart(mp) + (doy - MonthStart(mp) + 1) - 1 - 719468
  <2>1. doy - MonthStart(mp) + 1 \in Int
    BY <1>2, <1>3, SMT
  <2> QED
    BY <1>2, <2>1, DateFacts, SMT
<1>5. Date(CivilFromDay(day).year, CivilFromDay(day).month, CivilFromDay(day).day) = day
  BY <1>1, <1>2, <1>3, <1>4, SMT
<1>6. ParseEnd(<<"d", CivilFromDay(day).year, CivilFromDay(day).month, CivilFromDay(day).day>>) = day + 1
  BY <1>5, SMT DEF ParseEnd
<1>7. WindowID("daily", day) =
        <<"d", CivilFromDay(day).year, CivilFromDay(day).month, CivilFromDay(day).day>>
  BY DEF WindowID
<1> QED
  BY <1>6, <1>7

(* The Monday after the day's week. *)
Monday(day) == day - Weekday(day) + 7

LEMMA MondayFacts ==
  ASSUME NEW day \in Int
  PROVE  /\ Monday(day) \in Int /\ day < Monday(day) /\ day + 1 <= Monday(day)
         /\ day + 1 = Monday(day) => Monday(day + 1) = Monday(day) + 7
         /\ day + 1 # Monday(day) => Monday(day + 1) = Monday(day)
BY SMT DEF Monday, Weekday

LEMMA WeeklyID ==
  ASSUME NEW day \in Int
  PROVE  LET th   == Monday(day) - 4
             year == CivilFromDay(th).year
         IN  WindowID("weekly", day) = <<"w", year, (th - Date(year, 1, 1)) \div 7 + 1>>
<1>1. Monday(day) - 4 = day - Weekday(day) + 3
  BY SMT DEF Monday, Weekday
<1>2. ISOWeek(day) = [year |-> CivilFromDay(Monday(day) - 4).year,
                      week |-> (Monday(day) - 4 - Date(CivilFromDay(Monday(day) - 4).year, 1, 1)) \div 7 + 1]
  BY <1>1, Zenon DEF ISOWeek
<1> QED
  BY <1>2 DEF WindowID

LEMMA WeekStart ==
  ASSUME NEW y, NEW w, NEW jan4, jan4 = Date(y, 1, 4)
  PROVE  isoWeekStart(y, w) = jan4 - Weekday(jan4) + 7 * (w - 1)
BY DEF isoWeekStart

LEMMA WeeklyEnd ==
  ASSUME NEW day \in Int
  PROVE  ParseEnd(WindowID("weekly", day)) = Monday(day)
<1> DEFINE th   == Monday(day) - 4
           year == CivilFromDay(th).year
           jan1 == Date(year, 1, 1)
           week == (th - jan1) \div 7 + 1
<1>1. th \in Int /\ th % 7 = 0 /\ Monday(day) = th + 4
  BY SMT DEF Monday, Weekday
<1> HIDE DEF th
<1>2. year \in Int
  BY <1>1, CivilType
<1>3. WindowID("weekly", day) = <<"w", year, week>>
  BY WeeklyID DEF th
<1> HIDE DEF year
<1>4. jan1 \in Int
  BY <1>2, DateType
<1>5. Date(year, 1, 4) = jan1 + 3
  BY <1>2, SMT DEF Date
<1> HIDE DEF jan1
<1>6. (jan1 + 3) - (((jan1 + 3) + 3) % 7) + 7 * (((th - jan1) \div 7 + 1) - 1) = th - 3
  <2> DEFINE k == (th - jan1) \div 7
             q == th \div 7
             j == (jan1 + 6) \div 7
             wd == (jan1 + 6) % 7
  <2>1. k \in Int /\ 7 * k <= th - jan1 /\ th - jan1 < 7 * k + 7
    BY <1>1, <1>4, SMT
  <2>2. q \in Int /\ th = 7 * q
    BY <1>1, SMT
  <2>3. j \in Int /\ wd = jan1 + 6 - 7 * j /\ 7 * j <= jan1 + 6 /\ jan1 + 6 < 7 * j + 7
    BY <1>4, SMT
  <2>4. (jan1 + 3) + 3 = jan1 + 6
    BY <1>4, SMT
  <2> HIDE DEF k, q, j, wd
  <2>5. j = q - k
    BY <1>4, <2>1, <2>2, <2>3, SMT
  <2>6. (jan1 + 3) - wd + 7 * ((k + 1) - 1) = th - 3
    BY <1>4, <2>1, <2>2, <2>3, <2>5, SMT
  <2> QED
    BY <2>4, <2>6 DEF k, wd
<1>7. isoWeekStart(year, week) = th - 3
  <2>1. isoWeekStart(year, week) = (jan1 + 3) - Weekday(jan1 + 3) + 7 * (week - 1)
    BY <1>5, WeekStart
  <2>2. Weekday(jan1 + 3) = ((jan1 + 3) + 3) % 7
    BY DEF Weekday
  <2>3. week - 1 = ((th - jan1) \div 7 + 1) - 1
    OBVIOUS
  <2> QED
    BY <1>6, <2>1, <2>2, <2>3
<1> HIDE DEF week
<1>8. ParseEnd(<<"w", year, week>>) = isoWeekStart(year, week) + 7
  BY SMT DEF ParseEnd
<1> QED
  BY <1>1, <1>3, <1>7, <1>8, SMT

LEMMA MonthlyEnd ==
  ASSUME NEW day \in Int, NEW era, NEW yoe, NEW doy, NEW mp, IsDay(day, era, yoe, doy, mp)
  PROVE  /\ WindowID("monthly", day) = <<"m", CivilYear(era, yoe, mp), CivilMonth(mp)>>
         /\ ParseEnd(WindowID("monthly", day)) = MonthEnd(era, yoe, mp)
<1>1. PICK e2, y2, d2, m2 :
         /\ IsDay(day, e2, y2, d2, m2)
         /\ CivilFromDay(day).year = CivilYear(e2, y2, m2)
         /\ CivilFromDay(day).month = CivilMonth(m2)
  BY CivilFacts
<1>2. e2 = era /\ y2 = yoe /\ m2 = mp
  BY <1>1, DayIsUnique
<1>3. WindowID("monthly", day) = <<"m", CivilFromDay(day).year, CivilFromDay(day).month>>
  BY DEF WindowID
<1>4. WindowID("monthly", day) = <<"m", CivilYear(era, yoe, mp), CivilMonth(mp)>>
  BY <1>1, <1>2, <1>3
<1>5. ParseEnd(<<"m", CivilYear(era, yoe, mp), CivilMonth(mp)>>)
        = Date(CivilYear(era, yoe, mp), CivilMonth(mp) + 1, 1)
  BY SMT DEF ParseEnd
<1>6. era \in Int /\ yoe \in Int /\ 0 <= yoe /\ yoe <= 399 /\ mp \in Int /\ 0 <= mp /\ mp <= 11
  BY SMT DEF IsDay
<1> QED
  BY <1>4, <1>5, <1>6, NextMonth, SMT

(* The window of a dated kind ends after the day, and its id is dated. *)
LEMMA EndAfterDay ==
  ASSUME NEW kind \in {"daily", "weekly", "monthly"}, NEW day \in Int
  PROVE  /\ ParseEnd(WindowID(kind, day)) \in Int
         /\ day < ParseEnd(WindowID(kind, day))
<1>1. CASE kind = "daily"
  BY <1>1, DailyEnd, SMT
<1>2. CASE kind = "weekly"
  BY <1>2, WeeklyEnd, MondayFacts, SMT
<1>3. CASE kind = "monthly"
  <2>1. PICK era, yoe, doy, mp : IsDay(day, era, yoe, doy, mp)
    BY CivilFacts
  <2>2. ParseEnd(WindowID("monthly", day)) = MonthEnd(era, yoe, mp)
    BY <2>1, MonthlyEnd
  <2>3. day < MonthEnd(era, yoe, mp)
    BY <2>1, DayAfter
  <2>4. MonthEnd(era, yoe, mp) \in Int
    BY <2>1, SMT DEF IsDay, MonthEnd, MonthStart, YearStart, YearEnd
  <2> QED
    BY <1>3, <2>2, <2>3, <2>4
<1> QED
  BY <1>1, <1>2, <1>3

LEMMA OtherKinds ==
  ASSUME NEW kind, kind \notin {"daily", "weekly", "monthly"}, NEW day
  PROVE  WindowID(kind, day) = <<"all">> /\ ~ Dated(WindowID(kind, day))
BY DEF WindowID, Dated

(* The window after a day's own begins on the day ParseEnd gives. *)
LEMMA TilesDay ==
  ASSUME NEW kind \in {"daily", "weekly", "monthly"}, NEW day \in Int
  PROVE  WindowID(kind, day + 1) = WindowID(kind, day) <=> day + 1 # ParseEnd(WindowID(kind, day))
<1>0. day + 1 \in Int
  BY SMT
<1>1. CASE kind = "daily"
  <2>1. /\ ParseEnd(WindowID("daily", day)) = day + 1
        /\ ParseEnd(WindowID("daily", day + 1)) = day + 1 + 1
    BY <1>0, DailyEnd
  <2>2. day + 1 # day + 1 + 1
    BY SMT
  <2> QED
    BY <1>1, <2>1, <2>2
<1>2. CASE kind = "weekly"
  <2>1. /\ ParseEnd(WindowID("weekly", day)) = Monday(day)
        /\ ParseEnd(WindowID("weekly", day + 1)) = Monday(day + 1)
    BY <1>0, WeeklyEnd
  <2>2. CASE day + 1 = Monday(day)
    <3>1. Monday(day + 1) # Monday(day)
      BY <2>2, MondayFacts, SMT
    <3> QED
      BY <1>2, <2>1, <2>2, <3>1
  <2>3. CASE day + 1 # Monday(day)
    <3>1. Monday(day + 1) = Monday(day)
      BY <2>3, MondayFacts, SMT
    <3>2. WindowID("weekly", day + 1) = WindowID("weekly", day)
      BY <1>0, <3>1, WeeklyID
    <3> QED
      BY <1>2, <2>1, <2>3, <3>2
  <2> QED
    BY <2>2, <2>3
<1>3. CASE kind = "monthly"
  <2>1. PICK era, yoe, doy, mp : IsDay(day, era, yoe, doy, mp)
    BY CivilFacts
  <2>2. /\ WindowID("monthly", day) = <<"m", CivilYear(era, yoe, mp), CivilMonth(mp)>>
        /\ ParseEnd(WindowID("monthly", day)) = MonthEnd(era, yoe, mp)
    BY <2>1, MonthlyEnd
  <2>3. CASE day + 1 < MonthEnd(era, yoe, mp) /\ IsDay(day + 1, era, yoe, doy + 1, mp)
    <3>1. WindowID("monthly", day + 1) = <<"m", CivilYear(era, yoe, mp), CivilMonth(mp)>>
      BY <1>0, <2>3, MonthlyEnd
    <3>2. day + 1 # MonthEnd(era, yoe, mp)
      BY <2>3, <1>0, EndAfterDay, <2>2, SMT
    <3> QED
      BY <1>3, <2>2, <3>1, <3>2
  <2>4. ASSUME day + 1 = MonthEnd(era, yoe, mp),
               NEW e2, NEW y2, NEW d2, NEW m2, IsDay(day + 1, e2, y2, d2, m2), m2 # mp
        PROVE  WindowID("monthly", day + 1) # WindowID("monthly", day)
    <3>1. WindowID("monthly", day + 1) = <<"m", CivilYear(e2, y2, m2), CivilMonth(m2)>>
      BY <1>0, <2>4, MonthlyEnd
    <3>2. mp \in Int /\ 0 <= mp /\ mp <= 11 /\ m2 \in Int /\ 0 <= m2 /\ m2 <= 11
      BY <2>1, <2>4, SMT DEF IsDay
    <3>3. CivilMonth(m2) # CivilMonth(mp)
      BY <2>4, <3>2, SMT DEF CivilMonth
    <3> QED
      BY <2>2, <3>1, <3>3
  <2> QED
    BY <1>3, <2>1, <2>2, <2>3, <2>4, DayAfter
<1> QED
  BY <1>1, <1>2, <1>3

----------------------------------------------------------------------------
(* The reaper. *)

(* A window that Sweep has found old enough stays so: ParseEnd gives its end. *)
Over(id) == AgedOut(id) /\ ParseEnd(id) \in Int

(* Nothing is expired, or about to be, before its window has aged out. *)
AgeInv ==
  /\ \A w \in DOMAIN z : (Dated(w) => ParseEnd(w) \in Int) /\ (z[w] # 0 => Over(w))
  /\ \A r \in Reapers : \A id \in scan[r] : Over(id)

IInv == TypeOK /\ AgeInv /\ HistogramGoesToo

LEMMA InitInv == Init => IInv
<1> SUFFICES ASSUME Init PROVE IInv
  OBVIOUS
<1>1. TypeOK
  BY WindowAssumption, SMT DEF Init, TypeOK, Running
<1>2. AgeInv
  BY SMT DEF Init, AgeInv
<1>3. HistogramGoesToo
  BY SMT DEF Init, HistogramGoesToo
<1> QED
  BY <1>1, <1>2, <1>3 DEF IInv

(* Expiries stay within TTL, whatever is done to the keys. *)
Expiries(keys) == \A w \in DOMAIN keys : keys[w] \in 0..TTL

LEMMA WrittenKeys ==
  ASSUME NEW keys, NEW ids, Expiries(keys)
  PROVE  /\ DOMAIN Written(keys, ids) = DOMAIN keys \cup ids
         /\ \A w \in DOMAIN keys : Written(keys, ids)[w] = keys[w]
         /\ \A w \in ids \ DOMAIN keys : Written(keys, ids)[w] = 0
         /\ Expiries(Written(keys, ids))
BY WindowAssumption, SMT DEF Written, Expiries

LEMMA ExpireKeys ==
  ASSUME NEW keys, NEW id, Expiries(keys)
  PROVE  /\ DOMAIN Expire(keys, id) = DOMAIN keys
         /\ \A w \in DOMAIN keys : Expire(keys, id)[w] = IF w = id THEN TTL ELSE keys[w]
         /\ Expiries(Expire(keys, id))
BY WindowAssumption, SMT DEF Expire, Expiries

LEMMA ElapseKeys ==
  ASSUME NEW keys, Expiries(keys)
  PROVE  /\ DOMAIN Elapse(keys) = {w \in DOMAIN keys : keys[w] # 1}
         /\ \A w \in DOMAIN Elapse(keys) : Elapse(keys)[w] = IF keys[w] = 0 THEN 0 ELSE keys[w] - 1
         /\ Expiries(Elapse(keys))
BY WindowAssumption, SMT DEF Elapse, Expiries

LEMMA RemoveKeys ==
  ASSUME NEW w, Expiries(z), Remove(w)
  PROVE  /\ DOMAIN z' \subseteq DOMAIN z /\ DOMAIN z \ DOMAIN z' \subseteq {w}
         /\ \A v \in DOMAIN z' : z'[v] = z[v]
         /\ Expiries(z')
<1>1. CASE UNCHANGED z
  BY <1>1 DEF Expiries
<1>2. CASE z' = [v \in DOMAIN z \ {w} |-> z[v]]
  BY <1>2 DEF Expiries
<1> QED
  BY <1>1, <1>2 DEF Remove

LEMMA NextTyped == IInv /\ [Next]_vars => TypeOK'
<1> SUFFICES ASSUME TypeOK, [Next]_vars PROVE TypeOK'
  BY DEF IInv
<1> USE WindowAssumption
<1>0. Expiries(z) /\ Expiries(h)
  BY DEF TypeOK, Expiries
<1>t. /\ start \in Nat /\ now \in Nat /\ start <= now /\ now <= start + Horizon
      /\ due \in [Reapers -> 0..Interval]
  BY SMT DEF TypeOK
<1>1. ASSUME NEW delay \in Delays, Apply(delay) PROVE TypeOK'
  <2>1. Expiries(z')
    BY <1>0, <1>1, WrittenKeys DEF Apply
  <2> QED
    BY <1>1, <2>1, SMT DEF Apply, TypeOK, Running, Expiries
<1>2. CASE MaintainHistograms
  <2>1. Expiries(h')
    <3>1. h' = Written(h, counting) \/ h' = h
      BY <1>2 DEF MaintainHistograms, Count
    <3>2. Expiries(Written(h, counting))
      BY <1>0, WrittenKeys
    <3> QED
      BY <1>0, <3>1, <3>2 DEF Expiries
  <2> QED
    BY <1>2, <2>1, SMT DEF MaintainHistograms, TypeOK, Running, Expiries
<1>3. ASSUME NEW r \in Reapers, SweepStart(r) PROVE TypeOK'
  BY <1>3, SMT DEF SweepStart, TypeOK, Running
<1>4. ASSUME NEW r \in Reapers, NEW id \in scan[r], SweepKey(r, id) PROVE TypeOK'
  <2>1. Expiries(z') /\ Expiries(h')
    BY <1>0, <1>4, ExpireKeys DEF SweepKey
  <2>2. \A q \in Reapers : scan'[q] # {} => q \in sweeping'
    BY <1>4, SMT DEF SweepKey, TypeOK
  <2> QED
    BY <1>4, <2>1, <2>2, SMT DEF SweepKey, TypeOK, Running, Expiries
<1>5. ASSUME NEW r \in Reapers, SweepEnd(r) PROVE TypeOK'
  BY <1>5, SMT DEF SweepEnd, TypeOK, Running
<1>6. ASSUME NEW r \in Reapers, SweepFails(r) PROVE TypeOK'
  <2>1. Expiries(z')
    BY <1>0, <1>6, ExpireKeys DEF SweepFails
  <2>2. \A q \in Reapers : scan'[q] # {} => q \in sweeping'
    BY <1>6, SMT DEF SweepFails, TypeOK
  <2> QED
    BY <1>6, <2>1, <2>2, SMT DEF SweepFails, TypeOK, Running, Expiries
<1>7. ASSUME NEW r \in Reapers, Restart(r) PROVE TypeOK'
  BY <1>7, SMT DEF Restart, TypeOK, Running
<1>8. CASE Tick
  <2>1. Expiries(z') /\ Expiries(h')
    BY <1>0, <1>8, ElapseKeys DEF Tick
  <2>2. due' \in [Reapers -> 0..Interval]
    BY <1>t, <1>8, SMT DEF Tick
  <2>3. now' \in start..(start + Horizon)
    BY <1>t, <1>8, SMT DEF Tick
  <2> QED
    BY <1>8, <2>1, <2>2, <2>3, SMT DEF Tick, TypeOK, Running, Expiries
<1>9. CASE UNCHANGED vars
  BY <1>9, SMT DEF vars, TypeOK, Running
<1>10. ASSUME NEW w \in DOMAIN z, Remove(w) PROVE TypeOK'
  <2>1. Expiries(z')
    BY <1>0, <1>10, RemoveKeys
  <2> QED
    BY <1>10, <2>1, SMT DEF Remove, TypeOK, Running, Expiries
<1>11. CASE RemoveFromHistogram
  <2>1. Expiries(h')
    <3>1. h' = Written(h, leaving) \/ h' = h
      BY <1>11 DEF RemoveFromHistogram, Count
    <3>2. Expiries(Written(h, leaving))
      BY <1>0, WrittenKeys
    <3> QED
      BY <1>0, <3>1, <3>2 DEF Expiries
  <2> QED
    BY <1>11, <2>1, SMT DEF RemoveFromHistogram, TypeOK, Running, Expiries
<1> QED
  BY <1>1, <1>2, <1>3, <1>4, <1>5, <1>6, <1>7, <1>8, <1>9, <1>10, <1>11 DEF Next, Sweep

(* What has aged out stays so as time passes. *)
LEMMA OverStays ==
  ASSUME IInv, [Next]_vars, NEW id, Over(id)
  PROVE  Over(id)'
<1>1. now \in Int /\ now' \in Int /\ now <= now'
  <2>1. now' = now \/ Tick
    BY DEF Next, Apply, MaintainHistograms, Remove, RemoveFromHistogram, Sweep, SweepStart,
       SweepKey, SweepEnd, SweepFails, Restart, vars
  <2>2. now \in Int
    BY WindowAssumption, SMT DEF IInv, TypeOK
  <2> QED
    BY <2>1, <2>2, SMT DEF Tick
<1> QED
  BY <1>1, WindowAssumption, SMT DEF Over, AgedOut, Dated, ParseEnd, isoWeekStart, Date, Weekday

LEMMA NextAged == IInv /\ [Next]_vars => AgeInv'
<1> SUFFICES ASSUME IInv, [Next]_vars PROVE AgeInv'
  OBVIOUS
<1> USE WindowAssumption
<1>0. /\ Expiries(z) /\ Expiries(h) /\ DOMAIN scan = Reapers
      /\ \A r \in Reapers : scan[r] # {} => r \in sweeping
  BY DEF IInv, TypeOK, Expiries
<1>a. /\ \A w \in DOMAIN z : Dated(w) => ParseEnd(w) \in Int
      /\ \A w \in DOMAIN z : z[w] # 0 => Over(w)
      /\ \A r \in Reapers : \A id \in scan[r] : Over(id)
  BY DEF IInv, AgeInv
<1>b. ASSUME NEW id, Over(id) PROVE Over(id)'
  BY <1>b, OverStays
<1> DEFINE RankAged == \A w \in DOMAIN z : (Dated(w) => ParseEnd(w) \in Int) /\ (z[w] # 0 => Over(w))
           ScanAged == \A r \in Reapers : \A id \in scan[r] : Over(id)
<1>c. UNCHANGED z => RankAged'
  BY <1>a, <1>b DEF Dated, ParseEnd, isoWeekStart, Date, Weekday
<1>d. (\A r \in Reapers : scan'[r] \subseteq scan[r]) => ScanAged'
  BY <1>a, <1>b
<1>q. SUFFICES RankAged' /\ ScanAged'
  BY DEF AgeInv
<1>1. ASSUME NEW delay \in Delays, Apply(delay) PROVE RankAged' /\ ScanAged'
  <2> DEFINE ids == {WindowID(kind, now - delay) : kind \in Kinds} \cup CustomIDs
  <2>1. z' = Written(z, ids)
    BY <1>1 DEF Apply
  <2>2. now - delay \in Int
    BY SMT DEF IInv, TypeOK
  <2>3. \A w \in ids : Dated(w) => ParseEnd(w) \in Int
    BY <2>2, EndAfterDay, OtherKinds, CustomAssumption
  <2> HIDE DEF ids
  <2>4. /\ DOMAIN z' = DOMAIN z \cup ids /\ (\A w \in DOMAIN z : z'[w] = z[w])
        /\ \A w \in ids \ DOMAIN z : z'[w] = 0
    <3>1. /\ DOMAIN Written(z, ids) = DOMAIN z \cup ids
          /\ \A w \in DOMAIN z : Written(z, ids)[w] = z[w]
          /\ \A w \in ids \ DOMAIN z : Written(z, ids)[w] = 0
      BY <1>0, WrittenKeys
    <3> QED
      BY <2>1, <3>1
  <2>5. RankAged'
    BY <1>a, <1>b, <2>3, <2>4
  <2> QED
    BY <1>1, <1>d, <2>5 DEF Apply
<1>2. CASE MaintainHistograms
  BY <1>2, <1>c, <1>d DEF MaintainHistograms
<1>3. ASSUME NEW r \in Reapers, SweepStart(r) PROVE RankAged' /\ ScanAged'
  <2>1. \A id \in DOMAIN z : AgedOut(id) => Over(id)
    BY <1>a DEF Over, AgedOut
  <2>2. \A q \in Reapers : \A id \in scan'[q] : Over(id)
    BY <1>0, <1>3, <1>a, <2>1 DEF SweepStart
  <2>3. ScanAged'
    BY <1>b, <2>2
  <2> QED
    BY <1>3, <1>c, <2>3 DEF SweepStart
<1>4. ASSUME NEW r \in Reapers, NEW id \in scan[r], SweepKey(r, id) PROVE RankAged' /\ ScanAged'
  <2>1. \A q \in Reapers : scan'[q] \subseteq scan[q]
    BY <1>0, <1>4 DEF SweepKey
  <2>2. DOMAIN z' = DOMAIN z /\ \A w \in DOMAIN z : z'[w] = z[w] \/ w = id
    BY <1>0, <1>4, ExpireKeys DEF SweepKey
  <2>3. Over(id)
    BY <1>4, <1>a
  <2>4. RankAged'
    BY <1>a, <1>b, <2>2, <2>3
  <2> QED
    BY <1>d, <2>1, <2>4
<1>5. ASSUME NEW r \in Reapers, SweepEnd(r) PROVE RankAged' /\ ScanAged'
  BY <1>5, <1>c, <1>d DEF SweepEnd
<1>6. ASSUME NEW r \in Reapers, SweepFails(r) PROVE RankAged' /\ ScanAged'
  <2>1. \A q \in Reapers : scan'[q] \subseteq scan[q]
    BY <1>0, <1>6 DEF SweepFails
  <2>2. ASSUME NEW id \in scan[r], z' = Expire(z, id) PROVE RankAged'
    <3>1. DOMAIN z' = DOMAIN z /\ \A w \in DOMAIN z : z'[w] = z[w] \/ w = id
      BY <1>0, <2>2, ExpireKeys
    <3>2. Over(id)
      BY <2>2, <1>a
    <3> QED
      BY <1>a, <1>b, <3>1, <3>2
  <2> QED
    BY <1>6, <1>c, <1>d, <2>1, <2>2 DEF SweepFails
<1>7. ASSUME NEW r \in Reapers, Restart(r) PROVE RankAged' /\ ScanAged'
  BY <1>7, <1>c, <1>d DEF Restart
<1>8. CASE Tick
  <2>1. DOMAIN z' \subseteq DOMAIN z /\ \A w \in DOMAIN z' : z'[w] # 0 => z[w] # 0
    BY <1>0, <1>8, ElapseKeys DEF Tick
  <2>2. RankAged'
    BY <1>a, <1>b, <2>1
  <2> QED
    BY <1>8, <1>d, <2>2 DEF Tick
<1>9. CASE UNCHANGED vars
  BY <1>9, <1>c, <1>d DEF vars
<1>10. ASSUME NEW v \in DOMAIN z, Remove(v) PROVE RankAged' /\ ScanAged'
  <2>1. DOMAIN z' \subseteq DOMAIN z /\ \A w \in DOMAIN z' : z'[w] = z[w]
    BY <1>0, <1>10, RemoveKeys
  <2>2. RankAged'
    BY <1>a, <1>b, <2>1
  <2> QED
    BY <1>10, <1>d, <2>2 DEF Remove
<1>11. CASE RemoveFromHistogram
  BY <1>11, <1>c, <1>d DEF RemoveFromHistogram
<1> HIDE DEF RankAged, ScanAged
<1> QED
  BY <1>1, <1>2, <1>3, <1>4, <1>5, <1>6, <1>7, <1>8, <1>9, <1>10, <1>11 DEF Next, Sweep

(* HINCRBY keeps the pairs: a histogram it creates starts without an expiry, as its *)
(* ranking has, or is recorded as torn.                                             *)
LEMMA CountPairs ==
  ASSUME NEW ids, Count(ids), z' = z, Expiries(h), HistogramGoesToo
  PROVE  HistogramGoesToo'
<1>1. /\ DOMAIN h' = DOMAIN h \cup ids /\ (\A w \in DOMAIN h : h'[w] = h[w])
      /\ \A w \in ids \ DOMAIN h : h'[w] = 0
  BY WrittenKeys DEF Count
<1>2. torn' = torn \cup {w \in ids \ DOMAIN h : Going(w)}
  BY DEF Count
<1> QED
  BY <1>1, <1>2 DEF HistogramGoesToo, Going

LEMMA NextPaired == IInv /\ [Next]_vars => HistogramGoesToo'
<1> SUFFICES ASSUME IInv, [Next]_vars PROVE HistogramGoesToo'
  OBVIOUS
<1>0. Expiries(z) /\ Expiries(h)
  BY DEF IInv, TypeOK, Expiries
<1>b. HistogramGoesToo
  BY DEF IInv
<1>a. \A w \in DOMAIN h \ torn : w \in DOMAIN z /\ h[w] = z[w]
  BY <1>b DEF HistogramGoesToo
<1>1. ASSUME NEW delay \in Delays, Apply(delay) PROVE HistogramGoesToo'
  <2>1. h' = h /\ torn' = torn
    BY <1>1 DEF Apply
  <2>2. DOMAIN z \subseteq DOMAIN z' /\ \A w \in DOMAIN z : z'[w] = z[w]
    <3>1. PICK ids : z' = Written(z, ids)
      BY <1>1 DEF Apply
    <3>2. /\ DOMAIN Written(z, ids) = DOMAIN z \cup ids
          /\ \A w \in DOMAIN z : Written(z, ids)[w] = z[w]
      BY <1>0, WrittenKeys
    <3> QED
      BY <3>1, <3>2
  <2> QED
    BY <1>a, <2>1, <2>2 DEF HistogramGoesToo
<1>2. CASE MaintainHistograms
  <2>1. z' = z
    BY <1>2 DEF MaintainHistograms
  <2>2. CASE Count(counting)
    BY <1>0, <1>b, <2>1, <2>2, CountPairs
  <2>3. CASE UNCHANGED <<h, torn>>
    BY <1>a, <2>1, <2>3 DEF HistogramGoesToo
  <2> QED
    BY <1>2, <2>2, <2>3 DEF MaintainHistograms
<1>3. ASSUME NEW r \in Reapers, NEW id \in scan[r], SweepKey(r, id) PROVE HistogramGoesToo'
  <2>1. /\ DOMAIN z' = DOMAIN z /\ \A w \in DOMAIN z : z'[w] = IF w = id THEN TTL ELSE z[w]
        /\ DOMAIN h' = DOMAIN h /\ \A w \in DOMAIN h : h'[w] = IF w = id THEN TTL ELSE h[w]
    BY <1>0, <1>3, ExpireKeys DEF SweepKey
  <2>2. torn' = torn \ ({id} \cap DOMAIN z)
    BY <1>3 DEF SweepKey
  <2> QED
    BY <1>a, <2>1, <2>2 DEF HistogramGoesToo
<1>4. ASSUME NEW r \in Reapers, SweepFails(r) PROVE HistogramGoesToo'
  <2>1. h' = h
    BY <1>4 DEF SweepFails
  <2>2. CASE UNCHANGED <<z, torn>>
    BY <1>a, <2>1, <2>2 DEF HistogramGoesToo
  <2>3. ASSUME NEW id \in scan[r], z' = Expire(z, id), torn' = torn \cup {id} PROVE HistogramGoesToo'
    <3>1. DOMAIN z' = DOMAIN z /\ \A w \in DOMAIN z : z'[w] = IF w = id THEN TTL ELSE z[w]
      BY <1>0, <2>3, ExpireKeys
    <3> QED
      BY <1>a, <2>1, <2>3, <3>1 DEF HistogramGoesToo
  <2> QED
    BY <1>4, <2>2, <2>3 DEF SweepFails
<1>5. CASE Tick
  <2>1. /\ DOMAIN z' = {w \in DOMAIN z : z[w] # 1}
        /\ \A w \in DOMAIN z' : z'[w] = IF z[w] = 0 THEN 0 ELSE z[w] - 1
        /\ DOMAIN h' = {w \in DOMAIN h : h[w] # 1}
        /\ \A w \in DOMAIN h' : h'[w] = IF h[w] = 0 THEN 0 ELSE h[w] - 1
    BY <1>0, <1>5, ElapseKeys DEF Tick
  <2>2. torn' = torn
    BY <1>5 DEF Tick
  <2> QED
    BY <1>a, <2>1, <2>2 DEF HistogramGoesToo
<1>6. CASE UNCHANGED <<z, h, torn>>
  BY <1>6, <1>a DEF HistogramGoesToo
<1>7. ASSUME NEW v \in DOMAIN z, Remove(v) PROVE HistogramGoesToo'
  <2>1. h' = h
    BY <1>7 DEF Remove
  <2>2. CASE UNCHANGED <<z, torn>>
    BY <1>a, <2>1, <2>2 DEF HistogramGoesToo
  <2>3. CASE z' = [w \in DOMAIN z \ {v} |-> z[w]] /\ torn' = torn \cup {v}
    BY <1>a, <2>1, <2>3 DEF HistogramGoesToo
  <2> QED
    BY <1>7, <2>2, <2>3 DEF Remove
<1>8. CASE RemoveFromHistogram
  <2>1. z' = z
    BY <1>8 DEF RemoveFromHistogram
  <2>2. CASE Count(leaving)
    BY <1>0, <1>b, <2>1, <2>2, CountPairs
  <2>3. CASE UNCHANGED <<h, torn>>
    BY <1>a, <2>1, <2>3 DEF HistogramGoesToo
  <2> QED
    BY <1>8, <2>2, <2>3 DEF RemoveFromHistogram
<1> QED
  BY <1>1, <1>2, <1>3, <1>4, <1>5, <1>6, <1>7, <1>8
  DEF Next, Sweep, SweepStart, SweepEnd, Restart, vars

LEMMA InvCorrect == Spec => []IInv
<1>1. IInv /\ [Next]_vars => IInv'
  BY NextTyped, NextAged, NextPaired DEF IInv
<1> QED
  BY InitInv, <1>1, PTL DEF Spec

----------------------------------------------------------------------------
(* The keys and the reapers' timers keep their types for every instance: an    *)
(* expiry is never more than TTL, and only a sweep that runs has keys to expire. *)
THEOREM TypeCorrect == Spec => []TypeOK
<1>1. IInv => TypeOK
  BY DEF IInv
<1> QED
  BY InvCorrect, <1>1, PTL

(* Windows tile the calendar on every day from 1970 on: what WindowID files and *)
(* ParseEnd reads back agree on where a day, an ISO week and a month end.       *)
THEOREM WindowsTileTheCalendar == Spec => []WindowsTile
<1>1. IInv => WindowsTile
  <2> SUFFICES ASSUME IInv, NEW kind \in Kinds \ {"all"}
               PROVE  /\ now < ParseEnd(WindowID(kind, now))
                      /\ WindowID(kind, now + 1) = WindowID(kind, now)
                           <=> now + 1 # ParseEnd(WindowID(kind, now))
    BY DEF WindowsTile
  <2>1. now \in Int
    BY WindowAssumption, SMT DEF IInv, TypeOK
  <2>2. kind \in {"daily", "weekly", "monthly"}
    BY KindAssumption
  <2> QED
    BY <2>1, <2>2, EndAfterDay, TilesDay
<1> QED
  BY InvCorrect, <1>1, PTL

(* A histogram and its ranking expire together, but where a sweep's pipeline was  *)
(* cut, a sweep came between the two pipelines of a batch or the ranking's last    *)
(* member was removed since a sweep last expired both: for any number of reapers,  *)
(* windows, late events and removals.                                              *)
THEOREM HistogramsGoToo == Spec => []HistogramGoesToo
<1>1. IInv => HistogramGoesToo
  BY DEF IInv
<1> QED
  BY InvCorrect, <1>1, PTL

LEMMA TooLate ==
  ASSUME NEW today \in Int, NEW next \in Int, today <= next, NEW end \in Int,
         NEW d \in (next - 1 - Retain)..next, d < end, today > end + Retain
  PROVE  FALSE
BY WindowAssumption, SMT

(* No step but the removal of its last member loses the ranking of a window that *)
(* lasts or is retained, for any retention, interval and expiry, any reapers and *)
(* events however late.                                                          *)
THEOREM RetainedWindowsAreKept == Spec => RetainedWindowsKept
<1> DEFINE Kept == (DOMAIN z \ DOMAIN z') \cap RetainedOn[now'] \subseteq leaving'
<1>1. ASSUME IInv, IInv', [Next]_vars PROVE [Kept]_vars
  <2> SUFFICES ASSUME NEW w \in DOMAIN z, w \notin DOMAIN z', w \in RetainedOn[now'],
                      w \notin leaving'
               PROVE  FALSE
    OBVIOUS
  <2>0. /\ Expiries(z) /\ start' \in StartDays /\ now \in Int
        /\ now' \in start'..(start' + Horizon) /\ now' \in Int
    <3>1. Expiries(z)
      BY <1>1 DEF IInv, TypeOK, Expiries
    <3>2. now \in Int
      BY <1>1, WindowAssumption, SMT DEF IInv, TypeOK
    <3>3. start' \in StartDays /\ now' \in start'..(start' + Horizon)
      BY <1>1 DEF IInv, TypeOK
    <3>4. now' \in Int
      BY <3>3, WindowAssumption, SMT
    <3> QED
      BY <3>1, <3>2, <3>3, <3>4
  <2>1. Tick
    <3>1. ASSUME NEW keys PROVE DOMAIN z \subseteq DOMAIN Written(z, keys)
      BY <2>0, WrittenKeys
    <3>2. ASSUME NEW id PROVE DOMAIN Expire(z, id) = DOMAIN z
      BY <2>0, ExpireKeys
    <3>3. ASSUME NEW v \in DOMAIN z, Remove(v) PROVE FALSE
      <4>1. w = v
        BY <2>0, <3>3, RemoveKeys
      <4> QED
        BY <3>3, <4>1 DEF Remove
    <3> QED
      BY <1>1, <3>1, <3>2, <3>3 DEF Next, Apply, MaintainHistograms, RemoveFromHistogram, Sweep,
         SweepStart, SweepKey, SweepEnd, SweepFails, Restart, vars
  <2>2. z[w] = 1
    BY <2>0, <2>1, ElapseKeys DEF Tick
  <2>3. Dated(w) /\ ParseEnd(w) \in Int /\ now > ParseEnd(w) + Retain
    BY <1>1, <2>2 DEF IInv, AgeInv, Over, AgedOut
  <2>4. now <= now'
    BY <2>0, <2>1, SMT DEF Tick
  <2>5. PICK kind \in Kinds, d \in (now' - 1 - Retain)..now' : w = WindowID(kind, d)
    <3>1. now' \in UNION {s..(s + Horizon) : s \in StartDays}
      BY <2>0
    <3> QED
      BY <2>3, <3>1 DEF RetainedOn
  <2>6. d \in Int
    BY <2>0, <2>5, WindowAssumption, SMT
  <2>7. kind \in {"daily", "weekly", "monthly"}
    BY <2>3, <2>5, OtherKinds
  <2>8. d < ParseEnd(w)
    BY <2>5, <2>6, <2>7, EndAfterDay
  <2> QED
    BY <2>0, <2>3, <2>4, <2>5, <2>6, <2>8, TooLate
<1> QED
  BY InvCorrect, <1>1, PTL DEF Spec, RetainedWindowsKept

=============================================================================
