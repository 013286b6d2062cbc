----------------------------- MODULE BridgeProofs -----------------------------
EXTENDS BridgeMessages, FoldFacts

(* The days before March of year y, counted from the March of year 0.       *)
DaysBefore(y) == 365 * y + y \div 4 - y \div 100 + y \div 400

LEMMA DivStep ==
    ASSUME NEW y \in Int, NEW k \in {4, 100, 400}
    PROVE (y + 1) \div k = IF (y + 1) % k = 0 THEN y \div k + 1 ELSE y \div k
  OBVIOUS

LEMMA NextYear ==
    ASSUME NEW y \in Int
    PROVE  DaysBefore(y + 1) = DaysBefore(y) + (IF IsLeap(y + 1) THEN 366 ELSE 365)
  <1> DEFINE n == y + 1
  <1>1. n \in Int /\ (n % 400 = 0 => n % 100 = 0) /\ (n % 100 = 0 => n % 4 = 0)
    OBVIOUS
  <1>2. /\ n \div 4 = (IF n % 4 = 0 THEN y \div 4 + 1 ELSE y \div 4)
        /\ n \div 100 = (IF n % 100 = 0 THEN y \div 100 + 1 ELSE y \div 100)
        /\ n \div 400 = (IF n % 400 = 0 THEN y \div 400 + 1 ELSE y \div 400)
    BY DivStep
  <1>3. DaysBefore(n) = 365 * y + 365 + n \div 4 - n \div 100 + n \div 400
    BY DEF DaysBefore
  <1>4. /\ y \div 4 \in Int /\ y \div 100 \in Int /\ y \div 400 \in Int
    OBVIOUS
  <1> HIDE DEF n
  <1>5. QED BY <1>1, <1>2, <1>3, <1>4 DEF DaysBefore, IsLeap, n

LEMMA EraIsYears ==
    ASSUME NEW y \in Int, NEW e \in Int, e = y \div 400
    PROVE  e * 146097 + (y - e * 400) * 365 + (y - e * 400) \div 4 - (y - e * 400) \div 100
             = DaysBefore(y)
  <1>1. (y - e * 400) \div 4 = y \div 4 - 100 * e
    OBVIOUS
  <1>2. (y - e * 400) \div 100 = y \div 100 - 4 * e
    OBVIOUS
  <1>3. QED BY <1>1, <1>2 DEF DaysBefore

MarchYear(y, m) == IF m <= 2 THEN y - 1 ELSE y
DaysFromMarch(m) == (153 * (m + (IF m > 2 THEN -3 ELSE 9)) + 2) \div 5

LEMMA DaysFromCivilIs ==
    ASSUME NEW y \in Int, NEW m \in 1..12, NEW d \in Int
    PROVE  DaysFromCivil(y, m, d)
             = DaysBefore(MarchYear(y, m)) + DaysFromMarch(m) + d - 719469
  <1> DEFINE z == IF m <= 2 THEN y - 1 ELSE y
             e == z \div 400
  <1>1. z \in Int /\ e \in Int
    OBVIOUS
  <1> HIDE DEF z
  <1>2. e * 146097 + (z - e * 400) * 365 + (z - e * 400) \div 4 - (z - e * 400) \div 100
          = DaysBefore(z)
    BY <1>1, EraIsYears
  <1>3. (z - e * 400) \div 4 \in Int /\ (z - e * 400) \div 100 \in Int
    BY <1>1
  <1>4. QED BY <1>2, <1>1, <1>3 DEF DaysFromCivil, DaysFromMarch, MarchYear, z

Dates == [year : Nat, month : 1 .. 12, day : 1 .. 31]
IsDate(d) == d \in Dates /\ d.day <= MonthLength(d.year, d.month)

DaysTo(d) == DaysFromCivil(d.year, d.month, d.day)

LEMMA DaysBeforeType == ASSUME NEW y \in Int PROVE DaysBefore(y) \in Int
  BY DEF DaysBefore

LEMMA DaysToIs ==
    ASSUME NEW d \in Dates
    PROVE  /\ DaysTo(d) \in Int
           /\ DaysTo(d) = DaysBefore(MarchYear(d.year, d.month)) + DaysFromMarch(d.month)
                             + d.day - 719469
  <1>1. d.year \in Int /\ d.month \in 1..12 /\ d.day \in Int
    BY DEF Dates
  <1>2. DaysTo(d) = DaysBefore(MarchYear(d.year, d.month)) + DaysFromMarch(d.month)
                      + d.day - 719469
    BY SMTT(30), <1>1, DaysFromCivilIs DEF DaysTo
  <1>3. DaysBefore(MarchYear(d.year, d.month)) \in Int /\ DaysFromMarch(d.month) \in Int
    BY SMT, <1>1, DaysBeforeType DEF MarchYear, DaysFromMarch
  <1> HIDE DEF DaysTo
  <1>4. QED BY SMT, <1>1, <1>2, <1>3

LEMMA MonthLengthType ==
   ASSUME NEW y \in Nat, NEW m \in 1 .. 12
   PROVE  MonthLength(y, m) \in 28 .. 31
  BY DEF MonthLength

LEMMA TomorrowIsDate ==
    ASSUME NEW d, IsDate(d) PROVE IsDate(Tomorrow(d))
  <1> USE DEF IsDate, Dates
  <1>1. CASE d.day < MonthLength(d.year, d.month)
    <2>1. /\ Tomorrow(d) \in Dates
          /\ Tomorrow(d).year = d.year /\ Tomorrow(d).month = d.month
          /\ Tomorrow(d).day <= MonthLength(d.year, d.month)
      BY <1>1, MonthLengthType DEF Tomorrow
    <2>2. QED BY <2>1
  <1>2. CASE ~(d.day < MonthLength(d.year, d.month)) /\ d.month < 12
    <2>1. /\ Tomorrow(d) \in Dates
          /\ Tomorrow(d).year \in Nat /\ Tomorrow(d).month \in 1 .. 12
          /\ Tomorrow(d).day = 1
      <3>1. Tomorrow(d) = [d EXCEPT !.month = d.month + 1, !.day = 1]
        BY <1>2 DEF Tomorrow
      <3> HIDE DEF IsDate
      <3>2. d \in Dates
        BY DEF IsDate
      <3> DEFINE m == d.month + 1
                 e == [d EXCEPT !.month = m]
      <3>3. m \in 1 .. 12 /\ Tomorrow(d) = [e EXCEPT !.day = 1]
        BY <1>2, <3>1, <3>2
      <3> HIDE DEF m
      <3>4. e \in Dates
        BY <3>2, <3>3
      <3> HIDE DEF e
      <3>5. QED BY <3>3, <3>4
    <2>2. MonthLength(Tomorrow(d).year, Tomorrow(d).month) \in 28 .. 31
      BY <2>1, MonthLengthType
    <2>3. QED BY <2>1, <2>2
  <1>3. CASE ~(d.day < MonthLength(d.year, d.month)) /\ ~(d.month < 12)
    <2>1. /\ Tomorrow(d) \in Dates
          /\ Tomorrow(d).year \in Nat /\ Tomorrow(d).month \in 1 .. 12
          /\ Tomorrow(d).day = 1
      BY <1>3 DEF Tomorrow
    <2>2. MonthLength(Tomorrow(d).year, Tomorrow(d).month) \in 28 .. 31
      BY <2>1, MonthLengthType
    <2>3. QED BY <2>1, <2>2
  <1>4. QED BY <1>1, <1>2, <1>3

LEMMA OneDayOn ==
    ASSUME NEW d, IsDate(d) PROVE DaysTo(Tomorrow(d)) = DaysTo(d) + 1
  <1> DEFINE y == d.year
             m == d.month
             n == Tomorrow(d)
  <1>1. /\ d \in Dates /\ y \in Nat /\ m \in 1 .. 12 /\ d.day \in 1 .. 31
        /\ d.day <= MonthLength(y, m)
    BY DEF IsDate, Dates
  <1>2. n \in Dates
    BY TomorrowIsDate DEF IsDate
  <1>3. MonthLength(y, m) \in 28 .. 31
    BY <1>1, MonthLengthType
  <1>4. DaysBefore(y) \in Int /\ DaysBefore(y - 1) \in Int /\ DaysBefore(y + 1) \in Int
    BY <1>1, DaysBeforeType
  <1>5. DaysBefore(y) = DaysBefore(y - 1) + (IF IsLeap(y) THEN 366 ELSE 365)
    <2>1. y - 1 \in Int /\ (y - 1) + 1 = y
      BY <1>1
    <2>2. QED BY <2>1, NextYear
  <1>6. DaysTo(d) = DaysBefore(MarchYear(y, m)) + DaysFromMarch(m) + d.day - 719469
    BY SMT, <1>1, DaysToIs
  <1>7. DaysTo(n) = DaysBefore(MarchYear(n.year, n.month)) + DaysFromMarch(n.month)
                      + n.day - 719469
    BY SMT, <1>2, DaysToIs
  <1>a. CASE d.day < MonthLength(y, m)
    <2>1. n.year = y /\ n.month = m /\ n.day = d.day + 1
      BY <1>a, <1>1 DEF Tomorrow, Dates
    <2>2. QED BY SMT, <1>1, <1>4, <1>6, <1>7, <2>1 DEF MarchYear, DaysFromMarch
  <1>b. CASE ~(d.day < MonthLength(y, m)) /\ m < 12
    <2>1. n.year = y /\ n.month = m + 1 /\ n.day = 1 /\ d.day = MonthLength(y, m)
      BY <1>b, <1>1, <1>3 DEF Tomorrow, Dates
    <2>2. CASE m = 2
      BY SMT, <1>1, <1>4, <1>5, <1>6, <1>7, <2>1, <2>2
         DEF MonthLength, MarchYear, DaysFromMarch
    <2>3. CASE m # 2
      BY SMT, <1>1, <1>4, <1>6, <1>7, <2>1, <2>3, <1>b
         DEF MonthLength, MarchYear, DaysFromMarch
    <2>4. QED BY <2>2, <2>3
  <1>c. CASE ~(d.day < MonthLength(y, m)) /\ m = 12
    <2>1. n.year = y + 1 /\ n.month = 1 /\ n.day = 1 /\ d.day = 31
      BY <1>c, <1>1, <1>3 DEF Tomorrow, Dates, MonthLength
    <2>2. QED BY SMT, <1>1, <1>4, <1>6, <1>7, <2>1, <1>c DEF MarchYear, DaysFromMarch
  <1>8. QED BY <1>1, <1>a, <1>b, <1>c

LEMMA EpochIsZero == DaysTo(Epoch.date) = 0 /\ DaysTo(FirstDay.date) = -719528
  <1>1. /\ Epoch.date \in Dates /\ Epoch.date.year = 1970
        /\ Epoch.date.month = 1 /\ Epoch.date.day = 1
    BY SMT DEF Epoch, Dates
  <1>2. /\ FirstDay.date \in Dates /\ FirstDay.date.year = 0
        /\ FirstDay.date.month = 1 /\ FirstDay.date.day = 1
    BY SMT DEF FirstDay, Dates
  <1>3. MarchYear(1970, 1) = 1969 /\ MarchYear(0, 1) = -1 /\ DaysFromMarch(1) = 306
    BY SMT DEF MarchYear, DaysFromMarch
  <1>4. DaysBefore(1969) = 719162
    <2>1. 1969 \div 4 = 492 /\ 1969 \div 100 = 19 /\ 1969 \div 400 = 4
      BY SMT
    <2>2. QED BY SMT, <2>1 DEF DaysBefore
  <1>8. DaysBefore(-1) = -366
    <2>1. DaysBefore(0) = 0 /\ IsLeap(0)
      BY SMT DEF DaysBefore, IsLeap
    <2>2. DaysBefore(0) = DaysBefore(-1) + 366 /\ DaysBefore(-1) \in Int
      BY SMT, <2>1, NextYear, DaysBeforeType
    <2>3. QED BY SMT, <2>1, <2>2
  <1>5. DaysTo(Epoch.date) = 719162 + 306 + 1 - 719469
    BY SMT, <1>1, <1>3, <1>4, DaysToIs
  <1>6. DaysTo(FirstDay.date) = -366 + 306 + 1 - 719469
    BY SMT, <1>2, <1>3, <1>8, DaysToIs
  <1>7. QED BY SMT, <1>5, <1>6

(* The bridge counts its days as the parser does, and what the agent read is *)
(* what the parser makes of the stamp.                                       *)
Counted == /\ IsDate(today) /\ today.year \in Years
           /\ days = DaysTo(today)

IsStamp == stamp \in [date : {today}, time : Times, fraction : Fractions, zone : Zones]

Parsed == /\ stamp # NoStamp => IsStamp /\ read = ParseIso8601UtcMs(stamp)
          /\ stamp = NoStamp => \/ read = NoStamp
                                \/ IsStamp /\ read = ParseIso8601UtcMs(stamp)

LEMMA InitTime == ASSUME Init PROVE Counted /\ Parsed
  <1>1. PICK s \in Starts : today = s.date /\ days = s.days
    BY DEF Init
  <1>2. s \in {Epoch, FirstDay} /\ s.date.year \in Years
    BY StartsAssumption DEF StartsAssumption
  <1>3. IsDate(s.date)
    BY <1>2, MonthLengthType DEF IsDate, Dates, Epoch, FirstDay, MonthLength
  <1>4. s.days = DaysTo(s.date)
    BY <1>2, EpochIsZero DEF Epoch, FirstDay
  <1>5. QED BY <1>1, <1>2, <1>3, <1>4 DEF Init, Counted, Parsed

LEMMA NextTime == ASSUME Counted, Parsed, [Next]_vars PROVE Counted' /\ Parsed'
  <1>1. CASE NextDay
    <2>1. IsDate(today') /\ DaysTo(today') = DaysTo(today) + 1
      BY <1>1, TomorrowIsDate, OneDayOn DEF NextDay, Counted
    <2>2. QED BY <1>1, <2>1 DEF NextDay, Counted, Parsed
  <1>2. CASE Stamp
    BY <1>2 DEF Stamp, Counted, Parsed, IsStamp
  <1>3. CASE UNCHANGED vars
    BY <1>3 DEF vars, Counted, Parsed, IsStamp
  <1>4. QED BY <1>1, <1>2, <1>3 DEF Next

-----------------------------------------------------------------------------
(* What the parser makes of a text with fields in their ranges: the zone put *)
(* back, it is the day and the time of day that the text shows.              *)
Texts == [date : Dates, time : [hour : 0..23, minute : 0..59, second : 0..59],
          fraction : Seq(0..9), zone : [sign : {-1, 1}, hour : 0..23, minute : 0..59]]

(* The milliseconds since midnight a stamp shows.                            *)
Shown(text) == (text.time.hour * 3600 + text.time.minute * 60 + text.time.second) * 1000
                 + Millisecond(text.fraction)

LEMMA MillisecondDigits ==
    ASSUME NEW f \in Seq(0..9)
    PROVE  /\ Millisecond(f) \in Int /\ 0 <= Millisecond(f) /\ Millisecond(f) < 1000
           /\ \A i \in 1..3 : (Millisecond(f) \div <<100, 10, 1>>[i]) % 10
                = IF i \in DOMAIN f THEN f[i] ELSE 0
  <1> DEFINE Digit(i) == IF i <= Len(f) THEN f[i] ELSE 0
             a == Digit(1)
             b == Digit(2)
             c == Digit(3)
  <1>1. \A i \in 1..3 : Digit(i) \in 0..9 /\ Digit(i) = IF i \in DOMAIN f THEN f[i] ELSE 0
    OBVIOUS
  <1>2. Millisecond(f) = 100 * a + 10 * b + c
    BY DEF Millisecond
  <1>3. a \in 0..9 /\ b \in 0..9 /\ c \in 0..9
    BY <1>1
  <1> HIDE DEF Digit, a, b, c
  <1>4. Millisecond(f) \in Int /\ 0 <= Millisecond(f) /\ Millisecond(f) < 1000
    BY <1>2, <1>3
  <1>5. /\ (Millisecond(f) \div 100) % 10 = a
        /\ (Millisecond(f) \div 10) % 10 = b
        /\ (Millisecond(f) \div 1) % 10 = c
    BY <1>2, <1>3
  <1>6. \A i \in 1..3 : (Millisecond(f) \div <<100, 10, 1>>[i]) % 10 = Digit(i)
    BY <1>5 DEF a, b, c
  <1>7. QED BY Zenon, <1>1, <1>4, <1>6

LEMMA ShownType ==
    ASSUME NEW text \in Texts
    PROVE  /\ text.time.hour \in 0..23 /\ text.time.minute \in 0..59 /\ text.time.second \in 0..59
           /\ text.zone.sign \in {-1, 1} /\ text.zone.hour \in 0..23 /\ text.zone.minute \in 0..59
           /\ text.fraction \in Seq(0..9)
           /\ Shown(text) \in Int /\ 0 <= Shown(text) /\ Shown(text) < 86400000
           /\ Shown(text) \div 3600000 = text.time.hour
           /\ (Shown(text) \div 60000) % 60 = text.time.minute
           /\ (Shown(text) \div 1000) % 60 = text.time.second
           /\ Shown(text) % 1000 = Millisecond(text.fraction)
  <1> DEFINE h == text.time.hour
             n == text.time.minute
             s == text.time.second
             f == Millisecond(text.fraction)
             x == (h * 3600 + n * 60 + s) * 1000 + f
  <1>1. /\ h \in 0..23 /\ n \in 0..59 /\ s \in 0..59
        /\ text.zone.sign \in {-1, 1} /\ text.zone.hour \in 0..23 /\ text.zone.minute \in 0..59
        /\ text.fraction \in Seq(0..9)
    BY DEF Texts
  <1>2. f \in Int /\ 0 <= f /\ f < 1000
    BY <1>1, MillisecondDigits
  <1>3. Shown(text) = x
    BY DEF Shown
  <1> HIDE DEF h, n, s, f
  <1>4. x \in Int /\ 0 <= x /\ x < 86400000 /\ x % 1000 = f /\ x \div 3600000 = h
    BY <1>1, <1>2
  <1>5. (x \div 60000) % 60 = n
    <2>1. x \div 60000 = h * 60 + n
      BY <1>1, <1>2
    <2>2. (h * 60 + n) % 60 = n
      BY SMT, <1>1
    <2>3. QED BY SMT, <2>1, <2>2
  <1>6. (x \div 1000) % 60 = s
    <2>1. x \div 1000 = h * 3600 + n * 60 + s
      BY <1>1, <1>2
    <2>2. (h * 3600 + n * 60 + s) % 60 = s
      BY SMT, <1>1
    <2>3. QED BY SMT, <2>1, <2>2
  <1>7. QED BY <1>1, <1>3, <1>4, <1>5, <1>6 DEF h, n, s, f

(* The stamp written in its zone: how far the zone is from UTC, in ms.       *)
Ahead(text) == text.zone.sign * (text.zone.hour * 60 + text.zone.minute) * 60000

LEMMA ParseIs ==
    ASSUME NEW text \in Texts
    PROVE  /\ Ahead(text) \in Int /\ -86400000 < Ahead(text) /\ Ahead(text) < 86400000
           /\ DaysTo(text.date) \in Int
           /\ ParseIso8601UtcMs(text) = Instant(DaysTo(text.date), Shown(text) - Ahead(text))
  <1> DEFINE h == text.time.hour
             n == text.time.minute
             s == text.time.second
             zh == text.zone.hour
             zn == text.zone.minute
             f == Millisecond(text.fraction)
             g == text.zone.sign
             off == g * (zh * 3600 + zn * 60)
  <1>1. /\ h \in 0..23 /\ n \in 0..59 /\ s \in 0..59
        /\ g \in {-1, 1} /\ zh \in 0..23 /\ zn \in 0..59
        /\ f \in Int /\ 0 <= f /\ f < 1000
    BY ShownType, MillisecondDigits
  <1>2. DaysTo(text.date) \in Int
    BY DaysToIs DEF Texts
  <1>3. /\ ParseIso8601UtcMs(text)
             = Instant(DaysTo(text.date), (h * 3600 + n * 60 + s - off) * 1000 + f)
        /\ Shown(text) = (h * 3600 + n * 60 + s) * 1000 + f
        /\ Ahead(text) = g * (zh * 60 + zn) * 60000
    BY DEF ParseIso8601UtcMs, OffsetSeconds, DaysTo, Shown, Ahead
  <1> HIDE DEF h, n, s, zh, zn, f, g
  <1>4. CASE g = 1
    BY <1>1, <1>2, <1>3, <1>4
  <1>5. CASE g = -1
    BY <1>1, <1>2, <1>3, <1>5
  <1>6. QED BY <1>1, <1>4, <1>5

LEMMA ParseType ==
    ASSUME NEW text \in Texts
    PROVE  LET r == ParseIso8601UtcMs(text) IN
           /\ r.day \in DaysTo(text.date) - 1 .. DaysTo(text.date) + 1
           /\ r.ms \in Int /\ 0 <= r.ms /\ r.ms < MsPerDay /\ MsPerDay \in Int
           /\ Instant(r.day, r.ms + Ahead(text)) = [day |-> DaysTo(text.date), ms |-> Shown(text)]
  <1> DEFINE a == Ahead(text)
             d == DaysTo(text.date)
             x == Shown(text)
             r == ParseIso8601UtcMs(text)
  <1>1. /\ a \in Int /\ -86400000 < a /\ a < 86400000
        /\ d \in Int /\ x \in Int /\ 0 <= x /\ x < 86400000
        /\ r = Instant(d, x - a)
    BY ParseIs, ShownType
  <1> DEFINE w == x - a
  <1> HIDE DEF a, d, x, r
  <1>2. w \in Int /\ r = Instant(d, w) /\ w + a = x
    BY <1>1
  <1>3. w > -86400000 /\ w < 172800000
    BY <1>1
  <1> HIDE DEF w
  <1>4. /\ r.day = d + w \div 86400000 /\ r.day \in Int
        /\ r.ms = w % 86400000
        /\ r.ms \in Int /\ 0 <= r.ms /\ r.ms < 86400000
    BY SMT, <1>1, <1>2 DEF Instant, MsPerDay
  <1>5. r.day \in d - 1 .. d + 1
    BY <1>1, <1>2, <1>3, <1>4
  <1>6. Instant(r.day, r.ms + a) = Instant(d, x)
    BY SMT, <1>1, <1>2, <1>4 DEF Instant, MsPerDay
  <1>7. Instant(d, x) = [day |-> d, ms |-> x]
    BY SMT, <1>1 DEF Instant, MsPerDay
  <1>8. r.ms < MsPerDay /\ MsPerDay \in Int
    BY SMT, <1>4 DEF MsPerDay
  <1>9. QED BY <1>4, <1>5, <1>6, <1>7, <1>8 DEF a, d, x, r

LEMMA StampIsText ==
    ASSUME Counted, Parsed, IsStamp PROVE stamp \in Texts /\ stamp.date = today
  <1>1. /\ today \in Dates /\ stamp.date = today
        /\ stamp \in [date : {today}, time : Times, fraction : Fractions, zone : Zones]
    BY DEF Counted, IsDate, IsStamp
  <1>2. /\ Times \subseteq [hour : 0..23, minute : 0..59, second : 0..59]
        /\ Fractions \subseteq Seq(0..9)
        /\ Zones \subseteq [sign : {-1, 1}, hour : 0..23, minute : 0..59]
    BY TimesAssumption, FractionsAssumption, ZonesAssumption
       DEF TimesAssumption, FractionsAssumption, ZonesAssumption
  <1>3. QED BY <1>1, <1>2 DEF Texts

LEMMA TimeTypeHolds == ASSUME Counted, Parsed PROVE TypeOK
  <1>1. today \in [year : Years, month : 1..12, day : 1..31] /\ days \in Int
    <2>1. today \in Dates /\ today.year \in Years
      BY DEF Counted, IsDate
    <2>2. DaysTo(today) \in Int
      BY <2>1, DaysToIs
    <2>3. QED BY <2>1, <2>2 DEF Dates, Counted
  <1>2. stamp \in {NoStamp} \cup [date : {today}, time : Times, fraction : Fractions, zone : Zones]
    BY DEF Parsed, IsStamp
  <1>3. ASSUME read # NoStamp
        PROVE  read.day \in days - 1 .. days + 1 /\ read.ms \in 0 .. MsPerDay - 1
    <2>1. IsStamp /\ read = ParseIso8601UtcMs(stamp)
      BY <1>3 DEF Parsed
    <2>2. /\ read.day \in days - 1 .. days + 1
          /\ read.ms \in Int /\ 0 <= read.ms /\ read.ms < MsPerDay /\ MsPerDay \in Int
      BY <2>1, StampIsText, ParseType DEF Counted
    <2>3. QED BY <2>2
  <1>4. QED BY <1>1, <1>2, <1>3 DEF TypeOK

LEMMA InstantIsRead == ASSUME Counted, Parsed PROVE ReadsTheInstant
  <1>1. SUFFICES ASSUME stamp # NoStamp
                 PROVE  ReadsTheInstant
    BY DEF ReadsTheInstant
  <1>2. IsStamp /\ read = ParseIso8601UtcMs(stamp)
    BY <1>1 DEF Parsed
  <1>3. stamp \in Texts /\ stamp.date = today
    BY <1>2, StampIsText
  <1> DEFINE ahead == stamp.zone.hour * 60 + stamp.zone.minute
             shown == Instant(read.day, read.ms + stamp.zone.sign * ahead * 60000)
  <1>4. shown = [day |-> days, ms |-> Shown(stamp)]
    BY <1>2, <1>3, ParseType DEF Ahead, Counted
  <1>5. shown.day = days /\ shown.ms = Shown(stamp)
    BY <1>4
  <1> HIDE DEF shown
  <1>6. /\ Shown(stamp) \div 3600000 = stamp.time.hour
        /\ (Shown(stamp) \div 60000) % 60 = stamp.time.minute
        /\ (Shown(stamp) \div 1000) % 60 = stamp.time.second
        /\ Shown(stamp) % 1000 = Millisecond(stamp.fraction)
        /\ stamp.fraction \in Seq(0..9)
    BY <1>3, ShownType
  <1>7. \A i \in 1..3 : ((shown.ms % 1000) \div <<100, 10, 1>>[i]) % 10 =
            IF i \in DOMAIN stamp.fraction THEN stamp.fraction[i] ELSE 0
    <2>1. shown.ms % 1000 = Millisecond(stamp.fraction) /\ stamp.fraction \in Seq(0..9)
      BY SMT, <1>5, <1>6
    <2> DEFINE w == shown.ms % 1000
               f == stamp.fraction
    <2>2. w = Millisecond(f) /\ f \in Seq(0..9)
      BY <2>1
    <2> HIDE DEF w, f
    <2>3. \A i \in 1..3 : (Millisecond(f) \div <<100, 10, 1>>[i]) % 10
                             = IF i \in DOMAIN f THEN f[i] ELSE 0
      BY SMTT(60), <2>2, MillisecondDigits
    <2>4. \A i \in 1..3 : (w \div <<100, 10, 1>>[i]) % 10 = IF i \in DOMAIN f THEN f[i] ELSE 0
      BY Zenon, <2>2, <2>3
    <2>5. QED BY <2>4 DEF w, f
  <1>8. QED BY <1>5, <1>6, <1>7 DEF ReadsTheInstant, shown

(* A step of the pipe is one of the clock or leaves the clock alone.         *)
LEMMA WireStepIsTime == ASSUME [WireNext]_wireVars PROVE [Next]_vars
  BY DEF WireNext, Calendar, Clock, BridgeSends, OtherClientSends, Next, wireVars

LEMMA TimeInvariant == WireSpec => [](Counted /\ Parsed)
  <1>1. WireInit => Counted /\ Parsed
    BY InitTime DEF WireInit
  <1>2. (Counted /\ Parsed) /\ [WireNext]_wireVars => (Counted /\ Parsed)'
    BY WireStepIsTime, NextTime
  <1>3. QED BY <1>1, <1>2, PTL DEF WireSpec

(* A stamp carries the day the clock shows, and what is stored for it lies   *)
(* within a day of it (ParseIso8601UtcMs).                                   *)
THEOREM TimesAreTyped == WireSpec => []TypeOK
  BY TimeInvariant, TimeTypeHolds, PTL

(* Whatever date, time of day, fraction and zone a message is stamped with,  *)
(* the number stored is the instant it names (ParseIso8601UtcMs,             *)
(* DaysFromCivil).                                                           *)
THEOREM StoredTimeIsTheInstant == WireSpec => []ReadsTheInstant
  BY TimeInvariant, InstantIsRead, PTL

-----------------------------------------------------------------------------
(* The walk over the hardware.  The hardware in h, at any depth, is what     *)
(* every set of hardware has that has h and, with any hardware, its parts.   *)
Hardware(m) == 0 .. Len(m.sensors)
IsPart(m, h, c) == \E k \in DOMAIN m.parts[h] : c = m.parts[h][k]
WithParts(m, S) == \A h \in S, c \in Hardware(m) : IsPart(m, h, c) => c \in S
Under(m, h) == {c \in Hardware(m) : \A S \in SUBSET Hardware(m) :
                                        (h \in S /\ WithParts(m, S)) => c \in S}

(* What the proofs use of MachinesAssumption.                                *)
Tree(m) ==
    /\ Len(m.sensors) \in Nat
    /\ DOMAIN m.parts = Hardware(m)
    /\ \A h, c \in Hardware(m) : IsPart(m, h, c) => h < c
    /\ \A h, g, c \in Hardware(m) : IsPart(m, h, c) /\ IsPart(m, g, c) => h = g
    /\ \A c \in Hardware(m) \ {0} : \E h \in Hardware(m) : IsPart(m, h, c)
    /\ \A h \in Hardware(m) :
         /\ m.parts[h] \in Seq(Hardware(m))
         /\ Distinct(m.parts[h])

LEMMA MachineIsTree ==
    ASSUME NEW m \in Machines
    PROVE  Tree(m) /\ m.sensors \in Seq(Seq(Reading)) /\ Cardinality(Sensors(m)) <= IntMax
  <1> DEFINE N == Len(m.sensors)
             Number(p) == m.parts[p[1]][p[2]]
  <1>1. /\ m.sensors \in Seq(Seq(Reading))
        /\ DOMAIN m.parts = 0 .. N
        /\ \A h \in DOMAIN m.parts : m.parts[h] \in Seq(h + 1 .. N)
        /\ \A h \in DOMAIN m.sensors : \E p \in Parts(m) :
               \A q \in Parts(m) : Number(q) = h <=> q = p
        /\ Cardinality(Sensors(m)) <= IntMax
    BY MachinesAssumption DEF MachinesAssumption
  <1>2. N \in Nat /\ DOMAIN m.sensors = 1 .. N
    BY <1>1
  <1>3. ASSUME NEW h \in 0 .. N, NEW k \in DOMAIN m.parts[h]
        PROVE  <<h, k>> \in Parts(m) /\ m.parts[h][k] \in h + 1 .. N
    <2>1. m.parts[h] \in Seq(h + 1 .. N)
      BY <1>1
    <2>2. m.parts[h][k] \in h + 1 .. N
      BY <2>1
    <2>3. <<h, k>> \in {h} \X DOMAIN m.parts[h] /\ h \in DOMAIN m.parts
      BY <1>1
    <2>4. <<h, k>> \in Parts(m)
      BY <2>3 DEF Parts
    <2>5. QED BY <2>2, <2>4
  <1>4. ASSUME NEW p \in Parts(m)
        PROVE  /\ p = <<p[1], p[2]>> /\ p[1] \in 0 .. N /\ p[2] \in DOMAIN m.parts[p[1]]
    BY <1>1 DEF Parts
  <1>5. ASSUME NEW p \in Parts(m), NEW q \in Parts(m), Number(p) = Number(q) PROVE p = q
    <2>1. Number(p) \in DOMAIN m.sensors
      BY <1>2, <1>3, <1>4
    <2>2. QED BY <1>1, <1>5, <2>1
  <1>6. ASSUME NEW h \in 0 .. N
        PROVE  m.parts[h] \in Seq(0 .. N) /\ Distinct(m.parts[h])
    <2>1. m.parts[h] \in Seq(h + 1 .. N)
      BY <1>1
    <2>2. h + 1 .. N \subseteq 0 .. N
      BY <1>2
    <2>3. m.parts[h] \in Seq(0 .. N)
      BY <2>1, <2>2
    <2>4. ASSUME NEW i \in DOMAIN m.parts[h], NEW j \in DOMAIN m.parts[h],
                 m.parts[h][i] = m.parts[h][j]
          PROVE  i = j
      <3>1. <<h, i>> = <<h, j>>
        BY <1>3, <1>5, <2>4
      <3>2. QED BY <3>1
    <2>5. QED BY <2>3, <2>4 DEF Distinct
  <1>7. ASSUME NEW h \in 0 .. N, NEW c \in 0 .. N, IsPart(m, h, c) PROVE h < c
    <2>1. PICK k \in DOMAIN m.parts[h] : c = m.parts[h][k]
      BY <1>7 DEF IsPart
    <2>2. c \in h + 1 .. N
      BY <1>3, <2>1
    <2>3. QED BY <1>2, <2>2
  <1>8. ASSUME NEW h \in 0 .. N, NEW g \in 0 .. N, NEW c \in 0 .. N,
               IsPart(m, h, c), IsPart(m, g, c)
        PROVE  h = g
    <2>1. PICK i \in DOMAIN m.parts[h] : c = m.parts[h][i]
      BY <1>8 DEF IsPart
    <2>2. PICK j \in DOMAIN m.parts[g] : c = m.parts[g][j]
      BY <1>8 DEF IsPart
    <2>3. <<h, i>> = <<g, j>>
      BY <1>3, <1>5, <2>1, <2>2
    <2>4. QED BY <2>3
  <1>9. ASSUME NEW c \in (0 .. N) \ {0} PROVE \E h \in 0 .. N : IsPart(m, h, c)
    <2>1. c \in DOMAIN m.sensors
      BY <1>2
    <2>2. PICK p \in Parts(m) : Number(p) = c
      BY <1>1, <2>1
    <2>3. QED BY <1>4, <2>2 DEF IsPart
  <1>10. QED BY <1>1, <1>2, <1>6, <1>7, <1>8, <1>9 DEF Tree, Hardware

LEMMA LeastNumber ==
    ASSUME NEW F, F \subseteq Nat, F # {} PROVE \E n \in F : \A k \in F : n <= k
  <1>1. PICK n \in F : \A k \in F : <<k, n>> \notin OpToRel(<, Nat)
    BY WFMin, NatLessThanWellFounded
  <1>2. ASSUME NEW k \in F PROVE n <= k
    <2>1. n \in Nat /\ k \in Nat
      BY Zenon
    <2>2. ~(k < n)
      BY <1>1, <2>1 DEF OpToRel
    <2>3. QED BY <2>1, <2>2
  <1>3. QED BY <1>2

LEMMA UnderIsLeast ==
    ASSUME NEW m, NEW h \in Hardware(m)
    PROVE  /\ h \in Under(m, h) /\ Under(m, h) \subseteq Hardware(m)
           /\ WithParts(m, Under(m, h))
           /\ \A S \in SUBSET Hardware(m) :
                  h \in S /\ WithParts(m, S) => Under(m, h) \subseteq S
  BY DEF Under, WithParts

(* The hardware in h is h and what is in its parts.                          *)
LEMMA UnderOfParts ==
    ASSUME NEW m, Tree(m), NEW h \in Hardware(m)
    PROVE  /\ Under(m, h) = {h} \cup UNION {Under(m, m.parts[h][k]) : k \in DOMAIN m.parts[h]}
           /\ \A c \in Under(m, h) : h <= c
           /\ \A c \in Under(m, h) \ {h} : \E g \in Under(m, h) : IsPart(m, g, c)
  <1> DEFINE P == {m.parts[h][k] : k \in DOMAIN m.parts[h]}
             S == {h} \cup UNION {Under(m, p) : p \in P}
  <1>1. P \subseteq Hardware(m) /\ \A p \in P : IsPart(m, h, p)
    BY DEF Tree, IsPart
  <1>2. S \subseteq Hardware(m) /\ h \in S
    BY <1>1, UnderIsLeast
  <1>3. WithParts(m, S)
    <2> SUFFICES ASSUME NEW g \in S, NEW c \in Hardware(m), IsPart(m, g, c) PROVE c \in S
      BY DEF WithParts
    <2>1. CASE g = h
      <3>1. c \in P
        BY <2>1 DEF IsPart
      <3>2. QED BY <1>1, <3>1, UnderIsLeast
    <2>2. CASE g # h
      <3>1. PICK p \in P : g \in Under(m, p)
        BY <2>2
      <3>2. c \in Under(m, p)
        BY <1>1, <3>1, UnderIsLeast DEF WithParts
      <3>3. QED BY <3>2
    <2>3. QED BY <2>1, <2>2
  <1>4. Under(m, h) \subseteq S
    BY <1>2, <1>3, UnderIsLeast
  <1>5. S \subseteq Under(m, h)
    <2>1. ASSUME NEW p \in P PROVE Under(m, p) \subseteq Under(m, h)
      BY <1>1, UnderIsLeast DEF WithParts
    <2>2. QED BY <2>1, UnderIsLeast
  <1>6. S = {h} \cup UNION {Under(m, m.parts[h][k]) : k \in DOMAIN m.parts[h]}
    OBVIOUS
  <1>7. ASSUME NEW c \in Under(m, h) PROVE h <= c
    <2> DEFINE T == {g \in Hardware(m) : h <= g}
    <2>1. T \in SUBSET Hardware(m) /\ h \in T
      BY DEF Hardware, Tree
    <2>2. WithParts(m, T)
      BY DEF WithParts, Tree, Hardware
    <2>3. QED BY <2>1, <2>2, UnderIsLeast
  <1>8. ASSUME NEW c \in Under(m, h) \ {h} PROVE \E g \in Under(m, h) : IsPart(m, g, c)
    <2> DEFINE T == {h} \cup {d \in Under(m, h) : \E g \in Under(m, h) : IsPart(m, g, d)}
    <2>1. T \in SUBSET Hardware(m) /\ h \in T /\ T \subseteq Under(m, h)
      BY UnderIsLeast
    <2>2. WithParts(m, T)
      BY <2>1, UnderIsLeast DEF WithParts
    <2>3. c \in T
      BY <2>1, <2>2, UnderIsLeast
    <2>4. QED BY <2>3
  <1> HIDE DEF S
  <1>9. QED BY <1>4, <1>5, <1>6, <1>7, <1>8

(* Two parts of the same hardware have nothing in common.                    *)
LEMMA PartsAreApart ==
    ASSUME NEW m, Tree(m), NEW h \in Hardware(m), NEW p \in Hardware(m), NEW q \in Hardware(m),
           IsPart(m, h, p), IsPart(m, h, q), p # q
    PROVE  Under(m, p) \cap Under(m, q) = {}
  <1> DEFINE S == Under(m, p) \ Under(m, q)
  <1>1. h < p /\ h < q /\ h \in Nat /\ p \in Nat /\ q \in Nat
    BY DEF Tree, Hardware
  <1>2. p \in S
    <2>1. p \notin Under(m, q)
      <3>1. SUFFICES ASSUME p \in Under(m, q) PROVE FALSE
        OBVIOUS
      <3>2. PICK g \in Under(m, q) : IsPart(m, g, p)
        BY <3>1, UnderOfParts
      <3>3. g \in Hardware(m)
        BY UnderIsLeast
      <3>4. g = h
        BY <3>2, <3>3 DEF Tree
      <3>5. q <= h
        BY <3>4, UnderOfParts
      <3>6. QED BY <1>1, <3>5
    <2>2. QED BY <2>1, UnderIsLeast
  <1>3. WithParts(m, S)
    <2> SUFFICES ASSUME NEW g \in S, NEW c \in Hardware(m), IsPart(m, g, c) PROVE c \in S
      BY DEF WithParts
    <2>1. g \in Hardware(m) /\ g \in Under(m, p) /\ g \notin Under(m, q)
      BY UnderIsLeast
    <2>2. c \in Under(m, p)
      BY <2>1, UnderIsLeast DEF WithParts
    <2>3. c # q
      <3>1. SUFFICES ASSUME c = q PROVE FALSE
        OBVIOUS
      <3>2. g = h
        BY <2>1, <3>1 DEF Tree
      <3>3. p <= h
        BY <2>1, <3>2, UnderOfParts
      <3>4. QED BY <1>1, <3>3
    <2>4. c \notin Under(m, q)
      <3>1. SUFFICES ASSUME c \in Under(m, q) PROVE FALSE
        OBVIOUS
      <3>2. PICK d \in Under(m, q) : IsPart(m, d, c)
        BY <2>3, <3>1, UnderOfParts
      <3>3. d \in Hardware(m)
        BY UnderIsLeast
      <3>4. d = g
        BY <2>1, <3>2, <3>3 DEF Tree
      <3>5. QED BY <2>1, <3>4
    <2>5. QED BY <2>2, <2>4
  <1>4. Under(m, p) \subseteq S
    <2>1. S \in SUBSET Hardware(m)
      BY UnderIsLeast
    <2>2. QED BY <1>2, <1>3, <2>1, UnderIsLeast
  <1>5. QED BY <1>4

(* Everything is in the computer.                                            *)
LEMMA AllUnderComputer ==
    ASSUME NEW m, Tree(m) PROVE Under(m, 0) = Hardware(m)
  <1> DEFINE Out == Hardware(m) \ Under(m, 0)
  <1>0. 0 \in Hardware(m)
    BY DEF Tree, Hardware
  <1>1. SUFFICES ASSUME Out # {} PROVE FALSE
    BY <1>0, UnderIsLeast
  <1>2. PICK c \in Out : \A d \in Out : c <= d
    <2>1. Out \subseteq Nat
      BY DEF Hardware, Tree
    <2>2. QED BY <1>1, <2>1, LeastNumber
  <1>3. c # 0 /\ c \in Hardware(m)
    BY <1>0, <1>2, UnderIsLeast
  <1>4. PICK h \in Hardware(m) : IsPart(m, h, c)
    BY <1>3 DEF Tree
  <1>5. h < c /\ h \in Nat /\ c \in Nat
    BY <1>3, <1>4 DEF Tree, Hardware
  <1>6. h \in Under(m, 0)
    BY <1>2, <1>5
  <1>7. QED BY <1>0, <1>2, <1>3, <1>4, <1>6, UnderIsLeast DEF WithParts

(* The walk is the function SensorsOf reads its list from; there is one, as  *)
(* parts have larger numbers than what they are in.                          *)
WalkOf(f, m, D) ==
    f = [h \in D |-> OwnSensors(m, h)
                       \o FlattenSeq([k \in DOMAIN m.parts[h] |-> f[m.parts[h][k]]])]

WalkFrom(m) == CHOOSE f : WalkOf(f, m, DOMAIN m.parts)

LEMMA SensorsOfIsWalk ==
    ASSUME NEW m PROVE SensorsOf(m) = WalkFrom(m)[0]
  BY DEF SensorsOf, WalkFrom, WalkOf

LEMMA WalkExists ==
    ASSUME NEW m, Tree(m) PROVE WalkOf(WalkFrom(m), m, Hardware(m))
  <1> DEFINE N == Len(m.sensors)
             Late(n) == {h \in Hardware(m) : N - h < n}
             Bad == {n \in Nat : ~\E f : WalkOf(f, m, Late(n))}
  <1>1. N \in Nat /\ Hardware(m) = 0 .. N
    BY DEF Tree, Hardware
  <1>2. SUFFICES N + 1 \notin Bad
    <2>1. Late(N + 1) = Hardware(m) /\ N + 1 \in Nat
      BY <1>1
    <2>2. \E f : WalkOf(f, m, Hardware(m))
      BY <1>2, <2>1
    <2>3. QED BY <2>2 DEF WalkFrom, Tree
  <1>3. SUFFICES ASSUME Bad # {} PROVE FALSE
    OBVIOUS
  <1>4. PICK n \in Bad : n # 0 => n - 1 \in Nat /\ n - 1 \notin Bad
    <2>1. Bad \subseteq Nat
      OBVIOUS
    <2> HIDE DEF Bad
    <2>2. QED BY <1>3, <2>1, SmallestNumber
  <1>5. n \in Nat /\ ~\E f : WalkOf(f, m, Late(n))
    BY <1>4
  <1>6. CASE n = 0
    <2>1. Late(0) = {}
      BY <1>1
    <2>2. WalkOf([h \in {} |-> 0], m, {})
      BY DEF WalkOf
    <2>3. QED BY <1>5, <1>6, <2>1, <2>2
  <1>7. CASE n # 0
    <2>1. PICK f : WalkOf(f, m, Late(n - 1))
      BY <1>4, <1>7
    <2> DEFINE Value(h) == OwnSensors(m, h)
                             \o FlattenSeq([k \in DOMAIN m.parts[h] |-> f[m.parts[h][k]]])
               g == [h \in Late(n) |-> Value(h)]
    <2>2. ASSUME NEW h \in Late(n), NEW k \in DOMAIN m.parts[h]
          PROVE  m.parts[h][k] \in Late(n - 1)
      <3>1. m.parts[h][k] \in Hardware(m)
        BY DEF Tree
      <3>2. h < m.parts[h][k]
        BY <3>1 DEF Tree, IsPart
      <3>3. QED BY <1>1, <1>5, <3>1, <3>2
    <2>3. ASSUME NEW h \in Late(n - 1) PROVE g[h] = f[h]
      <3>1. h \in Late(n)
        BY <1>1, <1>5
      <3>2. f[h] = Value(h)
        <4> HIDE DEF Late
        <4>1. QED BY <2>1 DEF WalkOf
      <3>3. QED BY <3>1, <3>2
    <2>4. ASSUME NEW h \in Late(n)
          PROVE  [k \in DOMAIN m.parts[h] |-> f[m.parts[h][k]]]
                   = [k \in DOMAIN m.parts[h] |-> g[m.parts[h][k]]]
      <3> HIDE DEF g, Late
      <3>1. QED BY <2>2, <2>3
    <2>5. WalkOf(g, m, Late(n))
      <3>1. ASSUME NEW h \in Late(n)
            PROVE  Value(h) = OwnSensors(m, h)
                      \o FlattenSeq([k \in DOMAIN m.parts[h] |-> g[m.parts[h][k]]])
        BY <2>4
      <3>2. g = [h \in Late(n) |-> OwnSensors(m, h)
                      \o FlattenSeq([k \in DOMAIN m.parts[h] |-> g[m.parts[h][k]]])]
        <4> HIDE DEF Late
        <4>1. QED BY <3>1
      <3>3. QED BY <3>2 DEF WalkOf
    <2>6. QED BY <1>5, <2>5
  <1>8. QED BY <1>6, <1>7

SensorsUnder(m, h) == UNION {{c} \X DOMAIN m.sensors[c] : c \in Under(m, h) \ {0}}

(* s lists what is in S, once.                                               *)
Lists(s, S) == s \in Seq(S) /\ Distinct(s) /\ ToSet(s) = S

LEMMA OwnSensorsListed ==
    ASSUME NEW m, m.sensors \in Seq(Seq(Reading)), NEW h \in Hardware(m)
    PROVE  Lists(OwnSensors(m, h), IF h = 0 THEN {} ELSE {h} \X DOMAIN m.sensors[h])
  <1>1. CASE h = 0
    <2>1. OwnSensors(m, h) = <<>>
      BY <1>1 DEF OwnSensors
    <2>2. DOMAIN <<>> = {} /\ <<>> \in Seq({})
      OBVIOUS
    <2>3. Distinct(<<>>) /\ ToSet(<<>>) = {}
      BY <2>2 DEF Distinct, ToSet
    <2>4. QED BY <1>1, <2>1, <2>2, <2>3 DEF Lists
  <1>2. CASE h # 0
    <2> DEFINE d == DOMAIN m.sensors[h]
               own == [i \in d |-> <<h, i>>]
    <2>1. h \in DOMAIN m.sensors
      BY <1>2 DEF Hardware
    <2>2. m.sensors[h] \in Seq(Reading)
      BY <2>1
    <2>3. PICK n \in Nat : d = 1 .. n
      BY <2>2
    <2> HIDE DEF d
    <2>4. own \in Seq({h} \X d) /\ DOMAIN own = d
      BY <2>3
    <2>5. \A i \in d : own[i] = <<h, i>>
      OBVIOUS
    <2>6. Distinct(own)
      BY <2>5 DEF Distinct
    <2>7. ToSet(own) = {h} \X d
      BY <2>5 DEF ToSet
    <2>8. QED BY <1>2, <2>4, <2>6, <2>7 DEF Lists, OwnSensors, d
  <1>3. QED BY <1>1, <1>2

LEMMA ListsOfMore ==
    ASSUME NEW S, NEW T, NEW s, Lists(s, S), S \subseteq T PROVE s \in Seq(T)
  <1>1. s \in [1 .. Len(s) -> T] /\ Len(s) \in Nat
    BY DEF Lists
  <1>2. QED BY <1>1

LEMMA WalkLists ==
    ASSUME NEW m, Tree(m), m.sensors \in Seq(Seq(Reading)), NEW h \in Hardware(m)
    PROVE  Lists(WalkFrom(m)[h], SensorsUnder(m, h))
  <1> DEFINE N == Len(m.sensors)
             f == WalkFrom(m)
             Good(g) == Lists(f[g], SensorsUnder(m, g))
             Bad == {n \in Nat : \E g \in Hardware(m) : N - g = n /\ ~Good(g)}
  <1>1. N \in Nat /\ Hardware(m) = 0 .. N
    BY DEF Tree, Hardware
  <1>2. SUFFICES ASSUME Bad # {} PROVE FALSE
    <2>1. N - h \in Nat
      BY <1>1
    <2> HIDE DEF Good
    <2>2. QED BY <1>2, <2>1 DEF Good
  <1>3. PICK n \in Bad : \A k \in Bad : n <= k
    <2>1. Bad \subseteq Nat
      OBVIOUS
    <2> HIDE DEF Bad
    <2>2. QED BY <1>2, <2>1, LeastNumber
  <1>4. PICK g \in Hardware(m) : N - g = n /\ ~Good(g)
    BY <1>3
  <1>5. ASSUME NEW c \in Hardware(m), g < c PROVE Good(c)
    <2>1. N - c \in Nat /\ N - c < n
      <3> HIDE DEF Good
      <3>1. N - g = n
        BY <1>4
      <3>2. QED BY SMTT(30), <1>1, <1>5, <3>1
    <2>2. N - c \notin Bad
      <3>1. n \in Nat
        BY <1>3
      <3> HIDE DEF Bad
      <3>2. QED BY <1>3, <2>1, <3>1
    <2> HIDE DEF Good
    <2>3. QED BY <2>1, <2>2
  <1> DEFINE parts == m.parts[g]
             ss == [k \in DOMAIN parts |-> f[parts[k]]]
             own == OwnSensors(m, g)
             Own == IF g = 0 THEN {} ELSE {g} \X DOMAIN m.sensors[g]
             S == SensorsUnder(m, g)
             Below == UNION {SensorsUnder(m, parts[k]) : k \in DOMAIN parts}
  <1>6. f[g] = own \o FlattenSeq(ss)
    BY WalkExists DEF WalkOf
  <1>7. PICK n1 \in Nat : DOMAIN parts = 1 .. n1
    BY DEF Tree
  <1>8. ASSUME NEW k \in DOMAIN parts
        PROVE  /\ parts[k] \in Hardware(m) /\ IsPart(m, g, parts[k])
               /\ Lists(ss[k], SensorsUnder(m, parts[k]))
    <2>1. parts[k] \in Hardware(m) /\ IsPart(m, g, parts[k])
      BY DEF Tree, IsPart
    <2>2. g < parts[k]
      BY <2>1 DEF Tree
    <2>3. Good(parts[k])
      BY <1>5, <2>1, <2>2
    <2>4. QED BY <2>1, <2>3
  <1>9. Own \subseteq S /\ Below \subseteq S /\ S = Own \cup Below
    <2> DEFINE Place(c) == {c} \X DOMAIN m.sensors[c]
    <2>1. Under(m, g) = {g} \cup UNION {Under(m, parts[k]) : k \in DOMAIN parts}
      BY UnderOfParts
    <2>2. \A p \in Hardware(m) : \A s : s \in SensorsUnder(m, p)
              <=> \E c \in Under(m, p) \ {0} : s \in Place(c)
      BY DEF SensorsUnder
    <2>3. \A s : s \in Own <=> g # 0 /\ s \in Place(g)
      OBVIOUS
    <2>4. \A s : s \in Below <=> \E k \in DOMAIN parts : s \in SensorsUnder(m, parts[k])
      OBVIOUS
    <2>5. ASSUME NEW k \in DOMAIN parts PROVE 0 \notin Under(m, parts[k])
      <3>1. g < parts[k] /\ g \in Nat /\ parts[k] \in Nat
        <4> HIDE DEF ss, S
        <4>1. QED BY <1>1, <1>8 DEF Tree
      <3>2. \A c \in Under(m, parts[k]) : parts[k] <= c
        <4> HIDE DEF ss, S
        <4>1. QED BY <1>8, UnderOfParts
      <3>3. QED BY <3>1, <3>2
    <2> HIDE DEF Own, Below, Place, ss, S
    <2>6. \A s : s \in S <=> \E c \in Under(m, g) \ {0} : s \in Place(c)
      BY <2>2 DEF S
    <2>7. \A s : s \in Below <=> \E k \in DOMAIN parts :
                              \E c \in Under(m, parts[k]) : s \in Place(c)
      BY <1>8, <2>2, <2>4, <2>5
    <2>8. \A c : c \in Under(m, g) \ {0}
              <=> \/ c = g /\ g # 0
                  \/ \E k \in DOMAIN parts : c \in Under(m, parts[k])
      BY <2>1, <2>5
    <2>9. QED BY <2>3, <2>6, <2>7, <2>8
  <1>10. \A k \in DOMAIN parts : ss[k] \in Seq(S) /\ Distinct(ss[k])
    <2>1. \A k \in DOMAIN parts : SensorsUnder(m, parts[k]) \subseteq S
      BY <1>9
    <2> HIDE DEF ss, S
    <2>2. QED BY <1>8, <2>1, ListsOfMore DEF Lists
  <1>11. ASSUME NEW k \in DOMAIN parts, NEW l \in DOMAIN parts, k # l
         PROVE  ToSet(ss[k]) \cap ToSet(ss[l]) = {}
    <2>1. parts[k] # parts[l]
      BY <1>11 DEF Tree, Distinct
    <2>2. Under(m, parts[k]) \cap Under(m, parts[l]) = {}
      BY <1>8, <2>1, PartsAreApart
    <2>3. SensorsUnder(m, parts[k]) \cap SensorsUnder(m, parts[l]) = {}
      BY <2>2 DEF SensorsUnder
    <2>4. QED BY <1>8, <2>3 DEF Lists
  <1>12. ss \in [1 .. n1 -> Seq(S)]
    <2> HIDE DEF S
    <2>1. QED BY <1>7, <1>10
  <1>13. /\ FlattenSeq(ss) \in Seq(S) /\ Distinct(FlattenSeq(ss))
         /\ ToSet(FlattenSeq(ss)) = UNION {ToSet(ss[k]) : k \in 1 .. n1}
    <2> HIDE DEF S, ss
    <2>1. \A k \in 1 .. n1 : Distinct(ss[k])
      BY <1>7, <1>10
    <2>2. \A k, l \in 1 .. n1 : k # l => ToSet(ss[k]) \cap ToSet(ss[l]) = {}
      BY <1>7, <1>11
    <2>3. QED BY <1>12, <2>1, <2>2, FlattenDistinct
  <1>14. ToSet(FlattenSeq(ss)) = Below
    <2>1. \A k \in 1 .. n1 : ToSet(ss[k]) = SensorsUnder(m, parts[k])
      BY <1>7, <1>8 DEF Lists
    <2> HIDE DEF ss
    <2>2. QED BY <1>7, <1>13, <2>1
  <1>15. own \in Seq(S) /\ Distinct(own) /\ ToSet(own) = Own
    <2>1. Lists(own, Own)
      BY OwnSensorsListed
    <2> HIDE DEF Own, S, own
    <2>2. QED BY <1>9, <2>1, ListsOfMore DEF Lists
  <1>16. Own \cap Below = {}
    <2> SUFFICES ASSUME NEW s, s \in Own, s \in Below PROVE FALSE
      OBVIOUS
    <2>1. g # 0 /\ s[1] = g
      OBVIOUS
    <2>2. PICK k \in DOMAIN parts : s \in SensorsUnder(m, parts[k])
      OBVIOUS
    <2>3. s[1] \in Under(m, parts[k])
      BY <2>2 DEF SensorsUnder
    <2> HIDE DEF ss, S, Own, Below
    <2>4. parts[k] <= g
      BY <1>8, <2>1, <2>3, UnderOfParts
    <2>5. g < parts[k]
      BY <1>8 DEF Tree
    <2>6. g \in Nat /\ parts[k] \in Nat
      BY <1>1, <1>8
    <2>7. QED BY <2>4, <2>5, <2>6
  <1>17. Lists(f[g], S)
    <2> HIDE DEF S, Own, Below, ss, own
    <2>1. QED BY <1>6, <1>9, <1>13, <1>14, <1>15, <1>16, ConcatDistinct DEF Lists
  <1>18. QED BY <1>4, <1>17

(* The walk lists every sensor of the machine once.                          *)
LEMMA SensorsAreListed ==
    ASSUME NEW m \in Machines
    PROVE  Lists(SensorsOf(m), Sensors(m))
  <1>1. Tree(m) /\ m.sensors \in Seq(Seq(Reading))
    BY MachineIsTree
  <1>2. 0 \in Hardware(m) /\ DOMAIN m.sensors = Hardware(m) \ {0}
    BY <1>1 DEF Hardware, Tree
  <1>3. SensorsUnder(m, 0) = Sensors(m)
    BY <1>1, <1>2, AllUnderComputer DEF SensorsUnder, Sensors
  <1>4. Lists(WalkFrom(m)[0], SensorsUnder(m, 0))
    BY <1>1, <1>2, WalkLists
  <1>5. QED BY <1>3, <1>4, SensorsOfIsWalk

LEMMA ListsLength ==
    ASSUME NEW s, NEW S, Lists(s, S)
    PROVE  /\ DOMAIN s = 1 .. Len(s) /\ Len(s) \in Nat
           /\ IsFiniteSet(S) /\ Cardinality(S) = Len(s)
           /\ \A n \in DOMAIN s : s[n] \in S
           /\ \A x \in S : \E n \in DOMAIN s : s[n] = x
  <1>1. DOMAIN s = 1 .. Len(s) /\ Len(s) \in Nat /\ \A n \in DOMAIN s : s[n] \in S
    BY DEF Lists
  <1>2. \A x \in S : \E n \in DOMAIN s : s[n] = x
    BY DEF Lists, ToSet
  <1>3. s \in Bijection(1 .. Len(s), S)
    <2>1. s \in [1 .. Len(s) -> S]
      BY <1>1 DEF Lists
    <2>2. IsInjective(s)
      BY <1>1 DEF Lists, Distinct, IsInjective
    <2>3. QED BY <1>1, <1>2, <2>1, <2>2 DEF Bijection, Injection, Surjection
  <1>4. IsFiniteSet(1 .. Len(s)) /\ Cardinality(1 .. Len(s)) = Len(s)
    BY SMTT(30), <1>1, FS_Interval
  <1>5. ExistsBijection(1 .. Len(s), S)
    BY <1>3 DEF ExistsBijection
  <1>6. QED BY <1>1, <1>2, <1>4, <1>5, FS_Bijection

-----------------------------------------------------------------------------
(* What is in a line of the bridge.                                          *)
Types == {"hello", "catalog_snapshot", "sample_batch", "heartbeat"}
Origins == [type : Types, machine : Machines, uptime : Uptimes, sampled : Times, sent : Times]
EnvelopeKeys == {"type", "schema_version", "source", "machine_id", "sent_at_utc"}
BodyKeys(type) ==
    CASE type = "hello" ->
           {"bridge_version", "hostname", "pid", "sample_interval_ms", "capabilities"}
      [] type = "catalog_snapshot" -> {"sensors"}
      [] type = "sample_batch"     -> {"sample_time_utc", "samples"}
      [] type = "heartbeat"        -> {"status", "uptime_s", "catalog_count"}

LEMMA PlusIs ==
    ASSUME NEW f, NEW g
    PROVE  /\ DOMAIN (f ++ g) = DOMAIN f \cup DOMAIN g
           /\ \A k \in DOMAIN f : (f ++ g)[k] = f[k]
           /\ \A k \in DOMAIN g \ DOMAIN f : (f ++ g)[k] = g[k]
  BY DEF ++

LEMMA BodyIs ==
    ASSUME NEW o, o.type \in Types
    PROVE  /\ DOMAIN Body(o) = BodyKeys(o.type)
           /\ o.type = "hello" =>
                /\ Body(o).bridge_version = Str(<<"0.1.0">>)
                /\ Body(o).hostname = Str(<<"host">>)
                /\ Body(o).pid = Num(1) /\ Body(o).sample_interval_ms = Num(2)
           /\ o.type = "catalog_snapshot" => Body(o).sensors = BuildCatalog(o.machine)
           /\ o.type = "sample_batch" =>
                /\ Body(o).sample_time_utc = UtcText(o.sampled)
                /\ Body(o).samples = CollectSamples(o.machine)
           /\ o.type = "heartbeat" =>
                /\ Body(o).status = Str(<<"ok">>) /\ Body(o).uptime_s = Num(o.uptime)
                /\ Body(o).catalog_count = Num(Len(SensorsOf(o.machine)))
  <1>1. CASE o.type = "hello"
    <2>1. \E caps : Body(o) = [bridge_version |-> Str(<<"0.1.0">>), hostname |-> Str(<<"host">>),
                               pid |-> Num(1), sample_interval_ms |-> Num(2), capabilities |-> caps]
      BY <1>1 DEF Body
    <2>2. QED BY <1>1, <2>1 DEF BodyKeys
  <1>2. CASE o.type = "catalog_snapshot"
    <2>1. Body(o) = [sensors |-> BuildCatalog(o.machine)]
      BY <1>2 DEF Body
    <2>2. QED BY <1>2, <2>1 DEF BodyKeys
  <1>3. CASE o.type = "sample_batch"
    <2>1. Body(o) = [sample_time_utc |-> UtcText(o.sampled),
                     samples |-> CollectSamples(o.machine)]
      BY <1>3 DEF Body
    <2>2. QED BY <1>3, <2>1 DEF BodyKeys
  <1>4. CASE o.type = "heartbeat"
    <2>1. Body(o) = [status |-> Str(<<"ok">>), uptime_s |-> Num(o.uptime),
                     catalog_count |-> Num(Len(SensorsOf(o.machine)))]
      BY <1>4 DEF Body
    <2>2. QED BY <1>4, <2>1 DEF BodyKeys
  <1>5. QED BY <1>1, <1>2, <1>3, <1>4 DEF Types

LEMMA BuildIs ==
    ASSUME NEW o, o.type \in Types
    PROVE  /\ Build(o).kind = "object"
           /\ Build(o) = Obj(Build(o).fields)
           /\ DOMAIN Build(o).fields = EnvelopeKeys \cup BodyKeys(o.type)
           /\ Item(Build(o), "type") = Str(<<o.type>>)
           /\ Item(Build(o), "schema_version") = Num(1)
           /\ Item(Build(o), "source") = Str(<<"source">>)
           /\ Item(Build(o), "machine_id") = Str(<<"machine_id">>)
           /\ Item(Build(o), "sent_at_utc") = UtcText(o.sent)
           /\ \A k \in BodyKeys(o.type) : Item(Build(o), k) = Body(o)[k]
           /\ \A k : k \notin EnvelopeKeys \cup BodyKeys(o.type) => Item(Build(o), k) = Missing
  <1> DEFINE e == [type |-> Str(<<o.type>>), schema_version |-> Num(1),
                   source |-> Str(<<"source">>), machine_id |-> Str(<<"machine_id">>),
                   sent_at_utc |-> UtcText(o.sent)]
             f == e ++ Body(o)
  <1>1. Build(o) = Obj(f)
    BY DEF Build
  <1>2. Build(o).kind = "object" /\ Build(o).fields = f
    BY <1>1 DEF Obj
  <1>3. DOMAIN e = EnvelopeKeys
    BY DEF EnvelopeKeys
  <1>4. /\ e["type"] = Str(<<o.type>>) /\ e["schema_version"] = Num(1)
        /\ e["source"] = Str(<<"source">>) /\ e["machine_id"] = Str(<<"machine_id">>)
        /\ e["sent_at_utc"] = UtcText(o.sent)
    OBVIOUS
  <1>5. DOMAIN Body(o) = BodyKeys(o.type)
    BY BodyIs
  <1>6. EnvelopeKeys \cap BodyKeys(o.type) = {}
    BY DEF EnvelopeKeys, BodyKeys, Types
  <1> HIDE DEF e
  <1>7. /\ DOMAIN f = DOMAIN e \cup DOMAIN Body(o)
        /\ \A k \in DOMAIN e : f[k] = e[k]
        /\ \A k \in DOMAIN Body(o) \ DOMAIN e : f[k] = Body(o)[k]
    BY PlusIs
  <1> HIDE DEF f
  <1>8. \A k : Item(Build(o), k) = IF k \in DOMAIN f THEN f[k] ELSE Missing
    BY <1>2 DEF Item
  <1>9. "type" \in EnvelopeKeys /\ "schema_version" \in EnvelopeKeys /\ "source" \in EnvelopeKeys
        /\ "machine_id" \in EnvelopeKeys /\ "sent_at_utc" \in EnvelopeKeys
    BY DEF EnvelopeKeys
  <1>10. /\ DOMAIN f = EnvelopeKeys \cup BodyKeys(o.type)
         /\ \A k \in EnvelopeKeys : f[k] = e[k]
         /\ \A k \in BodyKeys(o.type) : f[k] = Body(o)[k]
    BY <1>3, <1>5, <1>6, <1>7
  <1>11. QED BY <1>1, <1>2, <1>4, <1>8, <1>9, <1>10

-----------------------------------------------------------------------------
(* What the parser reads of an object, field by field: each depends on the   *)
(* item of its own key and on no other.                                      *)
LineTexts == {"source", "machine_id", "bridge_version", "hostname", "status"}
LineInts == {"schema_version", "pid", "sample_interval_ms", "catalog_count"}
LineTimes == {"sent_at_utc", "sample_time_utc"}
LineKeys(type) == (EnvelopeKeys \ {"type"}) \cup BodyKeys(type)

CatalogRead(items) == [i \in DOMAIN items |-> CatalogSensor(items[i])]
BatchRead(items) == [i \in DOMAIN items |-> SensorSample(items[i])]

LineField(root, k) ==
    CASE k \in LineTexts      -> Item(root, k).text
      [] k \in LineInts       -> ValueInt(Item(root, k).number)
      [] k \in LineTimes      -> ParseIso8601UtcMs(Item(root, k).text[2])
      [] k = "uptime_s"       -> Item(root, k).number
      [] k = "capabilities"   -> JsonCompactString(Item(root, k))
      [] k = "sensors"        -> CatalogRead(Item(root, k).items)
      [] k = "samples"        -> BatchRead(Item(root, k).items)

HelloGiven(root) ==
    /\ RequireStrings(root, {"bridge_version", "hostname"})
    /\ RequireNumbers(root, {"pid", "sample_interval_ms"})
SnapshotGiven(root) ==
    /\ Item(root, "sensors").kind = "array"
    /\ \A i \in DOMAIN Item(root, "sensors").items :
           CatalogSensorGiven(Item(root, "sensors").items[i])
BatchGiven(root) ==
    /\ RequireTime(root, "sample_time_utc")
    /\ Item(root, "samples").kind = "array"
    /\ \A i \in DOMAIN Item(root, "samples").items :
           SensorSampleGiven(Item(root, "samples").items[i])
HeartbeatGiven(root) ==
    /\ RequireStrings(root, {"status"})
    /\ RequireNumbers(root, {"uptime_s", "catalog_count"})

LineGiven(root, type) ==
    /\ EnvelopeGiven(root)
    /\ type = "hello" => HelloGiven(root)
    /\ type = "catalog_snapshot" => SnapshotGiven(root)
    /\ type = "sample_batch" => BatchGiven(root)
    /\ type = "heartbeat" => HeartbeatGiven(root)

LineFields(root, S) == [k \in S |-> LineField(root, k)]
LineRead(root, type) == LineFields(root, LineKeys(type))

LEMMA PlusReads ==
    ASSUME NEW root, NEW S, NEW T
    PROVE  LineFields(root, S) ++ LineFields(root, T) = LineFields(root, S \cup T)
  <1>1. DOMAIN LineFields(root, S) = S /\ DOMAIN LineFields(root, T) = T
    BY DEF LineFields
  <1>2. /\ \A k \in S : LineFields(root, S)[k] = LineField(root, k)
        /\ \A k \in T : LineFields(root, T)[k] = LineField(root, k)
    BY DEF LineFields
  <1> HIDE DEF LineField
  <1>3. QED BY <1>1, <1>2 DEF ++, LineFields

LEMMA GetsRead ==
    ASSUME NEW root, NEW S
    PROVE  /\ S \subseteq LineTexts => GetStrings(root, S) = LineFields(root, S)
           /\ S \subseteq LineInts => GetInts(root, S) = LineFields(root, S)
           /\ S \subseteq LineTimes => GetTimes(root, S) = LineFields(root, S)
           /\ S = {"uptime_s"} => GetInt64s(root, S) = LineFields(root, S)
  <1>1. /\ \A k \in LineTexts : LineField(root, k) = Item(root, k).text
        /\ \A k \in LineInts : LineField(root, k) = ValueInt(Item(root, k).number)
        /\ \A k \in LineTimes : LineField(root, k) = ParseIso8601UtcMs(Item(root, k).text[2])
        /\ LineField(root, "uptime_s") = Item(root, "uptime_s").number
    BY DEF LineField, LineTexts, LineInts, LineTimes
  <1> HIDE DEF LineField
  <1>2. QED BY <1>1 DEF GetStrings, GetInts, GetTimes, GetInt64s, LineFields

LEMMA EnvelopeRead ==
    ASSUME NEW root
    PROVE  ParseEnvelope(root) = LineFields(root, EnvelopeKeys \ {"type"})
  <1> DEFINE a == GetInts(root, {"schema_version"})
             b == GetStrings(root, {"source", "machine_id"})
             c == GetTimes(root, {"sent_at_utc"})
  <1>1. /\ {"schema_version"} \subseteq LineInts
        /\ {"source", "machine_id"} \subseteq LineTexts
        /\ {"sent_at_utc"} \subseteq LineTimes
    BY DEF LineInts, LineTexts, LineTimes
  <1>2. /\ a = LineFields(root, {"schema_version"})
        /\ b = LineFields(root, {"source", "machine_id"})
        /\ c = LineFields(root, {"sent_at_utc"})
    BY <1>1, GetsRead
  <1>3. ParseEnvelope(root) = (a ++ b) ++ c
    BY DEF ParseEnvelope
  <1> HIDE DEF a, b, c
  <1>4. a ++ b = LineFields(root, {"schema_version"} \cup {"source", "machine_id"})
    BY <1>2, PlusReads
  <1>5. (a ++ b) ++ c = LineFields(root, ({"schema_version"} \cup {"source", "machine_id"})
                                         \cup {"sent_at_utc"})
    BY <1>2, <1>4, PlusReads
  <1>6. ({"schema_version"} \cup {"source", "machine_id"}) \cup {"sent_at_utc"}
            = EnvelopeKeys \ {"type"}
    BY DEF EnvelopeKeys
  <1>7. QED BY <1>3, <1>5, <1>6

LEMMA HelloRead ==
    ASSUME NEW root
    PROVE  ParseHello(root) = IF LineGiven(root, "hello") THEN LineRead(root, "hello") ELSE Refused
  <1> DEFINE e == ParseEnvelope(root)
             a == GetStrings(root, {"bridge_version", "hostname"})
             b == GetInts(root, {"pid", "sample_interval_ms"})
             c == [capabilities |-> JsonCompactString(Item(root, "capabilities"))]
             E == EnvelopeKeys \ {"type"}
  <1>1. ParseHello(root) = IF LineGiven(root, "hello") THEN ((e ++ a) ++ b) ++ c ELSE Refused
    BY DEF ParseHello, LineGiven, HelloGiven
  <1>2. /\ a = LineFields(root, {"bridge_version", "hostname"})
        /\ b = LineFields(root, {"pid", "sample_interval_ms"})
    <2>1. {"bridge_version", "hostname"} \subseteq LineTexts
          /\ {"pid", "sample_interval_ms"} \subseteq LineInts
      BY DEF LineInts, LineTexts
    <2>2. QED BY <2>1, GetsRead
  <1>3. c = LineFields(root, {"capabilities"})
    BY DEF LineFields, LineField, LineTexts, LineInts, LineTimes
  <1>4. e = LineFields(root, E)
    BY EnvelopeRead
  <1> HIDE DEF a, b, c, e, E
  <1>5. e ++ a = LineFields(root, E \cup {"bridge_version", "hostname"})
    BY <1>2, <1>4, PlusReads
  <1>6. (e ++ a) ++ b = LineFields(root, (E \cup {"bridge_version", "hostname"})
                                        \cup {"pid", "sample_interval_ms"})
    BY <1>2, <1>5, PlusReads
  <1>7. ((e ++ a) ++ b) ++ c = LineFields(root, ((E \cup {"bridge_version", "hostname"})
                                                \cup {"pid", "sample_interval_ms"})
                                               \cup {"capabilities"})
    BY <1>3, <1>6, PlusReads
  <1>8. ((E \cup {"bridge_version", "hostname"}) \cup {"pid", "sample_interval_ms"})
           \cup {"capabilities"} = LineKeys("hello")
    BY DEF LineKeys, BodyKeys, E
  <1>9. QED BY <1>1, <1>7, <1>8 DEF LineRead

LEMMA CatalogSnapshotRead ==
    ASSUME NEW root
    PROVE  ParseCatalogSnapshot(root) =
             IF LineGiven(root, "catalog_snapshot") THEN LineRead(root, "catalog_snapshot")
             ELSE Refused
  <1> DEFINE e == ParseEnvelope(root)
             c == [sensors |-> CatalogRead(Item(root, "sensors").items)]
             E == EnvelopeKeys \ {"type"}
  <1>1. ParseCatalogSnapshot(root) =
            IF LineGiven(root, "catalog_snapshot") THEN e ++ c ELSE Refused
    BY DEF ParseCatalogSnapshot, LineGiven, SnapshotGiven, CatalogRead
  <1>2. c = LineFields(root, {"sensors"})
    BY DEF LineFields, LineField, LineTexts, LineInts, LineTimes
  <1>3. e = LineFields(root, E)
    BY EnvelopeRead
  <1> HIDE DEF c, e, E
  <1>4. e ++ c = LineFields(root, E \cup {"sensors"})
    BY <1>2, <1>3, PlusReads
  <1>5. E \cup {"sensors"} = LineKeys("catalog_snapshot")
    BY DEF LineKeys, BodyKeys, E
  <1>6. QED BY <1>1, <1>4, <1>5 DEF LineRead

LEMMA SampleBatchRead ==
    ASSUME NEW root
    PROVE  ParseSampleBatch(root) =
             IF LineGiven(root, "sample_batch") THEN LineRead(root, "sample_batch") ELSE Refused
  <1> DEFINE e == ParseEnvelope(root)
             a == GetTimes(root, {"sample_time_utc"})
             c == [samples |-> BatchRead(Item(root, "samples").items)]
             E == EnvelopeKeys \ {"type"}
  <1>1. ParseSampleBatch(root) =
            IF LineGiven(root, "sample_batch") THEN (e ++ a) ++ c ELSE Refused
    BY DEF ParseSampleBatch, LineGiven, BatchGiven, BatchRead
  <1>2. c = LineFields(root, {"samples"})
    BY DEF LineFields, LineField, LineTexts, LineInts, LineTimes
  <1>3. e = LineFields(root, E)
    BY EnvelopeRead
  <1>4. a = LineFields(root, {"sample_time_utc"})
    BY GetsRead DEF LineTimes
  <1> HIDE DEF a, c, e, E
  <1>5. e ++ a = LineFields(root, E \cup {"sample_time_utc"})
    BY <1>3, <1>4, PlusReads
  <1>6. (e ++ a) ++ c = LineFields(root, (E \cup {"sample_time_utc"}) \cup {"samples"})
    BY <1>2, <1>5, PlusReads
  <1>7. (E \cup {"sample_time_utc"}) \cup {"samples"} = LineKeys("sample_batch")
    BY DEF LineKeys, BodyKeys, E
  <1>8. QED BY <1>1, <1>6, <1>7 DEF LineRead

LEMMA HeartbeatRead ==
    ASSUME NEW root
    PROVE  ParseHeartbeat(root) =
             IF LineGiven(root, "heartbeat") THEN LineRead(root, "heartbeat") ELSE Refused
  <1> DEFINE e == ParseEnvelope(root)
             a == GetStrings(root, {"status"})
             b == GetInt64s(root, {"uptime_s"})
             c == GetInts(root, {"catalog_count"})
             E == EnvelopeKeys \ {"type"}
  <1>1. ParseHeartbeat(root) =
            IF LineGiven(root, "heartbeat") THEN ((e ++ a) ++ b) ++ c ELSE Refused
    BY DEF ParseHeartbeat, LineGiven, HeartbeatGiven
  <1>2. /\ a = LineFields(root, {"status"})
        /\ b = LineFields(root, {"uptime_s"})
        /\ c = LineFields(root, {"catalog_count"})
    <2>1. {"status"} \subseteq LineTexts /\ {"catalog_count"} \subseteq LineInts
      BY DEF LineInts, LineTexts
    <2>2. QED BY <2>1, GetsRead
  <1>3. e = LineFields(root, E)
    BY EnvelopeRead
  <1> HIDE DEF a, b, c, e, E
  <1>4. e ++ a = LineFields(root, E \cup {"status"})
    BY <1>2, <1>3, PlusReads
  <1>5. (e ++ a) ++ b = LineFields(root, (E \cup {"status"}) \cup {"uptime_s"})
    BY <1>2, <1>4, PlusReads
  <1>6. ((e ++ a) ++ b) ++ c = LineFields(root, ((E \cup {"status"}) \cup {"uptime_s"})
                                               \cup {"catalog_count"})
    BY <1>2, <1>5, PlusReads
  <1>7. ((E \cup {"status"}) \cup {"uptime_s"}) \cup {"catalog_count"} = LineKeys("heartbeat")
    BY DEF LineKeys, BodyKeys, E
  <1>8. QED BY <1>1, <1>6, <1>7 DEF LineRead

LEMMA MessageRead ==
    ASSUME NEW root, NEW type \in Types, Item(root, "type") = Str(<<type>>)
    PROVE  ParseBridgeMessage(root) =
             IF LineGiven(root, type) THEN LineRead(root, type) ELSE Refused
  <1>1. \A a, b \in Types : Str(<<a>>) = Str(<<b>>) => a = b
    BY DEF Str
  <1>2. ParseBridgeMessage(root) =
            CASE type = "hello"            -> ParseHello(root)
              [] type = "catalog_snapshot" -> ParseCatalogSnapshot(root)
              [] type = "sample_batch"     -> ParseSampleBatch(root)
              [] type = "heartbeat"        -> ParseHeartbeat(root)
    BY <1>1 DEF ParseBridgeMessage, Types
  <1>3. QED
    BY <1>2, HelloRead, CatalogSnapshotRead, SampleBatchRead, HeartbeatRead DEF Types

(* What was read is not what is refused.                                     *)
LEMMA ReadIsNotRefused ==
    ASSUME NEW root, NEW type
    PROVE  LineRead(root, type) # Refused
  <1>1. "source" \in DOMAIN LineRead(root, type)
    BY DEF LineRead, LineFields, LineKeys, EnvelopeKeys
  <1>2. DOMAIN Refused = {}
    BY DEF Refused
  <1>3. QED BY <1>1, <1>2

LEMMA OnlyTypesAreRead ==
    ASSUME NEW root, ParseBridgeMessage(root) # Refused
    PROVE  \E type \in Types : Item(root, "type") = Str(<<type>>)
  BY DEF ParseBridgeMessage, Types

(* The same of an entry of a list.                                           *)
CatalogTexts == HardwareTexts \cup SensorTexts
CatalogKeys == CatalogTexts \cup {"sensor_index", "is_default_hidden", "properties"}
SampleTexts == {"sensor_uid", "quality"}
SampleKeys == SampleTexts \cup {"value", "min", "max"}

Optionally(item, k) == IF Item(item, k).kind = "number" THEN Item(item, k).number ELSE NoValue

CatalogField(item, k) ==
    CASE k \in CatalogTexts         -> Item(item, k).text
      [] k = "sensor_index"         -> ValueInt(Item(item, k).number)
      [] k = "is_default_hidden"    -> Item(item, k).kind = "true"
      [] k = "properties"           -> JsonCompactString(Item(item, k))

SampleField(item, k) ==
    CASE k \in SampleTexts     -> Item(item, k).text
      [] k = "value"           -> Item(item, k).number
      [] k \in {"min", "max"}  -> Optionally(item, k)

LEMMA CatalogSensorIs ==
    ASSUME NEW item
    PROVE  /\ DOMAIN CatalogSensor(item) = CatalogKeys
           /\ \A k \in CatalogKeys : CatalogSensor(item)[k] = CatalogField(item, k)
  <1> DEFINE a == GetStrings(item, CatalogTexts)
             b == GetInts(item, {"sensor_index"})
             c == [is_default_hidden |-> Item(item, "is_default_hidden").kind = "true",
                   properties |-> JsonCompactString(Item(item, "properties"))]
             f == a ++ b
  <1>1. CatalogSensor(item) = f ++ c
    BY DEF CatalogSensor, CatalogTexts
  <1>2. DOMAIN a = CatalogTexts /\ \A k \in CatalogTexts : a[k] = Item(item, k).text
    BY DEF GetStrings
  <1>3. /\ DOMAIN b = {"sensor_index"}
        /\ b["sensor_index"] = ValueInt(Item(item, "sensor_index").number)
    BY DEF GetInts
  <1>4. /\ DOMAIN c = {"is_default_hidden", "properties"}
        /\ c["is_default_hidden"] = (Item(item, "is_default_hidden").kind = "true")
        /\ c["properties"] = JsonCompactString(Item(item, "properties"))
    OBVIOUS
  <1> HIDE DEF a, b, c
  <1>5. /\ DOMAIN f = DOMAIN a \cup DOMAIN b
        /\ \A k \in DOMAIN a : f[k] = a[k]
        /\ \A k \in DOMAIN b \ DOMAIN a : f[k] = b[k]
    BY PlusIs
  <1> HIDE DEF f
  <1>6. /\ DOMAIN (f ++ c) = DOMAIN f \cup DOMAIN c
        /\ \A k \in DOMAIN f : (f ++ c)[k] = f[k]
        /\ \A k \in DOMAIN c \ DOMAIN f : (f ++ c)[k] = c[k]
    BY PlusIs
  <1>7. DOMAIN CatalogSensor(item) = CatalogKeys
    BY <1>1, <1>2, <1>3, <1>4, <1>5, <1>6 DEF CatalogKeys
  <1>8. "sensor_index" \notin CatalogTexts /\ "is_default_hidden" \notin CatalogTexts
        /\ "properties" \notin CatalogTexts
    BY DEF CatalogTexts, HardwareTexts, SensorTexts
  <1>9. ASSUME NEW k \in CatalogKeys
        PROVE  CatalogSensor(item)[k] = CatalogField(item, k)
    <2>1. CASE k \in CatalogTexts
      <3>1. CatalogSensor(item)[k] = Item(item, k).text
        BY <1>1, <1>2, <1>5, <1>6, <2>1
      <3>2. QED BY <1>8, <2>1, <3>1 DEF CatalogField
    <2>2. CASE k = "sensor_index"
      <3>1. CatalogSensor(item)[k] = ValueInt(Item(item, k).number)
        BY <1>1, <1>2, <1>3, <1>5, <1>6, <1>8, <2>2
      <3>2. QED BY <1>8, <2>2, <3>1 DEF CatalogField
    <2>3. CASE k = "is_default_hidden"
      <3>1. CatalogSensor(item)[k] = (Item(item, k).kind = "true")
        BY <1>1, <1>2, <1>3, <1>4, <1>5, <1>6, <1>8, <2>3
      <3>2. QED BY <1>8, <2>3, <3>1 DEF CatalogField
    <2>4. CASE k = "properties"
      <3>1. CatalogSensor(item)[k] = JsonCompactString(Item(item, k))
        BY <1>1, <1>2, <1>3, <1>4, <1>5, <1>6, <1>8, <2>4
      <3>2. QED BY <1>8, <2>4, <3>1 DEF CatalogField
    <2>5. QED BY <2>1, <2>2, <2>3, <2>4 DEF CatalogKeys
  <1>10. QED BY <1>7, <1>9

LEMMA SensorSampleIs ==
    ASSUME NEW item
    PROVE  /\ DOMAIN SensorSample(item) = SampleKeys
           /\ \A k \in SampleKeys : SensorSample(item)[k] = SampleField(item, k)
  <1> DEFINE a == GetStrings(item, SampleTexts)
             b == [value |-> Item(item, "value").number,
                   min |-> Optionally(item, "min"), max |-> Optionally(item, "max")]
  <1>1. SensorSample(item) = a ++ b
    BY DEF SensorSample, SampleTexts, Optionally
  <1>2. DOMAIN a = SampleTexts /\ \A k \in SampleTexts : a[k] = Item(item, k).text
    BY DEF GetStrings
  <1>3. /\ DOMAIN b = {"value", "min", "max"}
        /\ b["value"] = Item(item, "value").number
        /\ b["min"] = Optionally(item, "min") /\ b["max"] = Optionally(item, "max")
    OBVIOUS
  <1> HIDE DEF a, b
  <1>4. /\ DOMAIN (a ++ b) = DOMAIN a \cup DOMAIN b
        /\ \A k \in DOMAIN a : (a ++ b)[k] = a[k]
        /\ \A k \in DOMAIN b \ DOMAIN a : (a ++ b)[k] = b[k]
    BY PlusIs
  <1>5. DOMAIN SensorSample(item) = SampleKeys
    BY <1>1, <1>2, <1>3, <1>4 DEF SampleKeys
  <1>6. "value" \notin SampleTexts /\ "min" \notin SampleTexts /\ "max" \notin SampleTexts
    BY DEF SampleTexts
  <1>7. ASSUME NEW k \in SampleKeys
        PROVE  SensorSample(item)[k] = SampleField(item, k)
    <2>1. CASE k \in SampleTexts
      BY <1>1, <1>2, <1>4, <1>6, <2>1 DEF SampleField
    <2>2. CASE k = "value"
      BY <1>1, <1>2, <1>3, <1>4, <1>6, <2>2 DEF SampleField
    <2>3. CASE k \in {"min", "max"}
      <3>1. SensorSample(item)[k] = Optionally(item, k)
        BY <1>1, <1>2, <1>3, <1>4, <1>6, <2>3
      <3>2. QED BY <1>6, <2>3, <3>1 DEF SampleField
    <2>4. QED BY <2>1, <2>2, <2>3 DEF SampleKeys
  <1>8. QED BY <1>5, <1>7

-----------------------------------------------------------------------------
(* What the bridge builds is read as what it was built from.                 *)
LEMMA NumberIsKept ==
    ASSUME NEW n \in Nat, n <= IntMax
    PROVE  ValueInt(n) = n
  BY IntMaxAssumption DEF ValueInt

LEMMA UtcTextIsRead ==
    ASSUME Counted, NEW t \in Times
    PROVE  /\ UtcText(t).kind = "string" /\ UtcText(t).text[1] = "time"
           /\ ParseIso8601UtcMs(UtcText(t).text[2]) = At(t)
  <1> DEFINE text == [date |-> today, time |-> t, fraction |-> <<9, 9, 9, 9, 9, 9, 9>>,
                      zone |-> [sign |-> 1, hour |-> 0, minute |-> 0]]
  <1>1. UtcText(t).kind = "string" /\ UtcText(t).text[1] = "time" /\ UtcText(t).text[2] = text
    BY DEF UtcText, Str
  <1>2. t \in [hour : 0..23, minute : 0..59, second : 0..59]
    BY TimesAssumption
  <1>3. text \in Texts
    <2>1. today \in Dates
      BY DEF Counted, IsDate
    <2>2. <<9, 9, 9, 9, 9, 9, 9>> \in Seq(0..9)
      OBVIOUS
    <2>3. [sign |-> 1, hour |-> 0, minute |-> 0] \in [sign : {-1, 1}, hour : 0..23, minute : 0..59]
      OBVIOUS
    <2>4. QED BY <1>2, <2>1, <2>2, <2>3 DEF Texts
  <1>4. DaysTo(text.date) = days
    BY DEF Counted
  <1>5. Ahead(text) = 0
    BY DEF Ahead
  <1>6. Shown(text) = (t.hour * 3600 + t.minute * 60 + t.second) * 1000 + 999
    <2>1. Millisecond(text.fraction) = 999
      BY DEF Millisecond
    <2> HIDE DEF Millisecond
    <2>2. QED BY <2>1 DEF Shown
  <1>7. /\ ParseIso8601UtcMs(text) = Instant(DaysTo(text.date), Shown(text) - Ahead(text))
        /\ DaysTo(text.date) \in Int
    BY <1>3, ParseIs
  <1> HIDE DEF text
  <1> DEFINE h == t.hour
             n == t.minute
             s == t.second
             w == (h * 3600 + n * 60 + s) * 1000 + 999
  <1>8. h \in 0..23 /\ n \in 0..59 /\ s \in 0..59
    BY <1>2
  <1>9. w \in Int /\ 0 <= w /\ w < 86400000
    <2> HIDE DEF h, n, s
    <2>1. QED BY SMT, <1>8
  <1>10. At(t) = [day |-> days, ms |-> w]
    BY DEF At
  <1> HIDE DEF w
  <1>11. days \in Int /\ ParseIso8601UtcMs(text) = Instant(days, w)
    <2>1. Shown(text) = w
      BY <1>6 DEF w
    <2>2. w - 0 = w
      BY SMT, <1>9
    <2>3. QED BY <1>4, <1>5, <1>7, <2>1, <2>2
  <1>12. Instant(days, w) = [day |-> days, ms |-> w]
    BY SMT, <1>9, <1>11 DEF Instant, MsPerDay
  <1>13. QED BY <1>1, <1>10, <1>11, <1>12

LEMMA SelectionIsListed ==
    ASSUME NEW s, NEW S, Lists(s, S), NEW T, T \subseteq S
    PROVE  Lists(FlattenSeq([n \in DOMAIN s |-> IF s[n] \in T THEN <<s[n]>> ELSE <<>>]), T)
  <1> DEFINE N == Len(s)
             ss == [n \in DOMAIN s |-> IF s[n] \in T THEN <<s[n]>> ELSE <<>>]
  <1>1. /\ DOMAIN s = 1 .. N /\ N \in Nat
        /\ \A n \in DOMAIN s : s[n] \in S
        /\ \A x \in S : \E n \in DOMAIN s : s[n] = x
    BY ListsLength
  <1>2. \A i, j \in DOMAIN s : s[i] = s[j] => i = j
    BY DEF Lists, Distinct
  <1> HIDE DEF N
  <1>3. ASSUME NEW n \in 1 .. N
        PROVE  /\ ss[n] \in Seq(T) /\ Distinct(ss[n])
               /\ ToSet(ss[n]) = {s[n]} \cap T
    <2>1. CASE s[n] \in T
      <3>1. ss[n] = <<s[n]>>
        BY <1>1, <2>1
      <3>2. ToSet(<<s[n]>>) = {s[n]} /\ Distinct(<<s[n]>>) /\ <<s[n]>> \in Seq(T)
        BY <2>1 DEF ToSet, Distinct
      <3> HIDE DEF ss
      <3>3. QED BY <2>1, <3>1, <3>2
    <2>2. CASE s[n] \notin T
      <3>1. ss[n] = <<>>
        BY <1>1, <2>2
      <3>2. ToSet(<<>>) = {} /\ Distinct(<<>>) /\ <<>> \in Seq(T)
        BY DEF ToSet, Distinct
      <3> HIDE DEF ss
      <3>3. QED BY <2>2, <3>1, <3>2
    <2>3. QED BY <2>1, <2>2
  <1>4. ss \in [1 .. N -> Seq(T)]
    BY <1>1, <1>3
  <1> HIDE DEF ss
  <1>5. \A k, l \in 1 .. N : k # l => ToSet(ss[k]) \cap ToSet(ss[l]) = {}
    BY <1>1, <1>2, <1>3
  <1>6. /\ FlattenSeq(ss) \in Seq(T) /\ Distinct(FlattenSeq(ss))
        /\ ToSet(FlattenSeq(ss)) = UNION {ToSet(ss[k]) : k \in 1 .. N}
    <2>1. N \in Nat /\ \A k \in 1 .. N : Distinct(ss[k])
      BY <1>1, <1>3
    <2>2. QED BY <1>4, <1>5, <2>1, FlattenDistinct
  <1>7. UNION {ToSet(ss[k]) : k \in 1 .. N} = T
    BY <1>1, <1>3
  <1>8. QED BY <1>6, <1>7 DEF Lists, ss

(* The catalogue and the batch, entry by entry.                              *)
LEMMA CatalogIs ==
    ASSUME NEW m \in Machines
    PROVE  \E s : /\ Lists(s, Sensors(m))
                  /\ BuildCatalog(m) = Arr([n \in DOMAIN s |-> CatalogEntry(m, s[n])])
  BY SensorsAreListed DEF BuildCatalog

Valued(m) == {s \in Sensors(m) : HasValue(m, s)}

LEMMA SamplesAre ==
    ASSUME NEW m \in Machines
    PROVE  \E s : /\ Lists(s, Valued(m))
                  /\ CollectSamples(m) = Arr([n \in DOMAIN s |-> SampleEntry(m, s[n])])
  <1> DEFINE all == SensorsOf(m)
             taken == FlattenSeq([n \in DOMAIN all |->
                                     IF HasValue(m, all[n]) THEN <<all[n]>> ELSE <<>>])
             some == [n \in DOMAIN all |-> IF all[n] \in Valued(m) THEN <<all[n]>> ELSE <<>>]
  <1>1. Lists(all, Sensors(m))
    BY SensorsAreListed
  <1>2. \A n \in DOMAIN all : all[n] \in Sensors(m)
    BY <1>1, ListsLength
  <1>3. CollectSamples(m) = Arr([n \in DOMAIN taken |-> SampleEntry(m, taken[n])])
    BY DEF CollectSamples
  <1>4. taken = FlattenSeq(some)
    <2> HIDE DEF all
    <2>1. \A n \in DOMAIN all : HasValue(m, all[n]) <=> all[n] \in Valued(m)
      BY <1>2 DEF Valued
    <2> HIDE DEF HasValue, Valued
    <2>2. [n \in DOMAIN all |-> IF HasValue(m, all[n]) THEN <<all[n]>> ELSE <<>>] = some
      BY <2>1
    <2>3. QED BY <2>2
  <1>5. Lists(FlattenSeq(some), Valued(m))
    <2> HIDE DEF all
    <2>1. Valued(m) \subseteq Sensors(m)
      BY DEF Valued
    <2> HIDE DEF Valued
    <2>2. QED BY <1>1, <2>1, SelectionIsListed
  <1> HIDE DEF all, taken, some
  <1>6. QED BY <1>3, <1>4, <1>5

(* A sensor is counted with an int, in its hardware and in the machine.      *)
LEMMA SensorIs ==
    ASSUME NEW m \in Machines, NEW s \in Sensors(m)
    PROVE  /\ s = <<s[1], s[2]>> /\ s[2] \in Nat /\ s[2] <= IntMax
           /\ m.sensors[s[1]][s[2]] \in Reading
  <1>1. PICK h \in DOMAIN m.sensors : s \in {h} \X DOMAIN m.sensors[h]
    BY DEF Sensors
  <1>2. Tree(m) /\ m.sensors \in Seq(Seq(Reading))
    BY MachineIsTree
  <1>3. h \in Hardware(m) /\ h # 0
    BY <1>2 DEF Hardware, Tree
  <1>4. s = <<h, s[2]>> /\ s[1] = h /\ s[2] \in DOMAIN m.sensors[h]
    BY <1>1
  <1>5. m.sensors[h] \in Seq(Reading)
    BY <1>2
  <1>6. Lists(OwnSensors(m, h), {h} \X DOMAIN m.sensors[h])
    BY <1>2, <1>3, OwnSensorsListed
  <1>7. Cardinality({h} \X DOMAIN m.sensors[h]) = Len(OwnSensors(m, h))
    BY <1>6, ListsLength
  <1>8. Len(OwnSensors(m, h)) = Len(m.sensors[h])
    BY <1>3, <1>5 DEF OwnSensors
  <1>9. IsFiniteSet(Sensors(m)) /\ {h} \X DOMAIN m.sensors[h] \subseteq Sensors(m)
    <2>1. IsFiniteSet(Sensors(m))
      BY SensorsAreListed, ListsLength
    <2>2. QED BY <2>1 DEF Sensors
  <1>10. /\ Cardinality({h} \X DOMAIN m.sensors[h]) <= Cardinality(Sensors(m))
         /\ Cardinality(Sensors(m)) \in Nat
    BY <1>9, FS_Subset, FS_CardinalityType
  <1>11. Cardinality(Sensors(m)) <= IntMax /\ IntMax \in Nat
    BY MachinesAssumption, IntMaxAssumption
  <1>12. s[2] \in 1 .. Len(m.sensors[h])
    BY <1>4, <1>5
  <1>13. s[2] \in Nat /\ s[2] <= IntMax
    BY <1>5, <1>7, <1>8, <1>10, <1>11, <1>12
  <1>14. QED BY <1>4, <1>5, <1>12, <1>13

LEMMA CatalogEntryIs ==
    ASSUME NEW m, NEW s
    PROVE  LET e == CatalogEntry(m, s) IN
           /\ e.kind = "object" /\ DOMAIN e.fields = CatalogKeys
           /\ e = Obj(e.fields)
           /\ \A k \in HardwareTexts : Item(e, k) = Str(<<k, s[1]>>)
           /\ \A k \in SensorTexts : Item(e, k) = Str(<<k>> \o s)
           /\ Item(e, "sensor_index") = Num(s[2])
           /\ Item(e, "is_default_hidden") = Bool(m.sensors[s[1]][s[2]].hidden)
  <1> DEFINE e == CatalogEntry(m, s)
             a == [k \in HardwareTexts |-> Str(<<k, s[1]>>)]
             b == [k \in SensorTexts |-> Str(<<k>> \o s)]
             c == [sensor_index      |-> Num(s[2]),
                   is_default_hidden |-> Bool(m.sensors[s[1]][s[2]].hidden),
                   properties        |-> Obj(<<>>)]
             f == a ++ b
             g == f ++ c
  <1>1. e = Obj(g)
    BY DEF CatalogEntry
  <1>2. e.kind = "object" /\ e.fields = g
    BY <1>1 DEF Obj
  <1>3. DOMAIN a = HardwareTexts /\ \A k \in HardwareTexts : a[k] = Str(<<k, s[1]>>)
    OBVIOUS
  <1>4. DOMAIN b = SensorTexts /\ \A k \in SensorTexts : b[k] = Str(<<k>> \o s)
    OBVIOUS
  <1>5. /\ DOMAIN c = {"sensor_index", "is_default_hidden", "properties"}
        /\ c["sensor_index"] = Num(s[2])
        /\ c["is_default_hidden"] = Bool(m.sensors[s[1]][s[2]].hidden)
    OBVIOUS
  <1> HIDE DEF a, b, c, e
  <1>6. /\ DOMAIN f = DOMAIN a \cup DOMAIN b
        /\ \A k \in DOMAIN a : f[k] = a[k]
        /\ \A k \in DOMAIN b \ DOMAIN a : f[k] = b[k]
    BY PlusIs
  <1> HIDE DEF f
  <1>7. /\ DOMAIN g = DOMAIN f \cup DOMAIN c
        /\ \A k \in DOMAIN f : g[k] = f[k]
        /\ \A k \in DOMAIN c \ DOMAIN f : g[k] = c[k]
    BY PlusIs
  <1> HIDE DEF g
  <1>8. /\ HardwareTexts \cap SensorTexts = {}
        /\ "sensor_index" \notin HardwareTexts \cup SensorTexts
        /\ "is_default_hidden" \notin HardwareTexts \cup SensorTexts
    BY DEF HardwareTexts, SensorTexts
  <1>9. DOMAIN g = CatalogKeys
    BY <1>3, <1>4, <1>5, <1>6, <1>7 DEF CatalogKeys, CatalogTexts
  <1>10. \A k \in DOMAIN g : Item(e, k) = g[k]
    BY <1>2 DEF Item
  <1>11. \A k \in HardwareTexts : k \in DOMAIN g /\ g[k] = Str(<<k, s[1]>>)
    BY <1>3, <1>6, <1>7
  <1>12. \A k \in SensorTexts : k \in DOMAIN g /\ g[k] = Str(<<k>> \o s)
    BY <1>3, <1>4, <1>6, <1>7, <1>8
  <1>13. /\ "sensor_index" \in DOMAIN g /\ g["sensor_index"] = Num(s[2])
         /\ "is_default_hidden" \in DOMAIN g
         /\ g["is_default_hidden"] = Bool(m.sensors[s[1]][s[2]].hidden)
    BY <1>3, <1>4, <1>5, <1>6, <1>7, <1>8
  <1>14. QED BY <1>1, <1>2, <1>9, <1>10, <1>11, <1>12, <1>13 DEF e

LEMMA SampleEntryIs ==
    ASSUME NEW m, NEW s
    PROVE  LET e == SampleEntry(m, s)
               sensor == m.sensors[s[1]][s[2]]
           IN
           /\ e.kind = "object" /\ DOMAIN e.fields = SampleKeys
           /\ e = Obj(e.fields)
           /\ Item(e, "sensor_uid") = Str(<<"sensor_uid">> \o s)
           /\ Item(e, "quality") = Str(<<"ok">>)
           /\ Item(e, "value") = Num(sensor.value)
           /\ Item(e, "min") = Nullable(sensor.min) /\ Item(e, "max") = Nullable(sensor.max)
  <1> DEFINE e == SampleEntry(m, s)
             sensor == m.sensors[s[1]][s[2]]
             uid == Str(<<"sensor_uid">> \o s)
             ok == Str(<<"ok">>)
             value == Num(sensor.value)
             low == Nullable(sensor.min)
             high == Nullable(sensor.max)
             g == [sensor_uid |-> uid, value |-> value, quality |-> ok, min |-> low, max |-> high]
  <1>1. e = Obj(g)
    BY DEF SampleEntry
  <1> HIDE DEF uid, ok, value, low, high
  <1>2. e.kind = "object" /\ e.fields = g
    BY <1>1 DEF Obj
  <1>3. DOMAIN g = SampleKeys
    BY DEF SampleKeys, SampleTexts
  <1>4. /\ Item(e, "sensor_uid") = uid /\ Item(e, "quality") = ok
        /\ Item(e, "value") = value /\ Item(e, "min") = low /\ Item(e, "max") = high
    BY <1>2 DEF Item
  <1>5. QED BY <1>1, <1>2, <1>3, <1>4 DEF uid, ok, value, low, high

(* What the agent knows of a sensor is what the bridge found.                *)
LEMMA CatalogEntryIsRead ==
    ASSUME NEW m \in Machines, NEW s \in Sensors(m)
    PROVE  /\ CatalogSensorGiven(CatalogEntry(m, s))
           /\ Catalogued(CatalogSensor(CatalogEntry(m, s)), m, s)
  <1> DEFINE e == CatalogEntry(m, s)
             row == CatalogSensor(e)
             hidden == m.sensors[s[1]][s[2]].hidden
  <1>1. /\ e.kind = "object"
        /\ \A k \in HardwareTexts : Item(e, k) = Str(<<k, s[1]>>)
        /\ \A k \in SensorTexts : Item(e, k) = Str(<<k>> \o s)
        /\ Item(e, "sensor_index") = Num(s[2])
        /\ Item(e, "is_default_hidden") = Bool(hidden)
    BY CatalogEntryIs
  <1>2. s[2] \in Nat /\ s[2] <= IntMax /\ hidden \in BOOLEAN
    <2>1. m.sensors[s[1]][s[2]] \in Reading
      BY SensorIs
    <2>2. QED BY <2>1, SensorIs DEF Reading
  <1>3. \A k \in CatalogKeys : row[k] = CatalogField(e, k)
    BY CatalogSensorIs
  <1> HIDE DEF e, row, hidden
  <1>4. CatalogSensorGiven(e)
    <2>1. \A x : Str(x).kind = "string" /\ Num(x).kind = "number"
      BY DEF Str, Num
    <2>2. \A k \in HardwareTexts \cup SensorTexts : Item(e, k).kind = "string"
      BY <1>1, <2>1
    <2>3. QED BY <1>1, <2>1, <2>2 DEF CatalogSensorGiven, RequireStrings, RequireNumbers
  <1>5. row.sensor_uid = <<"sensor_uid">> \o s
    <2>1. "sensor_uid" \in CatalogKeys /\ "sensor_uid" \in CatalogTexts
          /\ "sensor_uid" \in SensorTexts
      BY DEF CatalogKeys, CatalogTexts, SensorTexts
    <2>2. row.sensor_uid = Item(e, "sensor_uid").text
      BY <1>3, <2>1 DEF CatalogField
    <2>3. QED BY <1>1, <2>1, <2>2 DEF Str
  <1>6. row.hardware_uid = <<"hardware_uid", s[1]>>
    <2>1. "hardware_uid" \in CatalogKeys /\ "hardware_uid" \in CatalogTexts
          /\ "hardware_uid" \in HardwareTexts
      BY DEF CatalogKeys, CatalogTexts, HardwareTexts
    <2>2. row.hardware_uid = Item(e, "hardware_uid").text
      BY <1>3, <2>1 DEF CatalogField
    <2>3. QED BY <1>1, <2>1, <2>2 DEF Str
  <1>7. "sensor_index" \notin CatalogTexts /\ "is_default_hidden" \notin CatalogTexts
        /\ "sensor_index" \in CatalogKeys /\ "is_default_hidden" \in CatalogKeys
    BY DEF CatalogKeys, CatalogTexts, HardwareTexts, SensorTexts
  <1>8. row.sensor_index = s[2]
    <2>1. row.sensor_index = ValueInt(Item(e, "sensor_index").number)
      BY <1>3, <1>7 DEF CatalogField
    <2>2. Item(e, "sensor_index").number = s[2]
      BY <1>1 DEF Num
    <2>3. QED BY <1>2, <2>1, <2>2, NumberIsKept
  <1>9. row.is_default_hidden = hidden
    <2>1. row.is_default_hidden = (Item(e, "is_default_hidden").kind = "true")
      BY <1>3, <1>7 DEF CatalogField
    <2>2. CASE hidden = TRUE
      <3>1. Bool(hidden).kind = "true"
        BY <2>2 DEF Bool
      <3>2. row.is_default_hidden = TRUE
        BY <1>1, <2>1, <3>1
      <3>3. QED BY <2>2, <3>2
    <2>3. CASE hidden = FALSE
      <3>1. Bool(hidden).kind = "false"
        BY <2>3 DEF Bool
      <3>2. row.is_default_hidden = FALSE
        BY <1>1, <2>1, <3>1
      <3>3. QED BY <2>3, <3>2
    <2>4. QED BY <1>2, <2>2, <2>3
  <1>10. QED BY <1>4, <1>5, <1>6, <1>8, <1>9 DEF Catalogued, e, row, hidden

LEMMA SampleEntryIsRead ==
    ASSUME NEW m \in Machines, NEW s \in Valued(m)
    PROVE  /\ SensorSampleGiven(SampleEntry(m, s))
           /\ Sampled(SensorSample(SampleEntry(m, s)), m, s)
  <1> DEFINE e == SampleEntry(m, s)
             row == SensorSample(e)
             sensor == m.sensors[s[1]][s[2]]
  <1>1. /\ e.kind = "object"
        /\ Item(e, "sensor_uid") = Str(<<"sensor_uid">> \o s)
        /\ Item(e, "quality") = Str(<<"ok">>)
        /\ Item(e, "value") = Num(sensor.value)
        /\ Item(e, "min") = Nullable(sensor.min) /\ Item(e, "max") = Nullable(sensor.max)
    BY SampleEntryIs
  <1>2. \A k \in SampleKeys : row[k] = SampleField(e, k)
    BY SensorSampleIs
  <1> HIDE DEF e, row, sensor
  <1>3. SensorSampleGiven(e)
    BY <1>1 DEF SensorSampleGiven, RequireStrings, RequireNumbers, Str, Num
  <1>4. /\ row["sensor_uid"] = Item(e, "sensor_uid").text
        /\ row["value"] = Item(e, "value").number
        /\ row["min"] = Optionally(e, "min") /\ row["max"] = Optionally(e, "max")
    BY <1>2 DEF SampleField, SampleKeys, SampleTexts
  <1>5. \A x : LET item == Nullable(x) IN
                 (IF item.kind = "number" THEN item.number ELSE NoValue) = x
    BY DEF Nullable, Null, Num
  <1>6. Optionally(e, "min") = sensor.min /\ Optionally(e, "max") = sensor.max
    BY <1>1, <1>5 DEF Optionally
  <1>7. Item(e, "sensor_uid").text = <<"sensor_uid">> \o s /\ Item(e, "value").number = sensor.value
    BY <1>1 DEF Str, Num
  <1>8. QED BY <1>3, <1>4, <1>6, <1>7 DEF Sampled, e, row, sensor

LEMMA LineFieldIs ==
    ASSUME NEW root
    PROVE  /\ \A k \in LineTexts : LineField(root, k) = Item(root, k).text
           /\ \A k \in LineInts : LineField(root, k) = ValueInt(Item(root, k).number)
           /\ \A k \in LineTimes : LineField(root, k) = ParseIso8601UtcMs(Item(root, k).text[2])
           /\ LineField(root, "uptime_s") = Item(root, "uptime_s").number
           /\ LineField(root, "capabilities") = JsonCompactString(Item(root, "capabilities"))
           /\ LineField(root, "sensors") = CatalogRead(Item(root, "sensors").items)
           /\ LineField(root, "samples") = BatchRead(Item(root, "samples").items)
  BY DEF LineField, LineTexts, LineInts, LineTimes

LEMMA LineReadIs ==
    ASSUME NEW root, NEW type
    PROVE  /\ DOMAIN LineRead(root, type) = LineKeys(type)
           /\ \A k \in LineKeys(type) : LineRead(root, type)[k] = LineField(root, k)
  <1> HIDE DEF LineField, LineKeys
  <1>1. QED BY DEF LineRead, LineFields

(* The lists of a line, entry by entry.                                      *)
LEMMA CatalogIsRead ==
    ASSUME NEW m \in Machines
    PROVE  LET catalog == BuildCatalog(m)
               rows_ == CatalogRead(catalog.items)
           IN /\ catalog.kind = "array"
              /\ \A i \in DOMAIN catalog.items : CatalogSensorGiven(catalog.items[i])
              /\ Len(rows_) = Cardinality(Sensors(m))
              /\ \A s \in Sensors(m) : \E n \in DOMAIN rows_ : Catalogued(rows_[n], m, s)
  <1> DEFINE items == BuildCatalog(m).items
             rows == CatalogRead(items)
  <1>1. PICK s : /\ Lists(s, Sensors(m))
                 /\ BuildCatalog(m) = Arr([n \in DOMAIN s |-> CatalogEntry(m, s[n])])
    BY CatalogIs
  <1>2. /\ DOMAIN s = 1 .. Len(s) /\ Len(s) \in Nat
        /\ Cardinality(Sensors(m)) = Len(s)
        /\ \A n \in DOMAIN s : s[n] \in Sensors(m)
        /\ \A x \in Sensors(m) : \E n \in DOMAIN s : s[n] = x
    BY <1>1, ListsLength
  <1>3. BuildCatalog(m).kind = "array" /\ items = [n \in DOMAIN s |-> CatalogEntry(m, s[n])]
    BY <1>1 DEF Arr
  <1> HIDE DEF items
  <1>4. DOMAIN items = DOMAIN s /\ \A n \in DOMAIN s : items[n] = CatalogEntry(m, s[n])
    BY <1>3
  <1>5. DOMAIN rows = DOMAIN s /\ \A n \in DOMAIN s : rows[n] = CatalogSensor(items[n])
    BY <1>4 DEF CatalogRead
  <1>6. Len(rows) = Len(s)
    <2>1. rows = [n \in 1 .. Len(s) |-> CatalogSensor(items[n])]
      BY <1>2, <1>4 DEF CatalogRead
    <2>2. QED BY <1>2, <2>1
  <1> HIDE DEF rows
  <1>7. \A n \in DOMAIN s : /\ CatalogSensorGiven(items[n])
                            /\ Catalogued(rows[n], m, s[n])
    BY <1>2, <1>4, <1>5, CatalogEntryIsRead
  <1>8. \A x \in Sensors(m) : \E n \in DOMAIN rows : Catalogued(rows[n], m, x)
    BY <1>2, <1>5, <1>7
  <1>9. QED BY <1>2, <1>3, <1>4, <1>6, <1>7, <1>8 DEF items, rows

LEMMA SamplesAreRead ==
    ASSUME NEW m \in Machines
    PROVE  LET samples == CollectSamples(m)
               rows_ == BatchRead(samples.items)
           IN /\ samples.kind = "array"
              /\ \A i \in DOMAIN samples.items : SensorSampleGiven(samples.items[i])
              /\ Len(rows_) = Cardinality(Valued(m))
              /\ \A s \in Valued(m) : \E n \in DOMAIN rows_ : Sampled(rows_[n], m, s)
  <1> DEFINE items == CollectSamples(m).items
             rows == BatchRead(items)
  <1>1. PICK s : /\ Lists(s, Valued(m))
                 /\ CollectSamples(m) = Arr([n \in DOMAIN s |-> SampleEntry(m, s[n])])
    BY SamplesAre
  <1>2. /\ DOMAIN s = 1 .. Len(s) /\ Len(s) \in Nat
        /\ Cardinality(Valued(m)) = Len(s)
        /\ \A n \in DOMAIN s : s[n] \in Valued(m)
        /\ \A x \in Valued(m) : \E n \in DOMAIN s : s[n] = x
    BY <1>1, ListsLength
  <1>3. CollectSamples(m).kind = "array" /\ items = [n \in DOMAIN s |-> SampleEntry(m, s[n])]
    BY <1>1 DEF Arr
  <1> HIDE DEF items
  <1>4. DOMAIN items = DOMAIN s /\ \A n \in DOMAIN s : items[n] = SampleEntry(m, s[n])
    BY <1>3
  <1>5. DOMAIN rows = DOMAIN s /\ \A n \in DOMAIN s : rows[n] = SensorSample(items[n])
    BY <1>4 DEF BatchRead
  <1>6. Len(rows) = Len(s)
    <2>1. rows = [n \in 1 .. Len(s) |-> SensorSample(items[n])]
      BY <1>2, <1>4 DEF BatchRead
    <2>2. QED BY <1>2, <2>1
  <1> HIDE DEF rows
  <1>7. \A n \in DOMAIN s : /\ SensorSampleGiven(items[n])
                            /\ Sampled(rows[n], m, s[n])
    BY <1>2, <1>4, <1>5, SampleEntryIsRead
  <1>8. \A x \in Valued(m) : \E n \in DOMAIN rows : Sampled(rows[n], m, x)
    BY <1>2, <1>5, <1>7
  <1>9. QED BY <1>2, <1>3, <1>4, <1>6, <1>7, <1>8 DEF items, rows

(* Every line of the bridge is taken.                                        *)
LEMMA BuildIsGiven ==
    ASSUME Counted, NEW o \in Origins
    PROVE  /\ LineGiven(Build(o), o.type)
           /\ ParseBridgeMessage(Build(o)) = LineRead(Build(o), o.type)
  <1> DEFINE b == Build(o)
             type == o.type
  <1>1. type \in Types /\ o.machine \in Machines /\ o.sent \in Times /\ o.sampled \in Times
    BY DEF Origins
  <1>2. /\ Item(b, "type") = Str(<<type>>)
        /\ Item(b, "schema_version") = Num(1)
        /\ Item(b, "source") = Str(<<"source">>)
        /\ Item(b, "machine_id") = Str(<<"machine_id">>)
        /\ Item(b, "sent_at_utc") = UtcText(o.sent)
        /\ \A k \in BodyKeys(type) : Item(b, k) = Body(o)[k]
    BY <1>1, BuildIs
  <1>3. /\ type = "hello" =>
             /\ Body(o).bridge_version = Str(<<"0.1.0">>)
             /\ Body(o).hostname = Str(<<"host">>)
             /\ Body(o).pid = Num(1) /\ Body(o).sample_interval_ms = Num(2)
        /\ type = "catalog_snapshot" => Body(o).sensors = BuildCatalog(o.machine)
        /\ type = "sample_batch" =>
             /\ Body(o).sample_time_utc = UtcText(o.sampled)
             /\ Body(o).samples = CollectSamples(o.machine)
        /\ type = "heartbeat" =>
             /\ Body(o).status = Str(<<"ok">>) /\ Body(o).uptime_s = Num(o.uptime)
             /\ Body(o).catalog_count = Num(Len(SensorsOf(o.machine)))
    BY <1>1, BodyIs
  <1>4. \A x : Str(x).kind = "string" /\ Num(x).kind = "number"
    BY DEF Str, Num
  <1>5. \A t \in Times : UtcText(t).kind = "string" /\ UtcText(t).text[1] = "time"
    BY UtcTextIsRead
  <1> HIDE DEF b, type
  <1>6. EnvelopeGiven(b)
    BY <1>1, <1>2, <1>4, <1>5 DEF EnvelopeGiven, RequireNumbers, RequireStrings, RequireTime
  <1>7. type = "hello" => HelloGiven(b)
    <2>1. SUFFICES ASSUME type = "hello" PROVE HelloGiven(b)
      OBVIOUS
    <2>2. /\ Item(b, "bridge_version") = Str(<<"0.1.0">>) /\ Item(b, "hostname") = Str(<<"host">>)
          /\ Item(b, "pid") = Num(1) /\ Item(b, "sample_interval_ms") = Num(2)
      BY <1>2, <1>3, <2>1 DEF BodyKeys
    <2>3. QED BY <1>4, <2>2 DEF HelloGiven, RequireNumbers, RequireStrings
  <1>8. type = "catalog_snapshot" => SnapshotGiven(b)
    <2>1. SUFFICES ASSUME type = "catalog_snapshot" PROVE SnapshotGiven(b)
      OBVIOUS
    <2>2. Item(b, "sensors") = BuildCatalog(o.machine)
      BY <1>2, <1>3, <2>1 DEF BodyKeys
    <2>3. QED BY <1>1, <2>2, CatalogIsRead DEF SnapshotGiven
  <1>9. type = "sample_batch" => BatchGiven(b)
    <2>1. SUFFICES ASSUME type = "sample_batch" PROVE BatchGiven(b)
      OBVIOUS
    <2>2. /\ Item(b, "samples") = CollectSamples(o.machine)
          /\ Item(b, "sample_time_utc") = UtcText(o.sampled)
      BY <1>2, <1>3, <2>1 DEF BodyKeys
    <2>3. QED BY <1>1, <1>5, <2>2, SamplesAreRead DEF BatchGiven, RequireTime
  <1>10. type = "heartbeat" => HeartbeatGiven(b)
    <2>1. SUFFICES ASSUME type = "heartbeat" PROVE HeartbeatGiven(b)
      OBVIOUS
    <2>2. /\ Item(b, "status") = Str(<<"ok">>) /\ Item(b, "uptime_s") = Num(o.uptime)
          /\ Item(b, "catalog_count") = Num(Len(SensorsOf(o.machine)))
      BY <1>2, <1>3, <2>1 DEF BodyKeys
    <2>3. QED BY <1>4, <2>2 DEF HeartbeatGiven, RequireNumbers, RequireStrings
  <1>11. LineGiven(b, type)
    BY <1>6, <1>7, <1>8, <1>9, <1>10 DEF LineGiven
  <1>12. ParseBridgeMessage(b) = LineRead(b, type)
    BY <1>1, <1>2, <1>11, MessageRead
  <1>13. QED BY <1>11, <1>12 DEF b, type

(* What a line of the bridge says, once it is read.                          *)
LEMMA BuildIsRead ==
    ASSUME Counted, NEW o \in Origins
    PROVE  LET r == ParseBridgeMessage(Build(o))
               m == o.machine
           IN /\ r # Refused
              /\ r.sent_at_utc = At(o.sent)
              /\ o.type = "catalog_snapshot" =>
                   /\ Len(r.sensors) = Cardinality(Sensors(m))
                   /\ \A s \in Sensors(m) : \E n \in DOMAIN r.sensors :
                          Catalogued(r.sensors[n], m, s)
              /\ o.type = "sample_batch" =>
                   /\ r.sample_time_utc = At(o.sampled)
                   /\ Len(r.samples) = Cardinality(Valued(m))
                   /\ \A s \in Valued(m) : \E n \in DOMAIN r.samples : Sampled(r.samples[n], m, s)
              /\ o.type = "heartbeat" =>
                   /\ r.uptime_s = o.uptime
                   /\ r.catalog_count = Cardinality(Sensors(m))
  <1> DEFINE b == Build(o)
             r == ParseBridgeMessage(b)
             type == o.type
             m == o.machine
  <1>1. type \in Types /\ m \in Machines /\ o.sent \in Times /\ o.sampled \in Times
        /\ o.uptime \in Nat
    BY IntMaxAssumption DEF Origins
  <1>2. r = LineRead(b, type)
    BY BuildIsGiven
  <1>3. /\ Item(b, "sent_at_utc") = UtcText(o.sent)
        /\ \A k \in BodyKeys(type) : Item(b, k) = Body(o)[k]
    BY <1>1, BuildIs
  <1>4. /\ type = "catalog_snapshot" => Body(o).sensors = BuildCatalog(m)
        /\ type = "sample_batch" =>
             /\ Body(o).sample_time_utc = UtcText(o.sampled)
             /\ Body(o).samples = CollectSamples(m)
        /\ type = "heartbeat" =>
             /\ Body(o).uptime_s = Num(o.uptime)
             /\ Body(o).catalog_count = Num(Len(SensorsOf(m)))
    BY <1>1, BodyIs
  <1> HIDE DEF b, r, type, m
  <1>5. r # Refused
    BY <1>2, ReadIsNotRefused
  <1>6. DOMAIN r = LineKeys(type) /\ \A k \in LineKeys(type) : r[k] = LineField(b, k)
    BY <1>2, LineReadIs
  <1>7. "sent_at_utc" \in LineKeys(type) /\ BodyKeys(type) \subseteq LineKeys(type)
    BY DEF LineKeys, EnvelopeKeys
  <1>8. \A k \in LineTimes : LineField(b, k) = ParseIso8601UtcMs(Item(b, k).text[2])
    BY LineFieldIs
  <1>9. \A t \in Times : ParseIso8601UtcMs(UtcText(t).text[2]) = At(t)
    BY UtcTextIsRead
  <1>10. r.sent_at_utc = At(o.sent)
    BY <1>1, <1>3, <1>6, <1>7, <1>8, <1>9 DEF LineTimes
  <1>11. ASSUME type = "catalog_snapshot"
         PROVE  /\ Len(r.sensors) = Cardinality(Sensors(m))
                /\ \A s \in Sensors(m) : \E n \in DOMAIN r.sensors : Catalogued(r.sensors[n], m, s)
    <2>1. "sensors" \in BodyKeys(type)
      BY <1>11 DEF BodyKeys
    <2>2. r.sensors = CatalogRead(Item(b, "sensors").items)
      BY <1>6, <1>7, <2>1, LineFieldIs
    <2>3. Item(b, "sensors") = BuildCatalog(m)
      BY <1>3, <1>4, <1>11, <2>1
    <2>4. QED BY <1>1, <2>2, <2>3, CatalogIsRead
  <1>12. ASSUME type = "sample_batch"
         PROVE  /\ r.sample_time_utc = At(o.sampled)
                /\ Len(r.samples) = Cardinality(Valued(m))
                /\ \A s \in Valued(m) : \E n \in DOMAIN r.samples : Sampled(r.samples[n], m, s)
    <2>1. "samples" \in BodyKeys(type) /\ "sample_time_utc" \in BodyKeys(type)
      BY <1>12 DEF BodyKeys
    <2>2. r.samples = BatchRead(Item(b, "samples").items)
      BY <1>6, <1>7, <2>1, LineFieldIs
    <2>3. Item(b, "samples") = CollectSamples(m) /\ Item(b, "sample_time_utc") = UtcText(o.sampled)
      BY <1>3, <1>4, <1>12, <2>1
    <2>4. r.sample_time_utc = At(o.sampled)
      BY <1>1, <1>6, <1>7, <1>8, <1>9, <2>1, <2>3 DEF LineTimes
    <2>5. QED BY <1>1, <2>2, <2>3, <2>4, SamplesAreRead
  <1>13. ASSUME type = "heartbeat"
         PROVE  r.uptime_s = o.uptime /\ r.catalog_count = Cardinality(Sensors(m))
    <2>1. "uptime_s" \in BodyKeys(type) /\ "catalog_count" \in BodyKeys(type)
      BY <1>13 DEF BodyKeys
    <2>2. /\ r.uptime_s = Item(b, "uptime_s").number
          /\ r.catalog_count = ValueInt(Item(b, "catalog_count").number)
      <3>1. "catalog_count" \in LineInts
        BY DEF LineInts
      <3>2. QED BY <1>6, <1>7, <2>1, <3>1, LineFieldIs
    <2>3. Item(b, "uptime_s") = Num(o.uptime) /\ Item(b, "catalog_count") = Num(Len(SensorsOf(m)))
      BY <1>3, <1>4, <1>13, <2>1
    <2>4. Len(SensorsOf(m)) = Cardinality(Sensors(m)) /\ Len(SensorsOf(m)) \in Nat
      BY <1>1, SensorsAreListed, ListsLength
    <2>5. Cardinality(Sensors(m)) <= IntMax
      BY <1>1, MachinesAssumption
    <2>6. ValueInt(Cardinality(Sensors(m))) = Cardinality(Sensors(m))
      BY <2>4, <2>5, NumberIsKept
    <2>7. QED BY <2>2, <2>3, <2>4, <2>6 DEF Num
  <1>14. QED BY <1>5, <1>10, <1>11, <1>12, <1>13 DEF r, b, m, type

-----------------------------------------------------------------------------
(* The same line, one field away.                                            *)
Agree(a, b, key) == \A k : k # key => Item(a, k) = Item(b, k)

(* The line another client sends instead of b, a line with a list.           *)
FieldOff(b, l, change) ==
    \E key \in DOMAIN b.fields :
        /\ change = [key |-> key, entry |-> 0]
        /\ l \in Alterations(b, key)

EntryOff(b, l, change, list) ==
    LET entries == Entries(b, list)
    IN \E n \in DOMAIN entries : \E key \in DOMAIN entries[n].fields :
           /\ change = [key |-> key, entry |-> n]
           /\ \E item \in Alterations(entries[n], key) :
                l = Obj([b.fields EXCEPT ![list] = Arr([entries EXCEPT ![n] = item])])

LEMMA AlterationIs ==
    ASSUME NEW json, json.kind = "object", NEW key, NEW l \in Alterations(json, key)
    PROVE  l.kind = "object" /\ Agree(l, json, key)
  <1>1. CASE l = Obj([k \in DOMAIN json.fields \ {key} |-> json.fields[k]])
    <2>1. l.kind = "object" /\ l.fields = [k \in DOMAIN json.fields \ {key} |-> json.fields[k]]
      BY <1>1 DEF Obj
    <2>2. QED BY <2>1 DEF Agree, Item
  <1>2. CASE \E odd \in Oddities : l = Obj([json.fields EXCEPT ![key] = odd])
    <2>1. PICK odd \in Oddities : l = Obj([json.fields EXCEPT ![key] = odd])
      BY <1>2
    <2>2. l.kind = "object" /\ l.fields = [json.fields EXCEPT ![key] = odd]
      BY <2>1 DEF Obj
    <2>3. QED BY <2>2 DEF Agree, Item
  <1>3. QED BY <1>1, <1>2 DEF Alterations

(* A field is read from its own item.                                        *)
LEMMA FieldOfItem ==
    ASSUME NEW a, NEW b, NEW k, Item(a, k) = Item(b, k)
    PROVE  /\ LineField(a, k) = LineField(b, k)
           /\ CatalogField(a, k) = CatalogField(b, k)
           /\ SampleField(a, k) = SampleField(b, k)
  BY DEF LineField, CatalogField, SampleField, Optionally

(* Each kind of line has a field of its own, without which it is refused: a  *)
(* line is not taken for one of another kind.                                *)
LEMMA TypeIsKept ==
    ASSUME NEW o, o.type \in Types, NEW l, NEW key, Agree(l, Build(o), key),
           ParseBridgeMessage(l) # Refused
    PROVE  Item(l, "type") = Str(<<o.type>>)
  <1> DEFINE type == o.type
             b == Build(o)
             own == EnvelopeKeys \cup BodyKeys(type)
  <1>1. Item(b, "type") = Str(<<type>>) /\ \A k : k \notin own => Item(b, k) = Missing
    BY BuildIs
  <1>2. CASE key # "type"
    BY <1>1, <1>2 DEF Agree
  <1>3. CASE key = "type"
    <2>1. PICK t \in Types : Item(l, "type") = Str(<<t>>)
      BY OnlyTypesAreRead
    <2>2. LineGiven(l, t)
      BY <2>1, MessageRead
    <2>3. \A k : k \notin own => Item(l, k) = Missing
      <3>1. "type" \in own
        BY DEF EnvelopeKeys
      <3> HIDE DEF own, b
      <3>2. QED BY <1>1, <1>3, <3>1 DEF Agree, b
    <2>4. Missing.kind # "string" /\ Missing.kind # "array"
      BY DEF Missing
    <2> HIDE DEF own, b
    <2>5. t = "hello" => "bridge_version" \in own
      BY <2>2, <2>3, <2>4 DEF LineGiven, HelloGiven, RequireStrings
    <2>6. t = "catalog_snapshot" => "sensors" \in own
      BY <2>2, <2>3, <2>4 DEF LineGiven, SnapshotGiven
    <2>7. t = "sample_batch" => "samples" \in own
      BY <2>2, <2>3, <2>4 DEF LineGiven, BatchGiven
    <2>8. t = "heartbeat" => "status" \in own
      BY <2>2, <2>3, <2>4 DEF LineGiven, HeartbeatGiven, RequireStrings
    <2>9. t = type
      BY <2>5, <2>6, <2>7, <2>8 DEF own, EnvelopeKeys, BodyKeys, Types
    <2>10. QED BY <2>1, <2>9
  <1>4. QED BY <1>2, <1>3

(* The entries of the line of an origin.                                     *)
EntryKeys(type) == IF type = "sample_batch" THEN SampleKeys ELSE CatalogKeys

LEMMA EntriesAre ==
    ASSUME NEW o \in Origins
    PROVE  LET entries == Entries(Build(o), ListOf(o)) IN
           /\ ListOf(o) \notin EnvelopeKeys
           /\ o.type \notin {"catalog_snapshot", "sample_batch"} =>
                /\ entries = <<>>
                /\ ListOf(o) \notin LineKeys(o.type)
           /\ o.type \in {"catalog_snapshot", "sample_batch"} =>
                /\ Item(Build(o), ListOf(o)) = Arr(entries)
                /\ entries = [n \in 1 .. Len(entries) |-> entries[n]] /\ Len(entries) \in Nat
                /\ ListOf(o) \in LineKeys(o.type)
           /\ \A n \in DOMAIN entries : /\ entries[n].kind = "object"
                                        /\ DOMAIN entries[n].fields = EntryKeys(o.type)
  <1> DEFINE b == Build(o)
             list == ListOf(o)
             type == o.type
             m == o.machine
             entries == Entries(b, list)
  <1>1. type \in Types /\ m \in Machines
    BY DEF Origins
  <1>2. /\ \A k \in BodyKeys(type) : Item(b, k) = Body(o)[k]
        /\ \A k : k \notin EnvelopeKeys \cup BodyKeys(type) => Item(b, k) = Missing
    BY <1>1, BuildIs
  <1>3. /\ type = "catalog_snapshot" => Body(o).sensors = BuildCatalog(m)
        /\ type = "sample_batch" => Body(o).samples = CollectSamples(m)
    BY <1>1, BodyIs
  <1>4. list = (IF type = "sample_batch" THEN "samples" ELSE "sensors")
    BY DEF ListOf
  <1> HIDE DEF b, list, type, m
  <1>5. list \notin EnvelopeKeys
    BY <1>4 DEF EnvelopeKeys
  <1>6. CASE type \in {"hello", "heartbeat"}
    <2>1. list = "sensors" /\ list \notin BodyKeys(type)
      BY <1>4, <1>6 DEF BodyKeys
    <2>2. Item(b, list) = Missing
      BY <1>2, <1>5, <2>1
    <2>3. entries = <<>>
      BY <2>2 DEF Entries
    <2>4. list \notin LineKeys(type)
      BY <1>5, <2>1 DEF LineKeys
    <2> HIDE DEF entries
    <2>5. QED BY <1>5, <1>6, <2>3, <2>4 DEF b, list, type, m, entries
  <1>7. CASE type = "catalog_snapshot"
    <2>1. list = "sensors" /\ list \in BodyKeys(type)
      BY <1>4, <1>7 DEF BodyKeys
    <2>2. PICK s : /\ Lists(s, Sensors(m))
                   /\ BuildCatalog(m) = Arr([n \in DOMAIN s |-> CatalogEntry(m, s[n])])
      BY <1>1, CatalogIs
    <2> DEFINE items == [n \in DOMAIN s |-> CatalogEntry(m, s[n])]
    <2>3. Item(b, list) = Arr(items)
      BY <1>2, <1>3, <1>7, <2>1, <2>2
    <2>4. entries = items
      BY <2>3 DEF Entries, Arr, Missing
    <2>5. DOMAIN s = 1 .. Len(s) /\ Len(s) \in Nat
      BY <2>2, ListsLength
    <2>6. Len(items) = Len(s) /\ items = [n \in 1 .. Len(s) |-> items[n]]
      BY <2>5
    <2>7. \A n \in DOMAIN items : /\ items[n].kind = "object"
                                  /\ DOMAIN items[n].fields = CatalogKeys
      BY CatalogEntryIs
    <2>8. list \in LineKeys(type)
      BY <2>1 DEF LineKeys
    <2>9. EntryKeys(type) = CatalogKeys
      BY <1>7 DEF EntryKeys
    <2> HIDE DEF entries, items
    <2>10. QED
      BY <1>5, <1>7, <2>3, <2>4, <2>5, <2>6, <2>7, <2>8, <2>9 DEF b, list, type, m, entries
  <1>8. CASE type = "sample_batch"
    <2>1. list = "samples" /\ list \in BodyKeys(type)
      BY <1>4, <1>8 DEF BodyKeys
    <2>2. PICK s : /\ Lists(s, Valued(m))
                   /\ CollectSamples(m) = Arr([n \in DOMAIN s |-> SampleEntry(m, s[n])])
      BY <1>1, SamplesAre
    <2> DEFINE items == [n \in DOMAIN s |-> SampleEntry(m, s[n])]
    <2>3. Item(b, list) = Arr(items)
      BY <1>2, <1>3, <1>8, <2>1, <2>2
    <2>4. entries = items
      BY <2>3 DEF Entries, Arr, Missing
    <2>5. DOMAIN s = 1 .. Len(s) /\ Len(s) \in Nat
      BY <2>2, ListsLength
    <2>6. Len(items) = Len(s) /\ items = [n \in 1 .. Len(s) |-> items[n]]
      BY <2>5
    <2>7. \A n \in DOMAIN items : /\ items[n].kind = "object"
                                  /\ DOMAIN items[n].fields = SampleKeys
      BY SampleEntryIs
    <2>8. list \in LineKeys(type)
      BY <2>1 DEF LineKeys
    <2>9. EntryKeys(type) = SampleKeys
      BY <1>8 DEF EntryKeys
    <2> HIDE DEF entries, items
    <2>10. QED
      BY <1>5, <1>8, <2>3, <2>4, <2>5, <2>6, <2>7, <2>8, <2>9 DEF b, list, type, m, entries
  <1>9. QED BY <1>1, <1>6, <1>7, <1>8 DEF Types

(* What is on the wire is the line of an origin, or one field away from it.  *)
Sent ==
    \/ origin = NoValue /\ altered = NoAlteration
    \/ \E o \in Origins :
         /\ origin = o
         /\ altered # NoAlteration => origin # NoValue
         /\ received = ParseBridgeMessage(line)
         /\ \/ altered = NoAlteration /\ line = Build(o)
            \/ FieldOff(Build(o), line, altered) \/ EntryOff(Build(o), line, altered, ListOf(o))

LEMMA BuildStays ==
    ASSUME today' = today, NEW CONSTANT o
    PROVE  Build(o)' = Build(o)
  BY DEF Build, Body, UtcText

LEMMA InitSent == ASSUME WireInit PROVE Sent
  BY DEF WireInit, Sent

(* No key is the empty one of NoAlteration.                                  *)
LEMMA NoAlterationIsNone ==
    ASSUME NEW o \in Origins, NEW l
    PROVE  /\ ~FieldOff(Build(o), l, NoAlteration)
           /\ ~EntryOff(Build(o), l, NoAlteration, ListOf(o))
  <1>1. o.type \in Types
    BY DEF Origins
  <1>2. DOMAIN Build(o).fields = EnvelopeKeys \cup BodyKeys(o.type)
    BY <1>1, BuildIs
  <1>3. "" \notin EnvelopeKeys \cup BodyKeys(o.type)
    BY <1>1 DEF EnvelopeKeys, BodyKeys, Types
  <1>4. \A n \in DOMAIN Entries(Build(o), ListOf(o)) :
           DOMAIN Entries(Build(o), ListOf(o))[n].fields = EntryKeys(o.type)
    BY EntriesAre
  <1>5. "" \notin EntryKeys(o.type)
    BY DEF EntryKeys, CatalogKeys, CatalogTexts, HardwareTexts, SensorTexts, SampleKeys, SampleTexts
  <1>6. QED BY <1>2, <1>3, <1>4, <1>5 DEF FieldOff, EntryOff, NoAlteration

LEMMA NextSent ==
    ASSUME Sent, [WireNext]_wireVars
    PROVE  Sent'
  <1>1. CASE Calendar
    BY <1>1 DEF Calendar, Sent
  <1>2. CASE BridgeSends
    <2>1. PICK m \in Machines, uptime \in Uptimes, sampled \in Times, sent \in Times,
               type \in {"hello", "catalog_snapshot", "sample_batch", "heartbeat"} :
              origin' = [type |-> type, machine |-> m, uptime |-> uptime,
                         sampled |-> sampled, sent |-> sent]
      BY <1>2 DEF BridgeSends
    <2> DEFINE o == [type |-> type, machine |-> m, uptime |-> uptime,
                     sampled |-> sampled, sent |-> sent]
    <2>2. o \in Origins
      BY DEF Origins, Types
    <2>3. /\ origin' = o /\ line' = Build(o) /\ received' = ParseBridgeMessage(line')
          /\ today' = today /\ altered' = altered
      BY <1>2, <2>1 DEF BridgeSends, vars
    <2>4. altered = NoAlteration
      BY <1>2 DEF BridgeSends, Sent
    <2> HIDE DEF o
    <2>5. Build(o)' = Build(o)
      BY <2>3, BuildStays
    <2>6. QED BY <2>2, <2>3, <2>4, <2>5 DEF Sent, NoAlteration
  <1>3. CASE OtherClientSends
    <2>1. /\ origin # NoValue /\ altered = NoAlteration /\ origin' = origin /\ today' = today
          /\ received' = ParseBridgeMessage(line')
          /\ \/ FieldOff(line, line', altered')
             \/ EntryOff(line, line', altered', ListOf(origin))
      BY <1>3 DEF OtherClientSends, vars, FieldOff, EntryOff
    <2>2. PICK o \in Origins :
             /\ origin = o
             /\ \/ line = Build(o)
                \/ FieldOff(Build(o), line, NoAlteration)
                \/ EntryOff(Build(o), line, NoAlteration, ListOf(o))
      BY <2>1 DEF Sent
    <2>3. line = Build(o)
      BY <2>2, NoAlterationIsNone
    <2>4. Build(o)' = Build(o)
      BY <2>1, BuildStays
    <2>5. \/ FieldOff(Build(o)', line', altered')
          \/ EntryOff(Build(o)', line', altered', ListOf(o))
      BY <2>1, <2>2, <2>3, <2>4
    <2>6. QED BY <2>1, <2>2, <2>5 DEF Sent, FieldOff, EntryOff
  <1>4. CASE UNCHANGED wire /\ today' = today
    <2>1. /\ origin' = origin /\ altered' = altered /\ line' = line /\ received' = received
          /\ today' = today
      BY <1>4 DEF wire
    <2>2. CASE origin = NoValue /\ altered = NoAlteration
      BY <2>1, <2>2 DEF Sent
    <2>3. CASE ~(origin = NoValue /\ altered = NoAlteration)
      <3>1. PICK o \in Origins :
               /\ origin = o /\ received = ParseBridgeMessage(line)
               /\ altered # NoAlteration => origin # NoValue
               /\ \/ altered = NoAlteration /\ line = Build(o)
                  \/ FieldOff(Build(o), line, altered)
                  \/ EntryOff(Build(o), line, altered, ListOf(o))
        BY <2>3 DEF Sent
      <3>2. Build(o)' = Build(o)
        BY <2>1, BuildStays
      <3>3. /\ origin' = o /\ received' = ParseBridgeMessage(line')
            /\ altered' # NoAlteration => origin' # NoValue
            /\ \/ altered' = NoAlteration /\ line' = Build(o)'
               \/ FieldOff(Build(o)', line', altered')
               \/ EntryOff(Build(o)', line', altered', ListOf(o))
        BY <2>1, <3>1, <3>2
      <3>4. QED BY <3>3 DEF Sent, FieldOff, EntryOff, NoAlteration
    <2>4. QED BY <2>2, <2>3
  <1>5. CASE Clock
    <2>1. UNCHANGED wire /\ today' = today
      BY <1>5 DEF Clock, Stamp
    <2>2. QED BY <1>4, <2>1
  <1>6. CASE UNCHANGED wireVars
    <2>1. UNCHANGED wire /\ today' = today
      BY <1>6 DEF wireVars, vars
    <2>2. QED BY <1>4, <2>1
  <1>7. QED BY <1>1, <1>2, <1>3, <1>5, <1>6 DEF WireNext

(* A field of the line itself written differently.                           *)
LEMMA FieldOffIsRead ==
    ASSUME Counted, NEW o \in Origins, NEW key \in DOMAIN Build(o).fields,
           NEW l \in Alterations(Build(o), key)
    PROVE  LET right == ParseBridgeMessage(Build(o))
               r == ParseBridgeMessage(l)
           IN /\ key \in Optional => r # Refused
              /\ r # Refused => /\ DOMAIN r = DOMAIN right
                                /\ \A k \in DOMAIN right \ {key} : r[k] = right[k]
  <1> DEFINE b == Build(o)
             type == o.type
             right == ParseBridgeMessage(b)
             r == ParseBridgeMessage(l)
  <1>1. type \in Types
    BY DEF Origins
  <1>2. b.kind = "object" /\ DOMAIN b.fields = EnvelopeKeys \cup BodyKeys(type)
        /\ Item(b, "type") = Str(<<type>>)
    BY <1>1, BuildIs
  <1>3. Agree(l, b, key)
    BY <1>2, AlterationIs
  <1>4. LineGiven(b, type) /\ right = LineRead(b, type)
    BY BuildIsGiven
  <1>5. r # Refused => Item(l, "type") = Str(<<type>>)
    BY <1>1, <1>3, TypeIsKept
  <1> HIDE DEF b, type, right, r
  <1>6. ASSUME r # Refused
        PROVE  DOMAIN r = DOMAIN right /\ \A k \in DOMAIN right \ {key} : r[k] = right[k]
    <2>1. r = LineRead(l, type)
      BY <1>1, <1>5, <1>6, MessageRead DEF r
    <2>2. \A k \in LineKeys(type) \ {key} : LineField(l, k) = LineField(b, k)
      BY <1>3, FieldOfItem DEF Agree
    <2>3. QED BY <1>4, <2>1, <2>2, LineReadIs
  <1>7. ASSUME key \in Optional
        PROVE  r # Refused
    <2>1. key = "capabilities" /\ type = "hello"
      BY <1>1, <1>2, <1>7 DEF Optional, EnvelopeKeys, BodyKeys, Types, b
    <2>2. \A k : k # "capabilities" => Item(l, k) = Item(b, k)
      BY <1>3, <2>1 DEF Agree
    <2>3. EnvelopeGiven(l) /\ HelloGiven(l)
      BY <1>4, <2>1, <2>2
         DEF LineGiven, EnvelopeGiven, HelloGiven, RequireNumbers, RequireStrings, RequireTime
    <2>4. LineGiven(l, "hello")
      BY <2>3 DEF LineGiven
    <2>5. Item(l, "type") = Str(<<type>>)
      BY <1>2, <2>2
    <2>6. r = LineRead(l, type)
      BY <1>1, <2>1, <2>4, <2>5, MessageRead DEF r
    <2>7. QED BY <2>6, ReadIsNotRefused
  <1>8. QED BY <1>6, <1>7 DEF r, right, b

(* A field of the entry n of the list written differently: the line l, with  *)
(* item for the entry.                                                       *)
LEMMA EntryOffIs ==
    ASSUME NEW o \in Origins, NEW n \in DOMAIN Entries(Build(o), ListOf(o)),
           NEW key \in DOMAIN Entries(Build(o), ListOf(o))[n].fields,
           NEW item \in Alterations(Entries(Build(o), ListOf(o))[n], key),
           NEW l, l = Obj([Build(o).fields EXCEPT ![ListOf(o)] =
                              Arr([Entries(Build(o), ListOf(o)) EXCEPT ![n] = item])])
    PROVE  LET b == Build(o)
               list == ListOf(o)
               old == Entries(b, list)
               new == [old EXCEPT ![n] = item]
           IN /\ o.type \in {"catalog_snapshot", "sample_batch"}
              /\ Agree(l, b, list)
              /\ Item(l, list) = Arr(new) /\ Item(b, list) = Arr(old)
              /\ DOMAIN old = 1 .. Len(old) /\ Len(old) \in Nat
              /\ DOMAIN new = DOMAIN old
              /\ key \in EntryKeys(o.type)
              /\ \A i \in DOMAIN old \ {n} : new[i] = old[i]
              /\ new[n].kind = "object" /\ Agree(new[n], old[n], key)
  <1> DEFINE b == Build(o)
             list == ListOf(o)
             type == o.type
             old == Entries(b, list)
             new == [old EXCEPT ![n] = item]
  <1>1. type \in {"catalog_snapshot", "sample_batch"}
    BY EntriesAre
  <1>2. /\ Item(b, list) = Arr(old) /\ old = [i \in 1 .. Len(old) |-> old[i]] /\ Len(old) \in Nat
        /\ old[n].kind = "object" /\ DOMAIN old[n].fields = EntryKeys(type)
    BY <1>1, EntriesAre
  <1>3. b.kind = "object" /\ b = Obj(b.fields)
    BY BuildIs DEF Origins
  <1>4. item.kind = "object" /\ Agree(item, old[n], key)
    BY <1>2, AlterationIs
  <1>5. key \in EntryKeys(type) /\ n \in DOMAIN old
    BY <1>2
  <1>6. l = Obj([b.fields EXCEPT ![list] = Arr(new)])
    OBVIOUS
  <1> HIDE DEF b, list, type, old
  <1>7. DOMAIN old = 1 .. Len(old)
    BY <1>2
  <1>8. DOMAIN new = DOMAIN old /\ new[n] = item /\ \A i \in DOMAIN old \ {n} : new[i] = old[i]
    BY <1>5
  <1> HIDE DEF new
  <1>9. list \in DOMAIN b.fields
    BY <1>2, <1>3 DEF Item, Missing, Arr
  <1>10. l.kind = "object" /\ l.fields = [b.fields EXCEPT ![list] = Arr(new)]
    BY <1>6 DEF Obj
  <1>11. Item(l, list) = Arr(new)
    BY <1>9, <1>10 DEF Item
  <1>12. Agree(l, b, list)
    BY <1>3, <1>10 DEF Agree, Item
  <1>13. QED
    BY <1>1, <1>2, <1>4, <1>5, <1>7, <1>8, <1>11, <1>12 DEF b, list, type, old, new

(* An entry is taken as it is without what it need not have.                 *)
LEMMA EntryStaysGiven ==
    ASSUME NEW a, NEW b, NEW key \in Optional, Agree(a, b, key), a.kind = "object"
    PROVE  /\ CatalogSensorGiven(b) => CatalogSensorGiven(a)
           /\ SensorSampleGiven(b) => SensorSampleGiven(a)
  <1>1. \A k \in HardwareTexts \cup SensorTexts \cup SampleTexts \cup {"sensor_index", "value"} :
            k # key
    BY DEF Optional, HardwareTexts, SensorTexts, SampleTexts
  <1>2. \A k \in HardwareTexts \cup SensorTexts \cup SampleTexts \cup {"sensor_index", "value"} :
            Item(a, k) = Item(b, k)
    BY <1>1 DEF Agree
  <1>3. CatalogSensorGiven(b) => CatalogSensorGiven(a)
    BY <1>2 DEF CatalogSensorGiven, RequireStrings, RequireNumbers
  <1>4. SensorSampleGiven(b) => SensorSampleGiven(a)
    BY <1>2 DEF SensorSampleGiven, RequireStrings, RequireNumbers, SampleTexts
  <1>5. QED BY <1>3, <1>4

LEMMA EntryOffIsRead ==
    ASSUME Counted, NEW o \in Origins, NEW n \in DOMAIN Entries(Build(o), ListOf(o)),
           NEW key \in DOMAIN Entries(Build(o), ListOf(o))[n].fields,
           NEW item \in Alterations(Entries(Build(o), ListOf(o))[n], key),
           NEW l, l = Obj([Build(o).fields EXCEPT ![ListOf(o)] =
                              Arr([Entries(Build(o), ListOf(o)) EXCEPT ![n] = item])])
    PROVE  LET right == ParseBridgeMessage(Build(o))
               r == ParseBridgeMessage(l)
               list == ListOf(o)
           IN /\ key \in Optional => r # Refused
              /\ r # Refused =>
                   /\ DOMAIN r = DOMAIN right
                   /\ \A k \in DOMAIN right \ {list} : r[k] = right[k]
                   /\ Len(r[list]) = Len(right[list])
                   /\ \A i \in DOMAIN right[list] : \A k \in DOMAIN right[list][i] :
                          (i = n /\ k = key) \/ r[list][i][k] = right[list][i][k]
  <1> DEFINE b == Build(o)
             type == o.type
             list == ListOf(o)
             right == ParseBridgeMessage(b)
             r == ParseBridgeMessage(l)
             old == Entries(b, list)
             new == [old EXCEPT ![n] = item]
  <1>1. /\ type \in {"catalog_snapshot", "sample_batch"}
        /\ Agree(l, b, list)
        /\ Item(l, list) = Arr(new) /\ Item(b, list) = Arr(old)
        /\ DOMAIN old = 1 .. Len(old) /\ Len(old) \in Nat
        /\ DOMAIN new = DOMAIN old
        /\ \A i \in DOMAIN old \ {n} : new[i] = old[i]
        /\ new[n].kind = "object" /\ Agree(new[n], old[n], key)
    BY EntryOffIs
  <1>2. type \in Types /\ Item(b, "type") = Str(<<type>>)
    BY BuildIs DEF Origins
  <1>3. LineGiven(b, type) /\ right = LineRead(b, type)
    BY BuildIsGiven
  <1>4. list \notin EnvelopeKeys /\ list \in LineKeys(type)
        /\ list = (IF type = "sample_batch" THEN "samples" ELSE "sensors")
    BY <1>1, EntriesAre DEF ListOf
  <1> HIDE DEF b, type, list, right, old, new
  <1>5. Item(l, "type") = Str(<<type>>) /\ \A k : k # list => Item(l, k) = Item(b, k)
    BY <1>1, <1>2, <1>4 DEF Agree, EnvelopeKeys
  <1>6. r = IF LineGiven(l, type) THEN LineRead(l, type) ELSE Refused
    BY <1>2, <1>5, MessageRead
  <1> HIDE DEF r
  <1>7. Item(l, list).items = new /\ Item(b, list).items = old
        /\ Item(l, list).kind = "array" /\ Item(b, list).kind = "array"
    BY <1>1 DEF Arr
  <1>8. ASSUME r # Refused
        PROVE  /\ DOMAIN r = DOMAIN right
               /\ \A k \in DOMAIN right \ {list} : r[k] = right[k]
               /\ Len(r[list]) = Len(right[list])
               /\ \A i \in DOMAIN right[list] : \A k \in DOMAIN right[list][i] :
                      (i = n /\ k = key) \/ r[list][i][k] = right[list][i][k]
    <2>1. r = LineRead(l, type)
      BY <1>6, <1>8
    <2>2. /\ DOMAIN r = LineKeys(type) /\ DOMAIN right = LineKeys(type)
          /\ \A k \in LineKeys(type) : r[k] = LineField(l, k) /\ right[k] = LineField(b, k)
      BY <1>3, <2>1, LineReadIs
    <2>3. \A k : k # list => LineField(l, k) = LineField(b, k)
      BY <1>5, FieldOfItem
    <2>4. CASE type = "catalog_snapshot"
      <3>1. r[list] = CatalogRead(new) /\ right[list] = CatalogRead(old)
        BY <1>4, <1>7, <2>2, <2>4, LineFieldIs
      <3>2. /\ DOMAIN right[list] = DOMAIN old
            /\ \A i \in DOMAIN old : /\ r[list][i] = CatalogSensor(new[i])
                                     /\ right[list][i] = CatalogSensor(old[i])
        BY <1>1, <3>1 DEF CatalogRead
      <3>3. Len(r[list]) = Len(right[list])
        <4>1. r[list] = [i \in 1 .. Len(old) |-> CatalogSensor(new[i])]
              /\ right[list] = [i \in 1 .. Len(old) |-> CatalogSensor(old[i])]
          BY <1>1, <3>1 DEF CatalogRead
        <4>2. QED BY <1>1, <4>1
      <3>4. \A k : k # key => CatalogField(new[n], k) = CatalogField(old[n], k)
        BY <1>1, FieldOfItem DEF Agree
      <3>5. ASSUME NEW i \in DOMAIN old, NEW k \in DOMAIN right[list][i], ~(i = n /\ k = key)
            PROVE  r[list][i][k] = right[list][i][k]
        <4>1. CASE i # n
          BY <1>1, <3>2, <4>1
        <4>2. CASE i = n
          <5>1. k \in CatalogKeys /\ k # key
            BY <3>2, <3>5, <4>2, CatalogSensorIs
          <5>2. QED BY <3>2, <3>4, <4>2, <5>1, CatalogSensorIs
        <4>3. QED BY <4>1, <4>2
      <3>6. QED BY <2>2, <2>3, <3>2, <3>3, <3>5
    <2>5. CASE type = "sample_batch"
      <3>1. r[list] = BatchRead(new) /\ right[list] = BatchRead(old)
        BY <1>4, <1>7, <2>2, <2>5, LineFieldIs
      <3>2. /\ DOMAIN right[list] = DOMAIN old
            /\ \A i \in DOMAIN old : /\ r[list][i] = SensorSample(new[i])
                                     /\ right[list][i] = SensorSample(old[i])
        BY <1>1, <3>1 DEF BatchRead
      <3>3. Len(r[list]) = Len(right[list])
        <4>1. r[list] = [i \in 1 .. Len(old) |-> SensorSample(new[i])]
              /\ right[list] = [i \in 1 .. Len(old) |-> SensorSample(old[i])]
          BY <1>1, <3>1 DEF BatchRead
        <4>2. QED BY <1>1, <4>1
      <3>4. \A k : k # key => SampleField(new[n], k) = SampleField(old[n], k)
        BY <1>1, FieldOfItem DEF Agree
      <3>5. ASSUME NEW i \in DOMAIN old, NEW k \in DOMAIN right[list][i], ~(i = n /\ k = key)
            PROVE  r[list][i][k] = right[list][i][k]
        <4>1. CASE i # n
          BY <1>1, <3>2, <4>1
        <4>2. CASE i = n
          <5>1. k \in SampleKeys /\ k # key
            BY <3>2, <3>5, <4>2, SensorSampleIs
          <5>2. QED BY <3>2, <3>4, <4>2, <5>1, SensorSampleIs
        <4>3. QED BY <4>1, <4>2
      <3>6. QED BY <2>2, <2>3, <3>2, <3>3, <3>5
    <2>6. QED BY <1>1, <2>4, <2>5
  <1>9. ASSUME key \in Optional
        PROVE  r # Refused
    <2>1. EnvelopeGiven(l)
      BY <1>3, <1>4, <1>5 DEF LineGiven, EnvelopeGiven, EnvelopeKeys, RequireNumbers,
                              RequireStrings, RequireTime
    <2>2. \A i \in DOMAIN old : /\ CatalogSensorGiven(old[i]) => CatalogSensorGiven(new[i])
                                /\ SensorSampleGiven(old[i]) => SensorSampleGiven(new[i])
      BY <1>1, <1>9, EntryStaysGiven
    <2>3. CASE type = "catalog_snapshot"
      <3>1. SnapshotGiven(l)
        BY <1>1, <1>3, <1>4, <1>7, <2>2, <2>3 DEF LineGiven, SnapshotGiven
      <3>2. QED BY <1>6, <2>1, <2>3, <3>1, ReadIsNotRefused DEF LineGiven
    <2>4. CASE type = "sample_batch"
      <3>1. BatchGiven(l)
        BY <1>1, <1>3, <1>4, <1>5, <1>7, <2>2, <2>4 DEF LineGiven, BatchGiven, RequireTime
      <3>2. QED BY <1>6, <2>1, <2>4, <3>1, ReadIsNotRefused DEF LineGiven
    <2>5. QED BY <1>1, <2>3, <2>4
  <1>10. QED BY <1>8, <1>9 DEF r, right, b, list

-----------------------------------------------------------------------------
LEMMA LineMeansWhatWasBuilt ==
    ASSUME Counted, Sent
    PROVE  MeansWhatWasBuilt
  <1>1. SUFFICES ASSUME origin # NoValue, altered = NoAlteration
                 PROVE  MeansWhatWasBuilt
    BY DEF MeansWhatWasBuilt
  <1>2. PICK o \in Origins :
           /\ origin = o /\ received = ParseBridgeMessage(line)
           /\ \/ line = Build(o)
              \/ FieldOff(Build(o), line, NoAlteration)
              \/ EntryOff(Build(o), line, NoAlteration, ListOf(o))
    BY <1>1 DEF Sent
  <1>3. received = ParseBridgeMessage(Build(o))
    BY <1>2, NoAlterationIsNone
  <1>4. QED BY <1>1, <1>2, <1>3, BuildIsRead DEF MeansWhatWasBuilt, Valued

LEMMA LineIsOneFieldAway ==
    ASSUME Counted, Sent
    PROVE  OneFieldAway
  <1>1. SUFFICES ASSUME altered # NoAlteration
                 PROVE  OneFieldAway
    BY DEF OneFieldAway
  <1>2. PICK o \in Origins :
           /\ origin = o /\ received = ParseBridgeMessage(line)
           /\ FieldOff(Build(o), line, altered) \/ EntryOff(Build(o), line, altered, ListOf(o))
    BY <1>1 DEF Sent
  <1> DEFINE right == ParseBridgeMessage(Build(o))
             list == ListOf(o)
             key == altered.key
             r == received
             Rest == /\ key \in Optional => r # Refused
                     /\ r # Refused =>
                          /\ DOMAIN r = DOMAIN right
                          /\ \A k \in DOMAIN right \ {key, list} : r[k] = right[k]
                          /\ (list \in DOMAIN right /\ key # list) =>
                               /\ Len(r[list]) = Len(right[list])
                               /\ \A n \in DOMAIN right[list] : \A k \in DOMAIN right[list][n] :
                                      \/ altered = [key |-> k, entry |-> n]
                                      \/ r[list][n][k] = right[list][n][k]
  <1>3. CASE FieldOff(Build(o), line, altered)
    <2>1. key \in DOMAIN Build(o).fields /\ line \in Alterations(Build(o), key)
      BY <1>3 DEF FieldOff
    <2>2. /\ key \in Optional => r # Refused
          /\ r # Refused => /\ DOMAIN r = DOMAIN right
                            /\ \A k \in DOMAIN right \ {key} : r[k] = right[k]
      BY <1>2, <2>1, FieldOffIsRead
    <2> HIDE DEF right, list, key, r
    <2>3. r # Refused /\ list \in DOMAIN right /\ key # list => r[list] = right[list]
      BY <2>2
    <2>4. Rest
      BY <2>2, <2>3
    <2>5. QED BY <1>2, <2>4 DEF OneFieldAway, right, list, key, r
  <1>4. CASE EntryOff(Build(o), line, altered, list)
    <2> DEFINE old == Entries(Build(o), list)
    <2>1. PICK n \in DOMAIN old : \E c \in DOMAIN old[n].fields :
             /\ altered = [key |-> c, entry |-> n]
             /\ \E item \in Alterations(old[n], c) :
                  line = Obj([Build(o).fields EXCEPT ![list] = Arr([old EXCEPT ![n] = item])])
      BY <1>4 DEF EntryOff
    <2>2. altered = [key |-> key, entry |-> n] /\ key \in DOMAIN old[n].fields
      BY <2>1
    <2>3. PICK item \in Alterations(old[n], key) :
             line = Obj([Build(o).fields EXCEPT ![list] = Arr([old EXCEPT ![n] = item])])
      BY <2>1
    <2>4. /\ key \in Optional => r # Refused
          /\ r # Refused =>
               /\ DOMAIN r = DOMAIN right
               /\ \A k \in DOMAIN right \ {list} : r[k] = right[k]
               /\ Len(r[list]) = Len(right[list])
               /\ \A i \in DOMAIN right[list] : \A k \in DOMAIN right[list][i] :
                      (i = n /\ k = key) \/ r[list][i][k] = right[list][i][k]
      BY <1>2, <2>2, <2>3, EntryOffIsRead
    <2> HIDE DEF right, list, key, r
    <2>5. \A i, k : i = n /\ k = key => altered = [key |-> k, entry |-> i]
      BY <2>2
    <2>6. Rest
      BY <2>4, <2>5
    <2>7. QED BY <1>2, <2>6 DEF OneFieldAway, right, list, key, r
  <1>5. QED BY <1>2, <1>3, <1>4

LEMMA LineInvariant == WireSpec => [](Counted /\ Sent)
  <1>1. WireInit => Sent
    BY InitSent
  <1>2. Sent /\ [WireNext]_wireVars => Sent'
    BY NextSent
  <1>3. WireSpec => []Sent
    BY <1>1, <1>2, PTL DEF WireSpec
  <1>4. QED BY <1>3, TimeInvariant, PTL

(* Whatever hardware the machine has, nested however deep and with whatever  *)
(* readings, a line of the bridge is taken and says what it was built from:  *)
(* each sensor once with its hardware, each value with its sensor, no        *)
(* instant mixed up (BuildCatalog, CollectSamplesRecursive,                  *)
(* ParseBridgeMessage).                                                      *)
THEOREM LinesMeanWhatWasBuilt == WireSpec => []MeansWhatWasBuilt
  BY LineInvariant, LineMeansWhatWasBuilt, PTL

(* Whatever another client writes in place of one field of such a line, or   *)
(* of one entry of its list, the line is refused as a whole or every other   *)
(* field is read as the bridge wrote it; one that may be missing never has   *)
(* the line refused (the early returns of the Parse functions).              *)
THEOREM LinesOneFieldAway == WireSpec => []OneFieldAway
  BY LineInvariant, LineIsOneFieldAway, PTL
=============================================================================
