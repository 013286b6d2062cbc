----------------------------- MODULE BridgeTime -----------------------------
(* The timestamps of the pipe protocol.  A bridge stamps its messages with   *)
(* the date and time its wall clock shows (Program.cs, SampleTimeUtc and     *)
(* SentAtUtc), and the agent turns the text into milliseconds since          *)
(* 1970-01-01 with ParseIso8601UtcMs and DaysFromCivil                       *)
(* (bridge_message_parser.cpp).  Every last_* column, every ts_utc_ms and    *)
(* the staleness of a collector are computed from that number.               *)
(*                                                                           *)
(* The calendar is counted here one day at a time, with the month lengths    *)
(* and the leap rule written out: it is the reference the closed formula of  *)
(* DaysFromCivil is compared with.  A text is the record of the fields the   *)
(* parser cuts out of it.  The form of a text, which the parser checks with  *)
(* comparisons and a ParseInt of its own, is not modelled: only texts it     *)
(* accepts are.                                                              *)
EXTENDS Integers, Sequences

CONSTANTS
    Starts,     \* where the calendar starts: Epoch or FirstDay, or either
    Years,      \* bound: the calendar stops when it leaves these years
    Times,      \* the times of day stamps are taken at
    Fractions,  \* the digits after the seconds, as sequences of 0..9
    Zones,      \* the offsets the stamps are written with
    NoStamp     \* what is neither a stamp nor a number

(* Days of which it is known how far they are from 1970-01-01: that day, and  *)
(* the first one a year of four digits can name.                             *)
Epoch    == [date |-> [year |-> 1970, month |-> 1, day |-> 1], days |-> 0]
FirstDay == [date |-> [year |-> 0, month |-> 1, day |-> 1], days |-> -719528]

ASSUME StartsAssumption == /\ Starts \subseteq {Epoch, FirstDay}
                           /\ {s.date.year : s \in Starts} \subseteq Years
ASSUME YearsAssumption == Years \subseteq Nat
ASSUME TimesAssumption ==
    Times \subseteq [hour : 0..23, minute : 0..59, second : 0..59]
ASSUME FractionsAssumption == Fractions \subseteq Seq(0..9)
ASSUME ZonesAssumption ==
    Zones \subseteq [sign : {-1, 1}, hour : 0..23, minute : 0..59]

VARIABLES
    today,  \* the date the bridge's clock shows
    days,   \* how many days that date is after 1970-01-01
    stamp,  \* the text of the message sent today, or NoStamp
    read    \* the sample_time_utc_ms the agent stored for it, or NoStamp

vars == <<today, days, stamp, read>>

-----------------------------------------------------------------------------
(* The calendar.                                                             *)

IsLeap(y) == (y % 4 = 0 /\ y % 100 # 0) \/ y % 400 = 0

MonthLength(y, m) ==
    CASE m \in {4, 6, 9, 11} -> 30
      [] m = 2               -> IF IsLeap(y) THEN 29 ELSE 28
      [] OTHER               -> 31

Tomorrow(d) ==
    IF d.day < MonthLength(d.year, d.month) THEN [d EXCEPT !.day = @ + 1]
    ELSE IF d.month < 12 THEN [d EXCEPT !.month = @ + 1, !.day = 1]
    ELSE [year |-> d.year + 1, month |-> 1, day |-> 1]

-----------------------------------------------------------------------------
(* The parser.  A 64-bit count of milliseconds is the pair of its quotient   *)
(* and remainder by a day.  The unsigned arithmetic of DaysFromCivil is      *)
(* written signed: all it wraps around (day 0 in March of a year divisible   *)
(* by 400) is undone by the cast back to int.                                *)

MsPerDay == 86400000

Instant(d, ms) == [day |-> d + ms \div MsPerDay, ms |-> ms % MsPerDay]

(* Mutant: the shifted month not allowed for, as if the year began in January *)
(* for the days and in March for the leap rule.                              *)
DaysFromCivilUnshifted(year, month, day) ==
    LET era == year \div 400
        yearOfEra == year - era * 400
        dayOfYear == (153 * (month + (IF month > 2 THEN -3 ELSE 9)) + 2) \div 5
                        + day - 1
        dayOfEra == yearOfEra * 365 + yearOfEra \div 4 - yearOfEra \div 100
                        + dayOfYear
    IN era * 146097 + dayOfEra - 719468

DaysFromCivil(year, month, day) ==
    LET y == IF month <= 2 THEN year - 1 ELSE year
        era == y \div 400
        yearOfEra == y - era * 400
        dayOfYear == (153 * (month + (IF month > 2 THEN -3 ELSE 9)) + 2) \div 5
                        + day - 1
        dayOfEra == yearOfEra * 365 + yearOfEra \div 4 - yearOfEra \div 100
                        + dayOfYear
    IN era * 146097 + dayOfEra - 719468

(* Mutant: a short fraction read as a whole number of milliseconds.          *)
MillisecondUnpadded(fraction) ==
    CASE Len(fraction) = 0 -> 0
      [] Len(fraction) = 1 -> fraction[1]
      [] Len(fraction) = 2 -> 10 * fraction[1] + fraction[2]
      [] OTHER -> 100 * fraction[1] + 10 * fraction[2] + fraction[3]

Millisecond(fraction) ==
    LET Digit(i) == IF i <= Len(fraction) THEN fraction[i] ELSE 0
    IN 100 * Digit(1) + 10 * Digit(2) + Digit(3)

OffsetSeconds(zone) == zone.sign * (zone.hour * 3600 + zone.minute * 60)

ParseIso8601UtcMs(text) ==
    LET d == DaysFromCivil(text.date.year, text.date.month, text.date.day)
        seconds == text.time.hour * 3600 + text.time.minute * 60
                     + text.time.second - OffsetSeconds(text.zone)
    IN Instant(d, seconds * 1000 + Millisecond(text.fraction))

-----------------------------------------------------------------------------
Init ==
    \E s \in Starts :
        /\ today = s.date
        /\ days = s.days
        /\ stamp = NoStamp
        /\ read = NoStamp

(* Midnight on the bridge's clock.                                           *)
NextDay ==
    /\ Tomorrow(today).year \in Years
    /\ today' = Tomorrow(today)
    /\ days' = days + 1
    /\ stamp' = NoStamp
    /\ read' = NoStamp

(* The bridge writes the time its clock shows into a message and the agent   *)
(* parses it.  One message a day is enough: nothing is carried over.         *)
Stamp ==
    /\ stamp = NoStamp
    /\ \E t \in Times, f \in Fractions, z \in Zones :
           stamp' = [date |-> today, time |-> t, fraction |-> f, zone |-> z]
    /\ read' = ParseIso8601UtcMs(stamp')
    /\ UNCHANGED <<today, days>>

Next == NextDay \/ Stamp

Spec == Init /\ [][Next]_vars

-----------------------------------------------------------------------------
TypeOK ==
    /\ today \in [year : Years, month : 1..12, day : 1..31]
    /\ days \in Int
    /\ stamp \in {NoStamp} \cup [date : {today}, time : Times,
                                 fraction : Fractions, zone : Zones]
    /\ \/ read = NoStamp
       \/ /\ read.day \in days - 1 .. days + 1
          /\ read.ms \in 0 .. MsPerDay - 1

(* The number the agent stores is the instant the bridge's clock showed: put *)
(* back into the zone of the stamp it falls on the day the calendar counted, *)
(* at the hour, minute and second of the stamp, and its milliseconds are the *)
(* first three digits of the fraction however many the bridge wrote.  It     *)
(* holds across month ends, leap days, the leap years the centuries skip,    *)
(* years before March of year 0, and offsets that move the stamp to another  *)
(* day (ParseIso8601UtcMs, DaysFromCivil).                                   *)
ReadsTheInstant ==
    stamp # NoStamp =>
        LET ahead == stamp.zone.hour * 60 + stamp.zone.minute
            shown == Instant(read.day, read.ms + stamp.zone.sign * ahead * 60000)
        IN /\ shown.day = days
           /\ shown.ms \div 3600000 = stamp.time.hour
           /\ (shown.ms \div 60000) % 60 = stamp.time.minute
           /\ (shown.ms \div 1000) % 60 = stamp.time.second
           /\ \A i \in 1..3 : ((shown.ms % 1000) \div <<100, 10, 1>>[i]) % 10 =
                  IF i \in DOMAIN stamp.fraction THEN stamp.fraction[i] ELSE 0
=============================================================================
