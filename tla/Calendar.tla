------------------------------ MODULE Calendar ------------------------------
(***************************************************************************)
(* Instants, durations and UTC date-times, the text form of a date-time,   *)
(* and sleeping.  An instant counts microseconds from the epoch; here they *)
(* are ticks, and the lengths of a second, minute, hour and day are        *)
(* parameters, so that centuries fit.  Fields are integers: fractions of a *)
(* microsecond, which the code allows, are left out.                       *)
(***************************************************************************)
EXTENDS Integers, Sequences, FiniteSets, FiniteSetsExt, SequencesExt

CONSTANTS HoursPerDay, MinutesPerHour, SecondsPerMinute, \* 24, 60, 60
          FractionDigits, \* of a second, 6: a tick is the smallest
          FirstInstants,  \* where a program begins
          Durations,      \* what it adds and takes away
          Naps,           \* how long it sleeps
          Years,          \* of the date-times it makes from fields
          MaxCalls,       \* how many calls it makes
          LongestSleep,   \* seconds one nanosleep may ask for, 2147483647
          ExactDoubles    \* whole numbers up to here are doubles, 2^53

ASSUME FieldAssumption ==
  /\ {HoursPerDay, MinutesPerHour, SecondsPerMinute} \subseteq 1..60
  /\ FractionDigits \in 1..6 /\ LongestSleep \in Nat \ {0} /\ ExactDoubles \in Nat
  /\ FirstInstants \cup Durations \cup Years \subseteq Int /\ Naps \cup {MaxCalls} \subseteq Nat

VARIABLES instant,   \* microseconds
          dateTime,  \* the fields of a date-time
          calls,
          nap        \* a sleep: what remains, the chunk, the request, what passed

calendarVars == <<instant, dateTime, calls, nap>>

TenTo(n) == <<1, 10, 100, 1000, 10000, 100000, 1000000>>[n + 1]
TicksPerSecond == TenTo(FractionDigits)
SecondsPerDay == HoursPerDay * MinutesPerHour * SecondsPerMinute
UTCDateTime(year, month, day, hour, minute, second, microsecond) ==
  [year |-> year, month |-> month, day |-> day, hour |-> hour, minute |-> minute,
   second |-> second, microsecond |-> microsecond]

(* Division in C cuts toward zero. *)
CQuotient(a, b) == IF a >= 0 THEN a \div b ELSE 0 - ((0 - a) \div b)

LeapYear(y) == (y % 4 = 0 /\ y % 100 # 0) \/ y % 400 = 0
DaysInMonth(y, m) ==
  IF m = 2 /\ LeapYear(y) THEN 29 ELSE <<31, 28, 31, 30, 31, 30, 31, 31, 30, 31, 30, 31>>[m]

(* Variant: January and February belong to the year they stand in.         *)
DaysFromCivilUnshifted(year, month, day) ==
  LET era == CQuotient(IF year >= 0 THEN year ELSE year - 399, 400)
      yoe == year - era * 400
      doy == (153 * (month + (IF month > 2 THEN -3 ELSE 9)) + 2) \div 5 + day - 1
  IN era * 146097 + yoe * 365 + (yoe \div 4) - (yoe \div 100) + doy - 719468

(* The year begins in March, so that a leap day is its last.               *)
DaysFromCivil(year, month, day) ==
  LET y == IF month <= 2 THEN year - 1 ELSE year
      era == CQuotient(IF y >= 0 THEN y ELSE y - 399, 400)
      yoe == y - era * 400
      doy == (153 * (month + (IF month > 2 THEN -3 ELSE 9)) + 2) \div 5 + day - 1
  IN era * 146097 + yoe * 365 + (yoe \div 4) - (yoe \div 100) + doy - 719468

InRange(d, lowYear, highYear) ==
  /\ d.year \in lowYear..highYear /\ d.month \in 1..12
  /\ d.hour \in 0..HoursPerDay - 1 /\ d.minute \in 0..MinutesPerHour - 1
  /\ d.second \in 0..SecondsPerMinute
IsDate(d) == InRange(d, -1000000, 1000000) /\ d.day \in 1..DaysInMonth(d.year, d.month)

(* In the years a date may have, its seconds are a fixnum and a double.    *)
WholeSeconds(d) ==
  DaysFromCivil(d.year, d.month, d.day) * SecondsPerDay
    + (d.hour * MinutesPerHour + d.minute) * SecondsPerMinute + d.second
AsInstant(d) == WholeSeconds(d) * TicksPerSecond + d.microsecond

(* gmtime_r: the Gregorian date of a day, counted from January 1 of the    *)
(* year 0, and the time of day.                                            *)
YearBegins(y) == 365 * y + ((y + 3) \div 4) - ((y + 99) \div 100) + ((y + 399) \div 400)
MonthBegins(y, m) == <<0, 31, 59, 90, 120, 151, 181, 212, 243, 273, 304, 334>>[m]
                       + (IF m > 2 /\ LeapYear(y) THEN 1 ELSE 0)
Gmtime(s) ==
  LET day == (s \div SecondsPerDay) + YearBegins(1970)
      time == s % SecondsPerDay
      guess == day \div 366
      margin == (Max({guess, 0 - guess}) \div 365) + 2
      year == Max({y \in guess - margin..guess + margin : YearBegins(y) <= day})
      month == Max({m \in 1..12 : YearBegins(year) + MonthBegins(year, m) <= day})
  IN UTCDateTime(year, month, day - YearBegins(year) - MonthBegins(year, month) + 1,
                 time \div (MinutesPerHour * SecondsPerMinute),
                 (time \div SecondsPerMinute) % MinutesPerHour, time % SecondsPerMinute, 0)

(* Seconds are handed to libc through a double, which beyond ExactDoubles  *)
(* holds even numbers only (up to twice that, the range modelled here) and *)
(* takes of the two neighbours of an odd one the multiple of four.         *)
HeldExactly(i) == (i \div TicksPerSecond) \in 0 - ExactDoubles..ExactDoubles
AsDouble(n) ==
  IF n \in 0 - ExactDoubles..ExactDoubles \/ n % 2 = 0 THEN n ELSE IF n % 4 = 1 THEN n - 1 ELSE n + 1
FromInstant(i) ==
  LET seconds == i \div TicksPerSecond
  IN [Gmtime(AsDouble(seconds)) EXCEPT !.microsecond = i - seconds * TicksPerSecond]

----------------------------------------------------------------------------
(* The text of a date-time: digits are themselves, the marks are above.    *)

DASH == 10
LETTER_T == 11
COLON_MARK == 12
POINT == 13
LETTER_Z == 14

FieldDigits(n, width) == [k \in 1..width |-> (n \div TenTo(width - k)) % 10]
Stripped(t) == SubSeq(t, 1, Max({k \in DOMAIN t : t[k] # 0} \cup {0}))
FractionalSecond(microsecond) ==
  IF microsecond = 0 THEN <<>> ELSE <<POINT>> \o Stripped(FieldDigits(microsecond, FractionDigits))

HasText(d) == InRange(d, 0, 9999) /\ d.day \in 1..31 /\ d.microsecond \in 0..TicksPerSecond - 1
AsISO8601(d) ==
  FieldDigits(d.year, 4) \o <<DASH>> \o FieldDigits(d.month, 2) \o <<DASH>> \o FieldDigits(d.day, 2) \o <<LETTER_T>>
    \o FieldDigits(d.hour, 2) \o <<COLON_MARK>> \o FieldDigits(d.minute, 2) \o <<COLON_MARK>> \o FieldDigits(d.second, 2)
    \o FractionalSecond(d.microsecond) \o <<LETTER_Z>>

IsDigitMark(m) == m \in 0..9
NumberAt(t, offset, width) == \* of at most six digits
  LET digit(k) == IF k <= width THEN t[offset + k] * TenTo(width - k) ELSE 0
  IN digit(1) + digit(2) + digit(3) + digit(4) + digit(5) + digit(6)

(* The digits after the point end where the text has another mark; a       *)
(* fraction of more digits than a tick has becomes a float, left out here. *)
FractionEnd(t) == Min({k \in 21..Len(t) : ~IsDigitMark(t[k])} \cup {Len(t) + 1}) - 1
CanParse(t) ==
  /\ Len(t) >= 20
  /\ t[5] = DASH /\ t[8] = DASH /\ t[11] = LETTER_T /\ t[14] = COLON_MARK /\ t[17] = COLON_MARK
  /\ \A k \in (1..19) \ {5, 8, 11, 14, 17} : IsDigitMark(t[k])
  /\ IF t[20] = POINT
       THEN /\ FractionEnd(t) \in 21..20 + FractionDigits
            /\ FractionEnd(t) + 1 = Len(t) /\ Last(t) = LETTER_Z
       ELSE Len(t) = 20 /\ t[20] = LETTER_Z

Parsed(t, fraction) ==
  UTCDateTime(NumberAt(t, 0, 4), NumberAt(t, 5, 2), NumberAt(t, 8, 2), NumberAt(t, 11, 2),
              NumberAt(t, 14, 2), NumberAt(t, 17, 2),
              NumberAt(fraction, 0, Len(fraction)) * TenTo(FractionDigits - Len(fraction)))
FromISO8601(t) ==
  Parsed(t, IF t[20] = POINT THEN SubSeq(t, 21, FractionEnd(t)) ELSE <<0>>)

----------------------------------------------------------------------------
(* A program moves an instant about and converts it.                       *)

Awake == [remaining |-> 0, chunk |-> 0, request |-> 0, asked |-> 0, passed |-> 0]

CalendarInit == /\ instant \in FirstInstants /\ calls = 0 /\ nap = Awake
                /\ dateTime = FromInstant(instant)
CalendarIdle == /\ instant = 0 /\ calls = 0 /\ nap = Awake
                /\ dateTime = UTCDateTime(1970, 1, 1, 0, 0, 0, 0)

Call == calls < MaxCalls /\ calls' = calls + 1 /\ nap = Awake

AfterDuration(d) == Call /\ instant' = instant + d /\ UNCHANGED <<dateTime, nap>>
BeforeDuration(d) == Call /\ instant' = instant - d /\ UNCHANGED <<dateTime, nap>>
ToInstant == Call /\ IsDate(dateTime) /\ instant' = AsInstant(dateTime) /\ UNCHANGED <<dateTime, nap>>
ToDateTime == Call /\ dateTime' = FromInstant(instant) /\ UNCHANGED <<instant, nap>>

(* Fields are not checked when a date-time is made. *)
FromFields ==
  /\ Call /\ UNCHANGED <<instant, nap>>
  /\ \E y \in Years, m \in {0, 1, 2, 3, 12}, d \in {1, 28, 29, 31}, s \in {0, SecondsPerMinute} :
       dateTime' = UTCDateTime(y, m, d, HoursPerDay - 1, MinutesPerHour - 1, s, TicksPerSecond - 1)

(* A text is that of the date-time, as it is or with a mark replaced,      *)
(* dropped or doubled.                                                     *)
Texts(t) ==
  {t} \cup {[t EXCEPT ![k] = m] : k \in DOMAIN t, m \in {3, POINT}}
      \cup UNION {{RemoveAt(t, k), InsertAt(t, k, t[k])} : k \in DOMAIN t}
ParseText ==
  /\ Call /\ HasText(dateTime) /\ UNCHANGED <<instant, nap>>
  /\ \E t \in Texts(AsISO8601(dateTime)) : CanParse(t) /\ dateTime' = FromISO8601(t)

(* A sleep asks for chunk after chunk; a signal ends a request early, and  *)
(* the rest is asked for again.                                            *)
NextChunk(n) ==
  LET chunk == Min({n.remaining, LongestSleep}) IN [n EXCEPT !.chunk = chunk, !.request = chunk]
StartSleep == \E d \in Naps : /\ Call /\ UNCHANGED <<instant, dateTime>>
                 /\ nap' = NextChunk([Awake EXCEPT !.remaining = d, !.asked = d])
Interrupted == \E t \in 0..nap.request - 1 :
                 nap' = [nap EXCEPT !.request = @ - t, !.passed = @ + t]
Slept == LET rest == [nap EXCEPT !.remaining = @ - nap.chunk, !.passed = @ + nap.request, !.request = 0, !.chunk = 0]
         IN nap' = IF rest.remaining > 0 THEN NextChunk(rest) ELSE rest
SleepStep == nap.request > 0 /\ (Interrupted \/ Slept) /\ UNCHANGED <<instant, dateTime, calls>>

CalendarNext ==
  \/ \E d \in Durations : AfterDuration(d) \/ BeforeDuration(d)
  \/ ToInstant \/ ToDateTime \/ FromFields \/ ParseText \/ StartSleep \/ SleepStep

CalendarSpec == CalendarInit /\ [][CalendarNext]_calendarVars

----------------------------------------------------------------------------
Fields(d) == <<d.year, d.month, d.day, d.hour, d.minute, d.second, d.microsecond>>
Earlier(f, g) == \E k \in DOMAIN f : f[k] < g[k] /\ SubSeq(f, 1, k - 1) = SubSeq(g, 1, k - 1)

(* An instant comes back from its date-time, and a date-time from its      *)
(* instant, in every year and for the years before the epoch and before 0; *)
(* a leap second is the first of the next minute; and later instants have  *)
(* later date-times, as long as their seconds are doubles                  *)
(* (DateTime.c:85, :115, :193).                                            *)
CalendarExact ==
  /\ HeldExactly(instant) => AsInstant(FromInstant(instant)) = instant
  /\ IsDate(dateTime) /\ HeldExactly(AsInstant(dateTime)) =>
       LET back == FromInstant(AsInstant(dateTime))
       IN IF dateTime.second < SecondsPerMinute /\ dateTime.microsecond < TicksPerSecond
            THEN back = dateTime ELSE Earlier(Fields(dateTime), Fields(back))
  /\ IsDate(dateTime) /\ AsInstant(dateTime) < instant /\ HeldExactly(instant) =>
       Earlier(Fields(dateTime), Fields(FromInstant(instant)))

(* The text of a date-time can be read, and reads back as it               *)
(* (DateTime.c:328, :409).                                                 *)
TextIsExact ==
  HasText(dateTime) =>
    LET text == AsISO8601(dateTime)
    IN CanParse(text) /\ FromISO8601(text) = dateTime

(* A sleep that returns has slept what was asked, however often a signal   *)
(* interrupted it (Instant.c:76).                                          *)
SleepsLongEnough == nap.request = 0 => nap.passed = nap.asked

(* A moment survives its fields and its text, and a sleep lasts as long as *)
(* it was asked to (DateTime.c:115, :409, Instant.c:76).                   *)
CalendarSound == CalendarExact /\ TextIsExact /\ SleepsLongEnough
=============================================================================
