------------------------------ MODULE ClockProofs ------------------------------
(***************************************************************************)
(* Proofs about the wall clock, for every length of the calendar walk,     *)
(* every radix of the RTC's registers, every resolution of time and any    *)
(* set of tasks: the closed formula of days_from_civil is the calendar,    *)
(* rtc::read never returns a torn date, and CLOCK_REALTIME is never a      *)
(* second or more behind.                                                  *)
(***************************************************************************)
EXTENDS Clock, TLAPS

---------------------------------------------------------------------------
(* The calendar *)

\* The formula's terms: the days before the March of a year, and those from March to a month.
Years(y) ==
    LET yoe == y - (y \div 400) * 400
    IN  (y \div 400) * 146097 + (yoe * 365 + yoe \div 4 - yoe \div 100)
Offset == 719468
Months(m) == (153 * (IF m > 2 THEN m - 3 ELSE m + 9) + 2) \div 5

\* The terms are integers ...
LEMMA TermsAreInt ==
    /\ \A y \in Int : Years(y) \in Int
    /\ \A m \in Int : Months(m) \in Int
    /\ Offset \in Int
BY SMTT(60) DEF Years, Months, Offset

\* ... and days_from_civil is their sum; January and February count to the year before.
LEMMA Terms ==
    ASSUME NEW y \in Int, NEW m \in Int, NEW d \in Int
    PROVE  /\ m <= 2 => DaysFromCivil(y, m, d) = Years(y - 1) + (Months(m) + d - 1) - Offset
           /\ m > 2 => DaysFromCivil(y, m, d) = Years(y) + (Months(m) + d - 1) - Offset
BY SMTT(60) DEF DaysFromCivil, Years, Months, Offset

\* What (153 * mp + 2) / 5 comes to for the twelve months.
LEMMA MonthTable ==
    /\ Months(1) = 306 /\ Months(2) = 337 /\ Months(3) = 0 /\ Months(4) = 31
    /\ Months(5) = 61 /\ Months(6) = 92 /\ Months(7) = 122 /\ Months(8) = 153
    /\ Months(9) = 184 /\ Months(10) = 214 /\ Months(11) = 245 /\ Months(12) = 275
BY DEF Months

\* From one March to the next there is a February of 28 days or, in a leap year, of 29: the
\* corrections by 4, 100 and 400 are those of the calendar, across the end of an era too.
LEMMA YearLength ==
    ASSUME NEW y \in Int
    PROVE  Years(y) = Years(y - 1) + (IF Leap(y) THEN 366 ELSE 365)
<1> DEFINE q == y \div 400
           r == y - q * 400
<1>1. q \in Int /\ r \in 0 .. 399 /\ y = q * 400 + r
  OBVIOUS
<1>2. Years(y) = q * 146097 + (r * 365 + r \div 4 - r \div 100)
  BY SMTT(60) DEF Years
<1>3. CASE r = 0
  <2>1. (y - 1) \div 400 = q - 1
    BY SMT, <1>1, <1>3
  <2>2. Years(y - 1) = (q - 1) * 146097 + (399 * 365 + 99 - 3)
    BY SMT, <1>1, <1>3, <2>1 DEF Years
  <2>3. Leap(y)
    BY SMT, <1>1, <1>3 DEF Leap
  <2> QED
    BY SMT, <1>1, <1>2, <1>3, <2>2, <2>3
<1>4. CASE r > 0
  <2>1. (y - 1) \div 400 = q
    BY SMT, <1>1, <1>4
  <2>2. Years(y - 1) = q * 146097 + ((r - 1) * 365 + (r - 1) \div 4 - (r - 1) \div 100)
    BY SMT, <1>1, <1>4, <2>1 DEF Years
  <2>3. Leap(y) <=> r % 4 = 0 /\ r % 100 # 0
    BY SMT, <1>1, <1>4 DEF Leap
  <2>4. r \div 4 = (r - 1) \div 4 + (IF r % 4 = 0 THEN 1 ELSE 0)
    BY SMT, <1>1, <1>4
  <2>5. r \div 100 = (r - 1) \div 100 + (IF r % 100 = 0 THEN 1 ELSE 0)
    BY SMT, <1>1, <1>4
  <2>6. r % 100 = 0 => r % 4 = 0
    BY SMT, <1>1
  <2> QED
    BY SMT, <1>1, <1>2, <1>4, <2>2, <2>3, <2>4, <2>5, <2>6
<1> QED
  BY SMT, <1>1, <1>3, <1>4

\* The formula gives consecutive days consecutive numbers, at the end of a month and of a year too.
LEMMA DayAfter ==
    ASSUME NEW y \in Int, NEW m \in 1 .. 12, NEW d \in 1 .. 31, d <= MonthDays(y, m)
    PROVE  /\ d < MonthDays(y, m) =>
                  d + 1 \in 1 .. 31 /\ DaysFromCivil(y, m, d + 1) = DaysFromCivil(y, m, d) + 1
           /\ ~ (d < MonthDays(y, m)) /\ m < 12 =>
                  DaysFromCivil(y, m + 1, 1) = DaysFromCivil(y, m, d) + 1
           /\ ~ (d < MonthDays(y, m)) /\ ~ (m < 12) =>
                  DaysFromCivil(y + 1, 1, 1) = DaysFromCivil(y, m, d) + 1
<1>1. Years(y) \in Int /\ Years(y - 1) \in Int /\ Months(m) \in Int /\ Offset \in Int
  BY TermsAreInt
<1>2. MonthDays(y, m) \in 28 .. 31
  BY DEF MonthDays
<1>3. \A e \in Int :
          /\ m <= 2 => DaysFromCivil(y, m, e) = Years(y - 1) + (Months(m) + e - 1) - Offset
          /\ m > 2 => DaysFromCivil(y, m, e) = Years(y) + (Months(m) + e - 1) - Offset
  BY Terms, SMTT(60)
<1>4. ASSUME d < MonthDays(y, m)
      PROVE  d + 1 \in 1 .. 31 /\ DaysFromCivil(y, m, d + 1) = DaysFromCivil(y, m, d) + 1
  BY <1>1, <1>2, <1>3, <1>4, SMTT(60)
<1>5. ASSUME ~ (d < MonthDays(y, m)), m < 12
      PROVE  DaysFromCivil(y, m + 1, 1) = DaysFromCivil(y, m, d) + 1
  <2>1. d = MonthDays(y, m) /\ m + 1 \in 2 .. 12
    BY <1>2, <1>5
  <2>2. /\ m + 1 <= 2 =>
               DaysFromCivil(y, m + 1, 1) = Years(y - 1) + (Months(m + 1) + 1 - 1) - Offset
        /\ m + 1 > 2 => DaysFromCivil(y, m + 1, 1) = Years(y) + (Months(m + 1) + 1 - 1) - Offset
    BY <2>1, Terms, SMTT(60)
  <2>3. CASE m = 2
    <3>1. Years(y) = Years(y - 1) + d + 337
      BY <1>1, <2>1, <2>3, YearLength DEF MonthDays
    <3>2. Months(m + 1) = 0 /\ Months(m) = 337
      BY <2>3, MonthTable
    <3> QED
      BY <1>1, <1>3, <2>2, <2>3, <3>1, <3>2
  <2>4. CASE m # 2
    <3>1. Months(m + 1) = Months(m) + d
      BY <2>1, <2>4, MonthTable DEF MonthDays
    <3> QED
      BY <1>1, <1>3, <2>2, <2>4, <3>1
  <2> QED
    BY <2>3, <2>4, Zenon
<1>6. ASSUME ~ (d < MonthDays(y, m)), ~ (m < 12)
      PROVE  DaysFromCivil(y + 1, 1, 1) = DaysFromCivil(y, m, d) + 1
  <2>1. d = 31 /\ m = 12
    BY <1>6 DEF MonthDays
  <2>2. DaysFromCivil(y + 1, 1, 1) = Years((y + 1) - 1) + (Months(1) + 1 - 1) - Offset
    BY Terms
  <2>3. (y + 1) - 1 = y
    OBVIOUS
  <2> QED
    BY <1>1, <1>3, <2>1, <2>2, <2>3, MonthTable
<1> QED
  BY <1>4, <1>5, <1>6, Zenon

\* A date of the calendar, and the day the formula gives it.
DateInv ==
    /\ date \in [year : Int, month : 1 .. 12, day : 1 .. 31]
    /\ date.day <= MonthDays(date.year, date.month)
    /\ day \in Int
    /\ CalendarExact

\* The calendar's next day.
LEMMA NextDayStep == ASSUME DateInv, NextDay PROVE DateInv'
<1> DEFINE y == date.year
           m == date.month
           d == date.day
<1>1. y \in Int /\ m \in 1 .. 12 /\ d \in 1 .. 31 /\ d <= MonthDays(y, m)
  BY Zenon DEF DateInv
<1>2. day \in Int /\ day' = day + 1 /\ DaysFromCivil(y, m, d) = day
  BY Zenon DEF DateInv, NextDay, CalendarExact
<1>3. \A z, n : MonthDays(z, n) \in 28 .. 31
  BY DEF MonthDays
<1>4. CASE d < MonthDays(y, m)
  <2>1. date' = [year |-> y, month |-> m, day |-> d + 1]
    BY <1>4, Zenon DEF NextDay
  <2>2. d + 1 \in 1 .. 31 /\ DaysFromCivil(y, m, d + 1) = day'
    BY <1>1, <1>2, <1>4, DayAfter, Zenon
  <2> QED
    BY <1>1, <1>2, <1>3, <1>4, <2>1, <2>2 DEF DateInv, CalendarExact
<1>5. CASE ~ (d < MonthDays(y, m)) /\ m < 12
  <2>1. date' = [year |-> y, month |-> m + 1, day |-> 1]
    BY <1>5, Zenon DEF NextDay
  <2>2. m + 1 \in 1 .. 12
    BY <1>1, <1>5
  <2>3. DaysFromCivil(y, m + 1, 1) = DaysFromCivil(y, m, d) + 1
    BY <1>1, <1>5, DayAfter, Zenon
  <2> QED
    BY <1>1, <1>2, <1>3, <1>5, <2>1, <2>2, <2>3 DEF DateInv, CalendarExact
<1>6. CASE ~ (d < MonthDays(y, m)) /\ ~ (m < 12)
  <2>1. date' = [year |-> y + 1, month |-> 1, day |-> 1]
    BY <1>6, Zenon DEF NextDay
  <2>2. DaysFromCivil(y + 1, 1, 1) = day'
    BY <1>1, <1>2, <1>6, DayAfter, Zenon
  <2> QED
    BY <1>1, <1>2, <1>3, <1>6, <2>1, <2>2 DEF DateInv, CalendarExact
<1> QED
  BY <1>4, <1>5, <1>6, Zenon

---------------------------------------------------------------------------
(* The registers *)

\* Division with remainder, for a radix that is not a numeral.
LEMMA Divide ==
    ASSUME Radix \in Nat \ {0}, NEW t \in Nat
    PROVE  /\ t \div Radix \in Nat /\ t % Radix \in 0 .. Radix - 1
           /\ Radix * (t \div Radix) \in Nat
           /\ t = Radix * (t \div Radix) + (t % Radix)
<1>1. t \div Radix \in Nat
  OBVIOUS
<1> QED
  BY <1>1

\* A time put together from a minute and a second is taken apart into the same two.
LEMMA Compose ==
    ASSUME Radix \in Nat \ {0}, NEW k \in Nat, NEW s \in 0 .. Radix - 1
    PROVE  /\ Radix * k + s \in Nat
           /\ (Radix * k + s) % Radix = s
           /\ (Radix * k + s) \div Radix = k
OBVIOUS

\* A later time has no smaller minute.
LEMMA Monotone ==
    ASSUME Radix \in Nat \ {0}, NEW a \in Nat, NEW b \in Nat, a <= b
    PROVE  /\ a \div Radix <= b \div Radix
           /\ Radix * (a \div Radix) <= Radix * (b \div Radix)
<1>1. a \div Radix <= b \div Radix
  OBVIOUS
<1>2. a \div Radix \in Nat /\ b \div Radix \in Nat
  BY Divide, Zenon
<1> QED
  BY <1>1, <1>2

\* The reading whose second was read at time a and whose minute was read at time b.
Reading(a, b) == [second |-> a % Radix, minute |-> (b \div Radix) % Radix]

\* Why two readings that agree are enough.  The second was read at a and c, the minute at b and d;
\* within a reading the RTC goes back by the update in progress at most, and between the readings
\* not at all.  The times between the first and the last of them include one that shows just that.
LEMMA AgreementIsWhole ==
    ASSUME Radix \in Nat \ {0},
           NEW a \in Nat, NEW b \in Nat, NEW c \in Nat, NEW d \in Nat,
           a <= b + 1, a <= c, b <= c, a <= d,
           Reading(a, b) = Reading(c, d)
    PROVE  \E t \in Nat : a <= t /\ (t <= c \/ t <= d) /\ Registers(t) = Reading(a, b)
<1> DEFINE s == a % Radix
<1>1. c % Radix = s /\ (d \div Radix) % Radix = (b \div Radix) % Radix
  BY Zenon DEF Reading
<1>2. /\ a \div Radix \in Nat /\ b \div Radix \in Nat /\ c \div Radix \in Nat
      /\ d \div Radix \in Nat /\ s \in 0 .. Radix - 1
  BY Divide, Zenon
<1>3. a = Radix * (a \div Radix) + s /\ c = Radix * (c \div Radix) + s
  BY <1>1, Divide, Zenon
<1>4. CASE a \div Radix <= b \div Radix
  <2> DEFINE t == Radix * (b \div Radix) + s
  <2>1. t \in Nat /\ t % Radix = s /\ t \div Radix = b \div Radix
    BY <1>2, Compose, Zenon
  <2>2. Radix * (a \div Radix) <= Radix * (b \div Radix)
    BY <1>2, <1>4
  <2>3. Radix * (b \div Radix) <= Radix * (c \div Radix)
    BY Monotone, Zenon
  <2>4. a <= t /\ t <= c
    BY <1>2, <1>3, <2>2, <2>3
  <2>5. Registers(t) = Reading(a, b)
    BY <2>1, Zenon DEF Registers, Reading
  <2> QED
    BY <2>1, <2>4, <2>5, Zenon
<1>5. CASE b \div Radix < a \div Radix
  <2>1. a = b + 1
    BY <1>2, <1>5, Monotone
  <2>2. s = 0
    <3>1. SUFFICES ASSUME s # 0 PROVE FALSE
      BY Zenon
    <3>2. s - 1 \in 0 .. Radix - 1 /\ b = Radix * (a \div Radix) + (s - 1)
      BY <1>2, <1>3, <2>1, <3>1
    <3>3. b \div Radix = a \div Radix
      BY <1>2, <3>2, Compose, Zenon
    <3> QED
      BY <1>2, <1>5, <3>3
  <2> DEFINE t == Radix * (d \div Radix) + s
  <2>3. t \in Nat /\ t % Radix = s /\ t \div Radix = d \div Radix
    BY <1>2, Compose, Zenon
  <2>4. t <= d
    BY <2>2, Divide
  <2>5. a <= t
    <3>1. Radix * (a \div Radix) <= Radix * (d \div Radix)
      BY Monotone, Zenon
    <3>2. Radix * (a \div Radix) \in Nat /\ Radix * (d \div Radix) \in Nat
      BY Divide, Zenon
    <3> QED
      BY <1>3, <2>2, <3>1, <3>2
  <2>6. Registers(t) = Reading(a, b)
    BY <1>1, <2>2, <2>3, Zenon DEF Registers, Reading
  <2> QED
    BY <2>3, <2>4, <2>5, <2>6, Zenon
<1> QED
  BY <1>2, <1>4, <1>5

\* The newest time a register can show.
Top == IF updating THEN rtc + 1 ELSE rtc

Raw == [second : Nat, minute : Nat]

ReaderOK ==
    reader \in [at : {"wait", "second", "minute", "done"}, first : {Idle} \cup Raw, second : Nat,
                tries : Int, result : {Idle} \cup Raw]

\* The times of the reads so far: a and b of the first reading, c of the second reading's second.
ReadAt(a, b, c) ==
    /\ reader.first # Idle => reader.first = Reading(a, b) /\ a <= b + 1
    /\ reader.first # Idle /\ reader.at \in {"second", "minute"} => a <= rtc /\ b <= rtc
    /\ reader.at = "minute" =>
          reader.second = c % Radix /\ (reader.first # Idle => a <= c /\ b <= c)

\* The RTC has shown every time since the read began, at t0, and the reads lie in between.
RtcInv ==
    /\ rtc \in Nat /\ updating \in BOOLEAN /\ ReaderOK /\ RtcWhole
    /\ \E t0 \in Nat :
          /\ t0 <= rtc /\ since = {Registers(t) : t \in t0 .. Top}
          /\ \E a, b, c \in t0 .. Top : ReadAt(a, b, c)

\* The RTC starts or ends an update: what it has shown grows by the newest time.
LEMMA RtcTicks == ASSUME RtcInv, StartUpdate \/ EndUpdate PROVE RtcInv'
<1>1. rtc \in Nat /\ updating \in BOOLEAN /\ ReaderOK /\ RtcWhole /\ reader' = reader
  BY Zenon DEF RtcInv, StartUpdate, EndUpdate
<1>2. PICK t0 \in Nat : /\ t0 <= rtc /\ since = {Registers(t) : t \in t0 .. Top}
                       /\ \E a, b, c \in t0 .. Top : ReadAt(a, b, c)
  BY Zenon DEF RtcInv
<1>3. PICK a \in t0 .. Top, b \in t0 .. Top, c \in t0 .. Top : ReadAt(a, b, c)
  BY <1>2, Zenon
<1>4. CASE StartUpdate
  <2>1. Top = rtc /\ Top' = rtc + 1 /\ rtc' = rtc /\ updating' \in BOOLEAN
    BY <1>4, Zenon DEF StartUpdate, Top
  <2>2. since' = {Registers(t) : t \in t0 .. Top} \cup {Registers(Top')}
    BY <1>2, <1>4, <2>1, Zenon DEF StartUpdate
  <2>3. t0 .. Top' = (t0 .. Top) \cup {Top'}
    BY <1>1, <1>2, <2>1
  <2>4. since' = {Registers(t) : t \in t0 .. Top'}
    BY <2>2, <2>3, Zenon
  <2>5. RtcWhole'
    BY <1>1, <1>2, <2>2, Zenon DEF RtcWhole
  <2>6. ReadAt(a, b, c)' /\ ReaderOK'
    BY <1>1, <1>3, <2>1, Zenon DEF ReadAt, ReaderOK
  <2> QED
    BY <1>1, <1>2, <2>1, <2>3, <2>4, <2>5, <2>6, Zenon DEF RtcInv
<1>5. CASE EndUpdate
  <2>1. Top = rtc + 1 /\ Top' = Top /\ rtc' = rtc + 1 /\ updating' \in BOOLEAN /\ since' = since
    BY <1>5, Zenon DEF EndUpdate, Top
  <2>2. RtcWhole' /\ ReaderOK'
    BY <1>1, <2>1, Zenon DEF RtcWhole, ReaderOK
  <2>3. ReadAt(a, b, c)'
    BY <1>1, <1>2, <1>3, <2>1 DEF ReadAt
  <2> QED
    BY <1>1, <1>2, <2>1, <2>2, <2>3 DEF RtcInv
<1> QED
  BY <1>4, <1>5, Zenon

\* The reader waits for an update to end: all that the RTC has shown is then in the past.
LEMMA ReaderWaits == ASSUME RtcInv, WaitForUpdate \/ GiveUp PROVE RtcInv'
<1>1. /\ rtc \in Nat /\ updating \in BOOLEAN /\ ReaderOK /\ RtcWhole
      /\ rtc' = rtc /\ updating' = updating /\ since' = since /\ Top' = Top
  BY DEF RtcInv, WaitForUpdate, GiveUp, Top
<1>2. PICK t0 \in Nat : /\ t0 <= rtc /\ since = {Registers(t) : t \in t0 .. Top}
                       /\ \E a, b, c \in t0 .. Top : ReadAt(a, b, c)
  BY Zenon DEF RtcInv
<1>3. PICK a \in t0 .. Top, b \in t0 .. Top, c \in t0 .. Top : ReadAt(a, b, c)
  BY <1>2, Zenon
<1>4. CASE WaitForUpdate
  <2>1. /\ ReaderOK' /\ reader'.at = "second" /\ reader'.first = reader.first
        /\ reader'.result = reader.result /\ Top = rtc
    BY <1>1, <1>4, Zenon DEF WaitForUpdate, ReaderOK, Top
  <2>2. RtcWhole'
    BY <2>1, Zenon DEF RtcWhole
  <2>3. ReadAt(a, b, c)'
    BY <1>1, <1>2, <1>3, <2>1 DEF ReadAt
  <2> QED
    BY <1>1, <1>2, <2>1, <2>2, <2>3, Zenon DEF RtcInv
<1>5. CASE GiveUp
  <2>1. /\ ReaderOK' /\ reader'.at = "done" /\ reader'.first = reader.first
        /\ reader'.result = Idle
    BY <1>1, <1>5, Zenon DEF GiveUp, ReaderOK
  <2>2. RtcWhole'
    BY <2>1, Zenon DEF RtcWhole
  <2>3. ReadAt(a, b, c)'
    BY <1>1, <1>2, <1>3, <2>1, Zenon DEF ReadAt
  <2> QED
    BY <1>1, <1>2, <2>1, <2>2, <2>3, Zenon DEF RtcInv
<1> QED
  BY <1>4, <1>5, Zenon

\* The second of a reading: read at the time of the RTC or, in an update, at the next.
LEMMA SecondRead == ASSUME Radix \in Nat \ {0}, RtcInv, ReadSecond PROVE RtcInv'
<1>1. /\ rtc \in Nat /\ updating \in BOOLEAN /\ ReaderOK /\ RtcWhole /\ reader.at = "second"
      /\ rtc' = rtc /\ updating' = updating /\ since' = since /\ Top' = Top
  BY Zenon DEF RtcInv, ReadSecond, Top
<1>2. PICK t0 \in Nat : /\ t0 <= rtc /\ since = {Registers(t) : t \in t0 .. Top}
                       /\ \E a, b, c \in t0 .. Top : ReadAt(a, b, c)
  BY Zenon DEF RtcInv
<1>3. PICK a \in t0 .. Top, b \in t0 .. Top, c \in t0 .. Top : ReadAt(a, b, c)
  BY <1>2, Zenon
<1>4. PICK n \in rtc .. Top : reader' = [reader EXCEPT !.at = "minute", !.second = n % Radix]
  <2>1. PICK r \in Shown : reader' = [reader EXCEPT !.at = "minute", !.second = r.second]
    BY Zenon DEF ReadSecond
  <2>2. PICK n \in rtc .. Top : r = Registers(n)
    BY <1>1 DEF Shown, Top
  <2>3. r.second = n % Radix
    BY <2>2, Zenon DEF Registers
  <2> QED
    BY <2>1, <2>3, Zenon
<1>5. n \in t0 .. Top /\ n \in Nat /\ n % Radix \in Nat
  BY <1>1, <1>2, <1>4 DEF Top
<1>6. /\ ReaderOK' /\ reader'.at = "minute" /\ reader'.first = reader.first
      /\ reader'.second = n % Radix
  BY <1>1, <1>4, <1>5, Zenon DEF ReaderOK
<1>7. RtcWhole'
  BY <1>6, Zenon DEF RtcWhole
<1>8. ReadAt(a, b, n)'
  <2>1. a \in Int /\ b \in Int /\ n \in Int /\ rtc <= n
    BY <1>1, <1>2, <1>3, <1>4 DEF Top
  <2>2. reader.first # Idle => reader.first = Reading(a, b) /\ a <= b + 1 /\ a <= rtc /\ b <= rtc
    BY <1>1, <1>3, Zenon DEF ReadAt
  <2> QED
    BY <1>1, <1>6, <2>1, <2>2 DEF ReadAt
<1> QED
  BY <1>1, <1>2, <1>5, <1>6, <1>7, <1>8, Zenon DEF RtcInv

\* The minute of a reading, and what is made of the reading: kept as the first, returned because
\* it agrees with the first, or dropped.
LEMMA MinuteRead == ASSUME Radix \in Nat \ {0}, RtcInv, ReadMinute PROVE RtcInv'
<1>1. /\ rtc \in Nat /\ updating \in BOOLEAN /\ ReaderOK /\ RtcWhole /\ reader.at = "minute"
      /\ rtc' = rtc /\ updating' = updating /\ since' = since /\ Top' = Top
  BY Zenon DEF RtcInv, ReadMinute, Top
<1>2. PICK t0 \in Nat : /\ t0 <= rtc /\ since = {Registers(t) : t \in t0 .. Top}
                       /\ \E a, b, c \in t0 .. Top : ReadAt(a, b, c)
  BY Zenon DEF RtcInv
<1>3. PICK a \in t0 .. Top, b \in t0 .. Top, c \in t0 .. Top : ReadAt(a, b, c)
  BY <1>2, Zenon
<1>4. PICK n \in rtc .. Top :
          reader' = Decide([second |-> reader.second, minute |-> (n \div Radix) % Radix])
  BY <1>1 DEF ReadMinute, Shown, Registers, Top
<1>5. /\ n \in t0 .. Top /\ n \in Nat /\ n <= rtc + 1 /\ rtc <= n
      /\ a \in Nat /\ b \in Nat /\ c \in Nat /\ c <= n + 1 /\ Top \in Nat
  BY <1>1, <1>2, <1>3, <1>4 DEF Top
<1>6. reader' = Decide(Reading(c, n))
  BY <1>1, <1>3, <1>4, Zenon DEF ReadAt, Reading
<1>7. Reading(c, n) \in Raw
  <2>1. c % Radix \in Nat /\ n \div Radix \in Nat
    BY <1>5, Divide
  <2>2. (n \div Radix) % Radix \in Nat
    BY <2>1, Divide
  <2> QED
    BY <2>1, <2>2, Zenon DEF Reading, Raw
<1>8. CASE reader.first = Idle
  <2>1. ReaderOK' /\ reader'.at = "wait" /\ reader'.first = Reading(c, n)
    BY <1>1, <1>6, <1>7, <1>8, Zenon DEF Decide, ReaderOK
  <2>2. ReadAt(c, n, c)' /\ RtcWhole'
    BY <1>5, <2>1, Zenon DEF ReadAt, RtcWhole
  <2> QED
    BY <1>1, <1>2, <1>3, <1>5, <2>1, <2>2, Zenon DEF RtcInv
<1>9. CASE reader.first # Idle /\ reader.first = Reading(c, n)
  <2>1. /\ ReaderOK' /\ reader'.at = "done" /\ reader'.first = reader.first
        /\ reader'.result = Reading(c, n)
    BY <1>1, <1>6, <1>7, <1>9, Zenon DEF Decide, ReaderOK
  <2>2. Reading(a, b) = Reading(c, n) /\ a <= b + 1 /\ a <= rtc /\ a <= c /\ b <= c
    BY <1>1, <1>3, <1>9, Zenon DEF ReadAt
  <2>3. PICK t \in Nat : a <= t /\ (t <= c \/ t <= n) /\ Registers(t) = Reading(a, b)
    <3>1. a <= n
      BY <1>1, <1>5, <2>2
    <3> QED
      BY <1>5, <2>2, <3>1, AgreementIsWhole
  <2>4. t \in t0 .. Top
    BY <1>2, <1>3, <1>5, <2>3
  <2>5. Reading(c, n) \in since
    BY <1>2, <2>2, <2>3, <2>4, Zenon
  <2>6. RtcWhole'
    BY <1>1, <2>1, <2>5, Zenon DEF RtcWhole
  <2>7. ReadAt(a, b, c)'
    BY <2>1, <2>2, <1>3, Zenon DEF ReadAt
  <2> QED
    BY <1>1, <1>2, <1>3, <2>1, <2>6, <2>7, Zenon DEF RtcInv
<1>10. CASE reader.first # Idle /\ reader.first # Reading(c, n)
  <2>1. \/ reader' = [reader EXCEPT !.at = "done", !.result = Idle]
        \/ reader' = [reader EXCEPT !.at = "wait", !.first = Idle, !.tries = @ - 1]
    BY <1>6, <1>10, Zenon DEF Decide
  <2>2. ReaderOK' /\ ((reader'.at = "wait" /\ reader'.first = Idle)
                       \/ (reader'.at = "done" /\ reader'.result = Idle
                            /\ reader'.first = reader.first))
    <3>1. CASE reader' = [reader EXCEPT !.at = "done", !.result = Idle]
      BY <1>1, <3>1, Zenon DEF ReaderOK
    <3>2. CASE reader' = [reader EXCEPT !.at = "wait", !.first = Idle, !.tries = @ - 1]
      <4>1. reader.tries - 1 \in Int
        BY <1>1 DEF ReaderOK
      <4> DEFINE tries == reader.tries - 1
      <4> HIDE DEF tries
      <4>2. reader' = [reader EXCEPT !.at = "wait", !.first = Idle, !.tries = tries]
        BY <3>2, Zenon DEF tries
      <4>3. tries \in Int
        BY <4>1, Zenon DEF tries
      <4> QED
        BY <1>1, <4>2, <4>3, Zenon DEF ReaderOK
    <3> QED
      BY <2>1, <3>1, <3>2, Zenon
  <2>3. RtcWhole'
    BY <2>2, Zenon DEF RtcWhole
  <2>4. ReadAt(a, b, c)'
    BY <1>3, <2>2, Zenon DEF ReadAt
  <2> QED
    BY <1>1, <1>2, <1>3, <2>2, <2>3, <2>4, Zenon DEF RtcInv
<1> QED
  BY <1>8, <1>9, <1>10, Zenon

---------------------------------------------------------------------------
(* clock_gettime *)

\* What a call of realtime_ns has at hand, and that the time it has made of it is not late.
Calls == [at : {"load", "rtc", "keep", "done"}, monotonic : Nat, time : Int]
InTime(r) == r.at \in {"keep", "done"} => r.time > BootTime + r.monotonic - Second

\* Once the epoch is there it is less than a second before the time of boot, and so is what every
\* call made of it, or is about to keep.
TimeInv ==
    /\ now \in Nat /\ epoch \in Int /\ (epoch # 0 => epoch > BootTime - Second)
    /\ asks \in [Tasks -> {Idle} \cup Calls]
    /\ \A t \in Tasks : asks[t].at # "idle" => asks[t].monotonic <= now
    /\ \A t \in Tasks : InTime(asks[t])

\* A call that is under way is one of Calls.
LEMMA UnderWay ==
    ASSUME TimeInv, NEW t \in Tasks, asks[t].at # "idle"
    PROVE  /\ asks[t] \in Calls /\ asks[t].monotonic \in Nat /\ asks[t].time \in Int
           /\ asks[t].monotonic <= now
<1>1. Idle.at = "idle" /\ asks[t] \in {Idle} \cup Calls
  BY Zenon DEF TimeInv, Idle
<1>2. asks[t] \in Calls
  BY <1>1, Zenon
<1> QED
  BY <1>2, Zenon DEF TimeInv, Calls

\* Time passes: what was worked out before it stays in time.
LEMMA TickStep == ASSUME TimeInv, Tick PROVE TimeInv'
<1>1. now' \in Nat /\ now <= now' /\ epoch' = epoch /\ asks' = asks
  BY DEF TimeInv, Tick
<1>2. \A t \in Tasks : asks[t].at # "idle" => asks[t].monotonic \in Nat
  BY UnderWay, Zenon
<1>3. \A t \in Tasks : asks[t].at # "idle" => asks[t].monotonic <= now'
  BY <1>1, <1>2 DEF TimeInv
<1> QED
  BY <1>1, <1>3, Zenon DEF TimeInv, InTime, BootTime

\* A step of one call keeps the invariant if what it leaves the call with is in order, and so is the
\* epoch.
LEMMA CallMoves ==
    ASSUME TimeInv, NEW t \in Tasks, NEW r \in {Idle} \cup Calls,
           r.at # "idle" => r.monotonic <= now, InTime(r),
           asks' = [asks EXCEPT ![t] = r], now' = now,
           epoch' \in Int, epoch' # 0 => epoch' > BootTime - Second
    PROVE  TimeInv'
<1>1. \A u \in Tasks : asks'[u] = IF u = t THEN r ELSE asks[u]
  BY Zenon DEF TimeInv
<1>2. asks' \in [Tasks -> {Idle} \cup Calls]
  BY Zenon DEF TimeInv
<1> QED
  BY <1>1, <1>2, Zenon DEF TimeInv, InTime, BootTime

\* realtime_ns reads the monotonic clock.
LEMMA AskStep == ASSUME TimeInv, NEW t \in Tasks, Ask(t) PROVE TimeInv'
<1> DEFINE r == [at |-> "load", monotonic |-> now, time |-> 0]
<1>1. /\ now \in Nat /\ now' = now /\ epoch' = epoch /\ asks' = [asks EXCEPT ![t] = r]
      /\ epoch' \in Int /\ (epoch' # 0 => epoch' > BootTime - Second)
  BY Zenon DEF TimeInv, Ask
<1>2. r \in Calls /\ r.monotonic <= now /\ InTime(r)
  BY <1>1 DEF Calls, InTime
<1> HIDE DEF r
<1> QED
  BY <1>1, <1>2, CallMoves, Zenon

\* It reads the epoch, which somebody may have worked out, before or after the clock was read.
LEMMA LoadStep ==
    ASSUME Second \in Nat \ {0}, TimeInv, NEW t \in Tasks, LoadEpoch(t) PROVE TimeInv'
<1> DEFINE mono == asks[t].monotonic
           r == [at |-> IF epoch = 0 THEN "rtc" ELSE "done", monotonic |-> mono,
                 time |-> epoch + mono]
<1>1. /\ now' = now /\ epoch' = epoch /\ asks' = [asks EXCEPT ![t] = r]
      /\ epoch \in Int /\ (epoch # 0 => epoch > BootTime - Second) /\ asks[t].at = "load"
  BY Zenon DEF TimeInv, LoadEpoch
<1>2. mono \in Nat /\ mono <= now
  BY <1>1, UnderWay, Zenon
<1> HIDE DEF mono
<1>3. r \in Calls /\ r.monotonic <= now /\ InTime(r)
  BY <1>1, <1>2 DEF Calls, InTime, BootTime
<1> HIDE DEF r
<1> QED
  BY <1>1, <1>3, CallMoves, Zenon

\* The RTC drops less than a second, and the monotonic clock was read before it.
LEMMA AskRtcStep ==
    ASSUME Second \in Nat \ {0}, TimeInv, NEW t \in Tasks, AskRtc(t) PROVE TimeInv'
<1> DEFINE seconds == ((BootTime + now) \div Second) * Second
           mono == asks[t].monotonic
           started == IF seconds > mono THEN seconds - mono ELSE 1
<1>1. /\ now \in Nat /\ asks[t].at = "rtc"
      /\ epoch' = epoch /\ epoch' \in Int /\ (epoch' # 0 => epoch' > BootTime - Second)
  BY Zenon DEF TimeInv, AskRtc
<1>2. /\ now' = now
      /\ asks' = [asks EXCEPT ![t] = [at |-> "keep", monotonic |-> mono, time |-> started + mono]]
  BY Zenon DEF AskRtc
<1>3. seconds \in Int /\ seconds > BootTime + now - Second
  <2> DEFINE n == BootTime + now
             whole == (n \div Second) * Second
  <2>1. n \in Int
    BY <1>1 DEF BootTime
  <2> HIDE DEF n
  <2>2. whole \in Int /\ n < whole + Second
    BY <2>1
  <2> HIDE DEF whole
  <2>3. seconds = whole /\ BootTime + now = n
    BY Zenon DEF n, whole
  <2> HIDE DEF seconds
  <2> QED
    BY <1>1, <2>1, <2>2, <2>3 DEF BootTime
<1> HIDE DEF seconds
<1>4. mono \in Nat /\ mono <= now
  BY <1>1, UnderWay, Zenon
<1> HIDE DEF mono
<1>5. seconds > mono
  BY <1>1, <1>3, <1>4 DEF BootTime
<1>6. started \in Int /\ started > BootTime - Second
  BY <1>1, <1>3, <1>4, <1>5 DEF BootTime
<1> HIDE DEF started
<1> DEFINE r == [at |-> "keep", monotonic |-> mono, time |-> started + mono]
<1>7. asks' = [asks EXCEPT ![t] = r]
  BY <1>2, Zenon
<1>8. r \in Calls /\ r.monotonic <= now /\ InTime(r)
  BY <1>4, <1>6 DEF Calls, InTime, BootTime
<1> HIDE DEF r
<1> QED
  BY <1>1, <1>2, <1>7, <1>8, CallMoves, Zenon

\* The epoch that a call keeps, first or not, is the one its own time was made with.
LEMMA KeepStep ==
    ASSUME Second \in Nat \ {0}, TimeInv, NEW t \in Tasks, KeepEpoch(t) PROVE TimeInv'
<1> DEFINE r == [at |-> "done", monotonic |-> asks[t].monotonic, time |-> asks[t].time]
<1>1. /\ now' = now /\ asks' = [asks EXCEPT ![t] = r] /\ asks[t].at = "keep"
      /\ epoch' = asks[t].time - asks[t].monotonic
  BY Zenon DEF KeepEpoch
<1>2. asks[t].monotonic \in Nat /\ asks[t].time \in Int /\ asks[t].monotonic <= now
  BY <1>1, UnderWay, Zenon
<1>3. asks[t].time > BootTime + asks[t].monotonic - Second
  BY <1>1, Zenon DEF TimeInv, InTime
<1>4. epoch' \in Int /\ epoch' > BootTime - Second
  BY <1>1, <1>2, <1>3 DEF BootTime
<1>5. r \in Calls /\ r.monotonic <= now /\ InTime(r)
  BY <1>2, <1>3, Zenon DEF Calls, InTime
<1> HIDE DEF r
<1> QED
  BY <1>1, <1>4, <1>5, CallMoves, Zenon

\* A call returns, with a time or for want of a date, and is no longer asked about.
LEMMA ReturnStep == ASSUME TimeInv, NEW t \in Tasks, RtcFails(t) \/ Return(t) PROVE TimeInv'
<1>1. /\ now' = now /\ asks' = [asks EXCEPT ![t] = Idle]
      /\ epoch' \in Int /\ (epoch' # 0 => epoch' > BootTime - Second)
  BY Zenon DEF TimeInv, RtcFails, Return
<1>2. Idle.at = "idle" /\ InTime(Idle)
  BY DEF Idle, InTime
<1> QED
  BY <1>1, <1>2, CallMoves, Zenon

---------------------------------------------------------------------------
(* The theorem *)

ClockInv == DateInv /\ RtcInv /\ TimeInv

\* At boot the date is 1970-01-01, nothing has been read and no epoch is known.
LEMMA ClockInit == ASSUME ClockAssumption, Init PROVE ClockInv
<1>1. DateInv
  <2>1. Years(1969) + (306 + 1 - 1) - Offset = 0
    BY SMTT(60) DEF Years, Offset
  <2>2. DaysFromCivil(1970, 1, 1) = Years(1970 - 1) + (Months(1) + 1 - 1) - Offset
    BY Terms
  <2>3. DaysFromCivil(1970, 1, 1) = 0
    BY <2>1, <2>2, MonthTable
  <2> QED
    BY <2>3 DEF Init, DateInv, CalendarExact, MonthDays
<1>2. RtcInv
  <2>1. rtc \in Nat /\ rtc <= rtc /\ updating = FALSE /\ Top = rtc /\ rtc .. Top = {rtc}
    BY DEF Init, Top, ClockAssumption
  <2>2. ReaderOK /\ reader.at = "wait" /\ reader.first = Idle
    BY DEF Init, ReaderOK
  <2>3. RtcWhole /\ ReadAt(rtc, rtc, rtc)
    BY <2>2, Zenon DEF RtcWhole, ReadAt
  <2>4. since = {Registers(t) : t \in rtc .. Top}
    BY <2>1, Zenon DEF Init
  <2>5. \E a, b, c \in rtc .. Top : ReadAt(a, b, c)
    BY <2>1, <2>3, Zenon
  <2>6. \E t0 \in Nat : /\ t0 <= rtc /\ since = {Registers(t) : t \in t0 .. Top}
                        /\ \E a, b, c \in t0 .. Top : ReadAt(a, b, c)
    BY <2>1, <2>4, <2>5, Zenon
  <2> QED
    BY <2>1, <2>2, <2>3, <2>6, Zenon DEF RtcInv
<1>3. TimeInv
  BY DEF Init, TimeInv, InTime, Idle
<1> QED
  BY <1>1, <1>2, <1>3, Zenon DEF ClockInv

\* No step of the calendar, the RTC, its reader or the clock breaks the invariant.
LEMMA ClockStep == ASSUME ClockAssumption, ClockInv, [Next]_vars PROVE ClockInv'
<1>1. DateInv /\ RtcInv /\ TimeInv /\ Radix \in Nat \ {0} /\ Second \in Nat \ {0}
  BY Zenon DEF ClockInv, ClockAssumption
<1>2. UNCHANGED <<date, day>> => DateInv'
  BY <1>1, Zenon DEF DateInv, CalendarExact
<1>3. UNCHANGED <<rtc, updating, reader, since>> => RtcInv'
  <2>1. HAVE UNCHANGED <<rtc, updating, reader, since>>
  <2>2. PICK t0 \in Nat : /\ t0 <= rtc /\ since = {Registers(t) : t \in t0 .. Top}
                         /\ \E a, b, c \in t0 .. Top : ReadAt(a, b, c)
    BY <1>1, Zenon DEF RtcInv
  <2>3. PICK a \in t0 .. Top, b \in t0 .. Top, c \in t0 .. Top : ReadAt(a, b, c)
    BY <2>2, Zenon
  <2>4. Top' = Top /\ ReadAt(a, b, c)' /\ ReaderOK' /\ RtcWhole'
    BY <1>1, <2>1, <2>3, Zenon DEF Top, ReadAt, ReaderOK, RtcWhole, RtcInv
  <2> QED
    BY <1>1, <2>1, <2>2, <2>3, <2>4, Zenon DEF RtcInv
<1>4. UNCHANGED <<now, epoch, asks>> => TimeInv'
  BY <1>1, Zenon DEF TimeInv, InTime
<1>5. CASE NextDay
  BY <1>1, <1>3, <1>4, <1>5, NextDayStep, Zenon DEF NextDay, ClockInv
<1>6. CASE StartUpdate \/ EndUpdate
  BY <1>1, <1>2, <1>4, <1>6, RtcTicks, Zenon DEF StartUpdate, EndUpdate, ClockInv
<1>7. CASE WaitForUpdate \/ GiveUp
  BY <1>1, <1>2, <1>4, <1>7, ReaderWaits, Zenon DEF WaitForUpdate, GiveUp, ClockInv
<1>8. CASE ReadSecond
  BY <1>1, <1>2, <1>4, <1>8, SecondRead, Zenon DEF ReadSecond, ClockInv
<1>9. CASE ReadMinute
  BY <1>1, <1>2, <1>4, <1>9, MinuteRead, Zenon DEF ReadMinute, ClockInv
<1>10. CASE Tick
  BY <1>1, <1>2, <1>3, <1>10, TickStep, Zenon DEF Tick, ClockInv
<1>11. ASSUME NEW t \in Tasks, Ask(t) PROVE ClockInv'
  BY <1>1, <1>2, <1>3, <1>11, AskStep, Zenon DEF Ask, ClockInv
<1>12. ASSUME NEW t \in Tasks, LoadEpoch(t) PROVE ClockInv'
  BY <1>1, <1>2, <1>3, <1>12, LoadStep, Zenon DEF LoadEpoch, ClockInv
<1>13. ASSUME NEW t \in Tasks, AskRtc(t) PROVE ClockInv'
  BY <1>1, <1>2, <1>3, <1>13, AskRtcStep, Zenon DEF AskRtc, ClockInv
<1>14. ASSUME NEW t \in Tasks, KeepEpoch(t) PROVE ClockInv'
  BY <1>1, <1>2, <1>3, <1>14, KeepStep, Zenon DEF KeepEpoch, ClockInv
<1>15. ASSUME NEW t \in Tasks, RtcFails(t) \/ Return(t) PROVE ClockInv'
  BY <1>1, <1>2, <1>3, <1>15, ReturnStep, Zenon DEF RtcFails, Return, ClockInv
<1>16. CASE UNCHANGED vars
  BY <1>2, <1>3, <1>4, <1>16, Zenon DEF vars, ClockInv
<1> QED
  BY <1>5, <1>6, <1>7, <1>8, <1>9, <1>10, <1>11, <1>12, <1>13, <1>14, <1>15, <1>16, Zenon DEF Next

\* The closed formula of days_from_civil is the calendar day after day, rtc::read returns only dates
\* that the RTC showed while it was read, and CLOCK_REALTIME is never a second or more late,
\* whatever the order in which tasks read the clocks and keep the epoch.
THEOREM ClockIsSound == ASSUME ClockAssumption PROVE Spec => []ClockSound
<1>1. Init => ClockInv
  BY ClockInit, Zenon
<1>2. ClockInv /\ [Next]_vars => ClockInv'
  BY ClockStep, Zenon
<1>3. ClockInv => ClockSound
  BY Zenon DEF ClockInv, DateInv, RtcInv, TimeInv, ClockSound, RealtimeNotLate, InTime
<1> QED
  BY <1>1, <1>2, <1>3, PTL DEF Spec
=============================================================================
