--------------------------------- MODULE Clock ---------------------------------
(***************************************************************************)
(* The wall clock: the CMOS real-time clock and its registers              *)
(* (time/mod.rs), the calendar that turns a date into a day                *)
(* (syscall/time.rs), and the time of boot that the first clock_gettime of *)
(* CLOCK_REALTIME works out and keeps (syscall/mod.rs).                    *)
(*                                                                         *)
(* Three parts share the module: a walk through the calendar, one task     *)
(* reading the RTC's registers while it ticks, and tasks asking for the    *)
(* time.  In the second the RTC has two registers of Radix values each; in *)
(* the third time is in units of which a second has Second, and the RTC's  *)
(* answer is the time in whole seconds.  Nothing in the kernel sets the    *)
(* clock, and the registers are binary and the hours 24.                   *)
(***************************************************************************)
EXTENDS Integers

CONSTANTS
    LastYear,               \* the calendar is walked from 1970 on; the RTC has 2000 .. 2099
    Radix, Second, Tasks,
    MaxTime                 \* how long the third part goes on: a bound of this model

\* A register counts, and a second has a length.
ClockAssumption == Radix \in Nat \ {0} /\ Second \in Nat \ {0}

VARIABLES
    part,           \* "calendar", "rtc" or "time"
    date, day,      \* calendar: a date, and the days from 1970-01-01 to it
    rtc,            \* rtc: the time, the seconds Radix * minute + second
    updating,       \* rtc: whether the registers are being updated
    reader,         \* rtc: where rtc::read is
    since,          \* rtc: the times the RTC has shown since the read began
    now,            \* time: the time since boot; the time of boot is BootTime
    epoch,          \* time: BOOT_EPOCH_NS, 0 when it has not been read
    asks            \* time: task -> where its call is

vars == <<part, date, day, rtc, updating, reader, since, now, epoch, asks>>

BootTime == Second + 1
Idle == [at |-> "idle"]

---------------------------------------------------------------------------
(* The calendar *)

\* Seeded fault: the years that are multiples of 100 are taken for leap years.
DaysFromCivil_Centuries(y0, m, d) ==
    LET y == IF m <= 2 THEN y0 - 1 ELSE y0
        era == y \div 400
        yoe == y - era * 400
        doy == (153 * (IF m > 2 THEN m - 3 ELSE m + 9) + 2) \div 5 + d - 1
    IN  era * 146097 + (yoe * 365 + yoe \div 4 + doy) - 719468

\* days_from_civil (\div rounds down, as div_euclid does)
DaysFromCivil(y0, m, d) ==
    LET y == IF m <= 2 THEN y0 - 1 ELSE y0
        era == y \div 400
        yoe == y - era * 400
        doy == (153 * (IF m > 2 THEN m - 3 ELSE m + 9) + 2) \div 5 + d - 1
    IN  era * 146097 + (yoe * 365 + yoe \div 4 - yoe \div 100 + doy) - 719468

\* The calendar as people know it.
Leap(y) == y % 4 = 0 /\ (y % 100 # 0 \/ y % 400 = 0)
MonthDays(y, m) == IF m = 2 THEN (IF Leap(y) THEN 29 ELSE 28)
                   ELSE IF m \in {4, 6, 9, 11} THEN 30 ELSE 31

NextDay ==
    /\ part = "calendar" /\ date # [year |-> LastYear, month |-> 12, day |-> 31]
    /\ day' = day + 1
    /\ date' = IF date.day < MonthDays(date.year, date.month)
               THEN [year |-> date.year, month |-> date.month, day |-> date.day + 1]
               ELSE IF date.month < 12
               THEN [year |-> date.year, month |-> date.month + 1, day |-> 1]
               ELSE [year |-> date.year + 1, month |-> 1, day |-> 1]
    /\ UNCHANGED <<part, rtc, updating, reader, since, now, epoch, asks>>

---------------------------------------------------------------------------
(* The registers *)

Registers(time) == [second |-> time % Radix, minute |-> (time \div Radix) % Radix]

\* The RTC counts: it says that it updates its registers, and then they show the new time.
StartUpdate ==
    /\ part = "rtc" /\ ~ updating /\ reader.at # "done" /\ rtc < MaxTime
    /\ updating' = TRUE
    /\ since' = since \cup {Registers(rtc + 1)}
    /\ UNCHANGED <<part, date, day, rtc, reader, now, epoch, asks>>

EndUpdate ==
    /\ part = "rtc" /\ updating /\ updating' = FALSE
    /\ rtc' = rtc + 1
    /\ UNCHANGED <<part, date, day, reader, since, now, epoch, asks>>

\* wait_for_update: the registers are not read while they change, if it can be helped.
WaitForUpdate ==
    /\ part = "rtc" /\ reader.at = "wait" /\ ~ updating
    /\ reader' = [reader EXCEPT !.at = "second"]
    /\ UNCHANGED <<part, date, day, rtc, updating, since, now, epoch, asks>>

\* It gives up when the update never ends.
GiveUp ==
    /\ part = "rtc" /\ reader.at = "wait" /\ updating
    /\ reader' = [reader EXCEPT !.at = "done", !.result = Idle]
    /\ UNCHANGED <<part, date, day, rtc, updating, since, now, epoch, asks>>

\* A register read in an update is either the old or the new one.
Shown == {Registers(rtc)} \cup (IF updating THEN {Registers(rtc + 1)} ELSE {})

\* Seeded fault: one reading is enough.
Decide_Once(raw) == [reader EXCEPT !.at = "done", !.result = raw]

\* Two readings that agree, or another pair; four pairs at most.
Decide(raw) ==
    IF reader.first = Idle THEN [reader EXCEPT !.at = "wait", !.first = raw]
    ELSE IF reader.first = raw THEN [reader EXCEPT !.at = "done", !.result = raw]
    ELSE IF reader.tries = 1 THEN [reader EXCEPT !.at = "done", !.result = Idle]
    ELSE [reader EXCEPT !.at = "wait", !.first = Idle, !.tries = @ - 1]

ReadSecond ==
    /\ part = "rtc" /\ reader.at = "second"
    /\ \E r \in Shown : reader' = [reader EXCEPT !.at = "minute", !.second = r.second]
    /\ UNCHANGED <<part, date, day, rtc, updating, since, now, epoch, asks>>

ReadMinute ==
    /\ part = "rtc" /\ reader.at = "minute"
    /\ \E r \in Shown : reader' = Decide([second |-> reader.second, minute |-> r.minute])
    /\ UNCHANGED <<part, date, day, rtc, updating, since, now, epoch, asks>>

---------------------------------------------------------------------------
(* clock_gettime(CLOCK_REALTIME) *)

Tick ==
    /\ part = "time" /\ now < MaxTime /\ now' = now + 1
    /\ UNCHANGED <<part, date, day, rtc, updating, reader, since, epoch, asks>>

\* realtime_ns reads the monotonic clock, ...
Ask(t) ==
    /\ part = "time" /\ asks[t].at = "idle"
    /\ asks' = [asks EXCEPT ![t] = [at |-> "load", monotonic |-> now, time |-> 0]]
    /\ UNCHANGED <<part, date, day, rtc, updating, reader, since, now, epoch>>

\* ... then the epoch ...
LoadEpoch(t) ==
    /\ part = "time" /\ asks[t].at = "load"
    /\ asks' = [asks EXCEPT ![t] = [at |-> IF epoch = 0 THEN "rtc" ELSE "done",
                                    monotonic |-> asks[t].monotonic,
                                    time |-> epoch + asks[t].monotonic]]
    /\ UNCHANGED <<part, date, day, rtc, updating, reader, since, now, epoch>>

\* ... and, if it is not there yet, works it out from the RTC, which has whole seconds, ...
AskRtc(t) ==
    /\ part = "time" /\ asks[t].at = "rtc"
    /\ LET seconds == ((BootTime + now) \div Second) * Second
           mono == asks[t].monotonic
           started == IF seconds > mono THEN seconds - mono ELSE 1
       IN  asks' = [asks EXCEPT ![t] = [at |-> "keep", monotonic |-> mono,
                                        time |-> started + mono]]
    /\ UNCHANGED <<part, date, day, rtc, updating, reader, since, now, epoch>>

\* ... if that can be read: else the call fails; ...
RtcFails(t) ==
    /\ part = "time" /\ asks[t].at = "rtc"
    /\ asks' = [asks EXCEPT ![t] = Idle]
    /\ UNCHANGED <<part, date, day, rtc, updating, reader, since, now, epoch>>

\* ... and keeps it, whoever else has kept one in the meantime.
KeepEpoch(t) ==
    /\ part = "time" /\ asks[t].at = "keep"
    /\ epoch' = asks[t].time - asks[t].monotonic
    /\ asks' = [asks EXCEPT ![t] = [at |-> "done", monotonic |-> asks[t].monotonic,
                                    time |-> asks[t].time]]
    /\ UNCHANGED <<part, date, day, rtc, updating, reader, since, now>>

Return(t) ==
    /\ part = "time" /\ asks[t].at = "done"
    /\ asks' = [asks EXCEPT ![t] = Idle]
    /\ UNCHANGED <<part, date, day, rtc, updating, reader, since, now, epoch>>

---------------------------------------------------------------------------

Init ==
    /\ part \in {"calendar", "rtc", "time"}
    /\ date = [year |-> 1970, month |-> 1, day |-> 1] /\ day = 0
    /\ IF part = "rtc" THEN rtc \in 0 .. Radix * Radix - 1 ELSE rtc = 0
    /\ updating = FALSE
    /\ reader = [at |-> "wait", first |-> Idle, second |-> 0, tries |-> 4, result |-> Idle]
    /\ since = {Registers(rtc)}
    /\ now = 0 /\ epoch = 0
    /\ asks = [t \in Tasks |-> Idle]

Next ==
    \/ NextDay
    \/ StartUpdate \/ EndUpdate \/ WaitForUpdate \/ GiveUp \/ ReadSecond \/ ReadMinute
    \/ Tick
    \/ \E t \in Tasks : \/ Ask(t) \/ LoadEpoch(t) \/ AskRtc(t) \/ RtcFails(t) \/ KeepEpoch(t)
                        \/ Return(t)

Spec == Init /\ [][Next]_vars

---------------------------------------------------------------------------
(* Properties *)

\* The closed formula of the code agrees with the calendar walked day by day.
CalendarExact == DaysFromCivil(date.year, date.month, date.day) = day

\* The date read from the RTC is one that it showed while it was being read, never one put together
\* from before and after an update (rtc::read compares two readings).
RtcWhole ==
    reader.at = "done" /\ reader.result # Idle => reader.result \in since

\* CLOCK_REALTIME is never a second or more behind, however the task is delayed between its reads
\* and whoever else works out the epoch at the same time (realtime_ns).
RealtimeNotLate ==
    \A t \in Tasks : asks[t].at = "done" =>
        asks[t].time > BootTime + asks[t].monotonic - Second

ClockSound == CalendarExact /\ RtcWhole /\ RealtimeNotLate
=============================================================================
