------------------------------- MODULE Clock -------------------------------
(***************************************************************************)
(* The time of newland/src/time.c from the CMOS clock of                   *)
(* newland/arch/x86/src/clock.c.  arch_clock waits once for the clock not  *)
(* to be updating and then reads its six registers one by one, each twice: *)
(* from_bcd is a macro that evaluates its argument for the tens and once   *)
(* more for the units.  A thread that is preempted between two of these    *)
(* reads sees fields, or the two digits of one field, of different         *)
(* moments; one preempted between selecting a register and reading it      *)
(* reads another register, the last that schedule's own message has read.  *)
(*                                                                         *)
(* The registers hold two decimal digits each, also of the year, and are   *)
(* read into a signed character.  C leaves open which of the two reads is  *)
(* the first; the compilers of the build take the left operand of the sum, *)
(* the tens, first.                                                        *)
(***************************************************************************)
EXTENDS Integers, Sequences

CONSTANT Eras   \* sequences of dates the clock shows one after another

VARIABLES era,        \* the one of this behaviour
          now,        \* external: the position of the clock in it
          reading,    \* the fields read, the register whose tens are read and whether
                      \* there is one, where the reading began and how far it is; for
                      \* the properties, whether a register was read for another or
                      \* slipped
          boot_time

clock_vars == <<era, now, reading, boot_time>>

Fields == <<"sec", "min", "hr", "day", "mon", "yr">>
NoDate == [f \in {"sec", "min", "hr", "day", "mon", "yr"} |-> 0]

-----------------------------------------------------------------------------
EPOCH_YEAR == 1970
SECONDS_PER_MINUTE == 60
SECONDS_PER_HOURS == SECONDS_PER_MINUTE * 60
SECONDS_PER_DAY == SECONDS_PER_HOURS * 24

\* Mutant: the century rule without its exception.
IS_LEAP_YEAR_century(year) == year % 4 = 0 /\ year % 100 # 0

IS_LEAP_YEAR(year) == (year % 4 = 0 /\ year % 100 # 0) \/ year % 400 = 0

dpm(leap) == <<31, IF leap THEN 29 ELSE 28, 31, 30, 31, 30, 31, 31, 30, 31, 30, 31>>
dpy(leap) == IF leap THEN 366 ELSE 365

\* Within an era the clock shows dates, and never an earlier one.  The controller
\* counts days up to 2099, so every fourth year of two digits is a leap year.
IsDate(d) ==
    /\ d \in [yr : 0..99, mon : 1..12, day : 1..31, hr : 0..23, min : 0..59, sec : 0..59]
    /\ d.day <= dpm(d.yr % 4 = 0)[d.mon]
NotAfter(d, e) ==
    d = e \/ \E f \in 1..6 : /\ d[Fields[f]] < e[Fields[f]]
                             /\ \A g \in (f + 1)..6 : d[Fields[g]] = e[Fields[g]]
ASSUME ErasAssumption ==
    \A e \in Eras : /\ Len(e) \in Nat \ {0}
                    /\ \A i \in 1..Len(e) : IsDate(e[i])
                    /\ \A i, j \in 1..Len(e) : i <= j => NotAfter(e[i], e[j])

\* The two loops of dt2t, in days: d[n] is what is left after the round before n.
YearDays(yr) ==
    LET d[y \in EPOCH_YEAR..yr] ==
            IF y = EPOCH_YEAR THEN 0 ELSE d[y - 1] + dpy(IS_LEAP_YEAR(y - 1))
    IN  IF yr <= EPOCH_YEAR THEN 0 ELSE d[yr]
MonthDays(mon, leap) ==
    LET d[m \in 1..mon] == IF m = 1 THEN 0 ELSE d[m - 1] + dpm(leap)[m - 1]
    IN  IF mon <= 1 THEN 0 ELSE d[mon]

dt2t(dt) ==
    (YearDays(dt.yr) + MonthDays(dt.mon, IS_LEAP_YEAR(dt.yr)) + dt.day - 1) * SECONDS_PER_DAY
      + dt.hr * SECONDS_PER_HOURS + dt.min * SECONDS_PER_MINUTE + dt.sec

\* What a register holds of a number, as the signed character it is read into, and
\* the number made of two reads of it; C divides towards zero.
get_realtime_reg(n) ==
    LET bcd == 16 * (n \div 10) + (n % 10) IN IF bcd < 128 THEN bcd ELSE bcd - 256
from_bcd(tens, units) ==
    (IF tens < 0 THEN -((-tens) \div 16) ELSE tens \div 16) * 10 + (units % 16)

\* The number read of a field that stays as it is, and a number made of two that is
\* below both: the units were carried over between the reads, 09 and 10 make 00.
Read(date, f) == LET val == get_realtime_reg(date[f]) IN from_bcd(val, val)
Slips(tens, units) ==
    /\ from_bcd(tens, units) < from_bcd(tens, tens)
    /\ from_bcd(tens, units) < from_bcd(units, units)

\* The clock read without an interruption.
arch_clock(date) == [f \in {Fields[i] : i \in 1..6} |-> Read(date, f)]
-----------------------------------------------------------------------------
NewReading(since, k) ==
    [dt |-> NoDate, half |-> 0, tens |-> FALSE, since |-> since, k |-> k,
     mixed |-> FALSE, slipped |-> FALSE]

\* bootstrap_main reads the time first, with interrupts off: a clock that is not about
\* to be updated stays as it is for 244 microseconds, longer than the reads take.
ClockInit ==
    /\ era \in Eras /\ now = 1
    /\ reading = NewReading(0, 6)
    /\ boot_time = dt2t(arch_clock(era[1]))

\* The clock goes on.
clock_ticks ==
    /\ now < Len(era)
    /\ now' = now + 1
    /\ UNCHANGED <<era, reading, boot_time>>

\* time and boottime: a new reading, and its next read of a register.
time_begin ==
    /\ reading.k = 6 /\ reading.since < Len(era)
    /\ reading' = NewReading(now, 0)
    /\ UNCHANGED <<era, now, boot_time>>

\* The reading after val was read: the tens of a field, or its units.
TensRead(val) == [reading EXCEPT !.tens = TRUE, !.half = val]
UnitsRead(f, val) ==
    [reading EXCEPT !.tens = FALSE, !.half = 0, !.k = @ + 1,
                    !.dt[f] = from_bcd(reading.half, val),
                    !.slipped = @ \/ Slips(reading.half, val)]

\* Mutant: the registers are read from the year down.
arch_clock_reg_down ==
    /\ reading.k < 6
    /\ LET f == Fields[6 - reading.k]
           val == get_realtime_reg(era[now][f])
       IN  reading' = IF reading.tens THEN UnitsRead(f, val) ELSE TensRead(val)
    /\ UNCHANGED <<era, now, boot_time>>

arch_clock_reg ==
    /\ reading.k < 6
    /\ LET f == Fields[reading.k + 1]
           val == get_realtime_reg(era[now][f])
       IN  reading' = IF reading.tens THEN UnitsRead(f, val) ELSE TensRead(val)
    /\ UNCHANGED <<era, now, boot_time>>

\* A tick after outb(CMOS_ADDRESS, reg): the index is left at the year.
get_realtime_reg_preempted ==
    /\ reading.k < 6
    /\ LET f == Fields[reading.k + 1]
           val == get_realtime_reg(era[now].yr)
       IN  reading' = [IF reading.tens THEN UnitsRead(f, val) ELSE TensRead(val)
                         EXCEPT !.mixed = TRUE]
    /\ UNCHANGED <<era, now, boot_time>>

time == dt2t(reading.dt)
boottime == time - boot_time

ClockSteps == clock_ticks \/ time_begin \/ arch_clock_reg \/ get_realtime_reg_preempted
-----------------------------------------------------------------------------
(***************************************************************************)
(* A reading of the clock, torn by any number of updates or not, is never  *)
(* before the moment it began, and so never before the boot, unless a year *)
(* has ended in between: the registers are read from the seconds up.  That *)
(* holds in the years whose two digits are not negative as a character:    *)
(* 2084 reads as -66, which IS_LEAP_YEAR refuses, so time falls back by a  *)
(* day at the end of its February.  A reading that was not torn is exact.  *)
(*                                                                         *)
(* Two kinds of reading do go back and are left out.  The one in which a   *)
(* register slipped, its digits from two sides of a carry: seconds from 09 *)
(* to 10 make 00, and a month from 09 to 10 makes January.  This says that *)
(* no other tear loses time.  And the one in which a register was read for *)
(* another, which may be anything.                                         *)
(***************************************************************************)
ClockAhead ==
    reading.k = 6 /\ reading.since > 0 /\ ~reading.mixed /\ ~reading.slipped =>
        LET then == era[reading.since]
        IN  /\ then.yr = era[now].yr /\ then.yr < 80 => time >= dt2t(arch_clock(then))
            /\ era[1].yr = era[now].yr /\ era[1].yr < 80 => boottime >= 0
            /\ reading.since = now => time = dt2t(arch_clock(then))

(***************************************************************************)
(* dt2t of what the clock shows counts the seconds since the start of the  *)
(* year: the tables agree with the number of the day in the year, written  *)
(* without a table, in the years that have two digits that are not         *)
(* negative as a character.                                                *)
(***************************************************************************)
SecondsCount ==
    LET d == era[now]
        doy == ((275 * d.mon) \div 9) + d.day - 30
                 - (IF d.mon <= 2 THEN 0 ELSE IF d.yr % 4 = 0 THEN 1 ELSE 2)
    IN  d.yr < 80 => dt2t(arch_clock(d)) = (((doy - 1) * 24 + d.hr) * 60 + d.min) * 60 + d.sec
=============================================================================
