--------------------------------- MODULE Rtc ---------------------------------
(***************************************************************************)
(* The time of day: the CMOS clock of x86_pc, and below it the calendar of *)
(* the C library.  The clock is read one register at a time through two *)
(* ports while it goes on counting, and set one register at a time.        *)
(***************************************************************************)
EXTENDS Integers, Sequences, FiniteSets, SequencesExt, FiniteSetsExt

CONSTANTS
    RtcStarts,      \* what the clock shows at first
    RtcTimes,       \* the times it is set to
    MaxTicks,       \* seconds that pass
    MaxRtcCalls,    \* calls of the program
    RtcTicksInWrite \* may a second pass in the middle of setting the clock

VARIABLES
    rtc_clock,      \* the device: the fields it counts, and whether an update is coming
    rtc_addr,       \* the register chosen at port 0x70
    rtc_call,       \* the call in progress
    rtc_seen,       \* what the clock has shown since it began
    rtc_ticks, rtc_calls
rtc_vars == <<rtc_clock, rtc_addr, rtc_call, rtc_seen, rtc_ticks, rtc_calls>>

-----------------------------------------------------------------------------
(* The device, counting in BCD and in 24-hour mode (register B is 2).       *)

cvt_bcd(value) == (value % 16) + (value \div 16) * 10
cvt_dec(value) == (value \div 10) * 16 + (value % 10)

is_leap_year(year) == (year % 4 = 0 /\ year % 100 # 0) \/ year % 400 = 0
days_in_month(month, year) ==
    CASE month \in {1, 3, 5, 7, 8, 10, 12} -> 31
      [] month \in {4, 6, 9, 11} -> 30
      [] month = 2 -> IF is_leap_year(year) THEN 29 ELSE 28

\* One second more, carried from field to field.
Carry(f) ==
    LET s == (f.sec + 1) % 60
        m == (f.min + (IF s = 0 THEN 1 ELSE 0)) % 60
        h == (f.hour + (IF s = 0 /\ m = 0 THEN 1 ELSE 0)) % 24
        newday == s = 0 /\ m = 0 /\ h = 0
        newmonth == newday /\ f.day = days_in_month(f.month, 2000 + f.year)
        newyear == newmonth /\ f.month = 12
    IN  [sec |-> s, min |-> m, hour |-> h,
         day |-> IF newmonth THEN 1 ELSE IF newday THEN f.day + 1 ELSE f.day,
         month |-> IF newyear THEN 1 ELSE IF newmonth THEN f.month + 1 ELSE f.month,
         year |-> IF newyear THEN (f.year + 1) % 100 ELSE f.year]

FieldOf == [r \in {0, 2, 4, 7, 8, 9} |->
    CASE r = 0 -> "sec" [] r = 2 -> "min" [] r = 4 -> "hour" [] r = 7 -> "day" [] r = 8 -> "month" [] r = 9 -> "year"]
Registers == <<0, 2, 4, 7, 8, 9>>

update_begins ==
    /\ rtc_ticks < MaxTicks /\ ~rtc_clock.uip
    /\ RtcTicksInWrite \/ rtc_call.op # "write"
    /\ rtc_clock' = [rtc_clock EXCEPT !.uip = TRUE]
    /\ UNCHANGED <<rtc_addr, rtc_call, rtc_seen, rtc_ticks, rtc_calls>>
update_ends ==
    /\ rtc_clock.uip
    /\ RtcTicksInWrite \/ rtc_call.op # "write"
    /\ rtc_clock' = [fields |-> Carry(rtc_clock.fields), uip |-> FALSE]
    /\ rtc_seen' = rtc_seen \cup {Carry(rtc_clock.fields)}
    /\ rtc_ticks' = rtc_ticks + 1
    /\ UNCHANGED <<rtc_addr, rtc_call, rtc_calls>>

-----------------------------------------------------------------------------
(* The driver.                                                              *)

MonthSecs == <<0, 2678400, 5097600, 7776000, 10368000, 13046400, 15638400, 18316800, 20995200,
               23587200, 26265600, 28857600>>

\* Unix time from the values of the registers.
time_no_wait(r) ==
    LET hour0 == cvt_bcd(r[3] % 128)
        hour == IF r[3] >= 128 THEN (hour0 + 12) % 24 ELSE hour0
        month == cvt_bcd(r[5])
        year == cvt_bcd(r[6]) + 2000
        leap_days == ((year - 1972) \div 4) + 1 - (IF year % 4 = 0 /\ month <= 2 THEN 1 ELSE 0)
    IN  (year - 1970) * 31536000 + leap_days * 86400 + MonthSecs[month]
        + (cvt_bcd(r[4]) - 1) * 86400 + hour * 3600 + cvt_bcd(r[2]) * 60 + cvt_bcd(r[1])

\* The date of a Unix time, and the registers that show it.
RECURSIVE year_of(_, _)
year_of(tdiv, year) ==
    LET days == IF is_leap_year(year) THEN 366 ELSE 365
    IN  IF tdiv >= days THEN year_of(tdiv - days, year + 1) ELSE [tdiv |-> tdiv, year |-> year]
RECURSIVE mon_of(_, _, _)
mon_of(tdiv, mon, year) ==
    IF tdiv >= days_in_month(mon, year) THEN mon_of(tdiv - days_in_month(mon, year), mon + 1, year)
    ELSE [tdiv |-> tdiv, mon |-> mon]
write_values(t) ==
    LET y == year_of(t \div 86400, 1970)
        m == mon_of(y.tdiv, 1, y.year)
        tt == t % 86400
        hour == tt \div 3600
        pm == IF hour >= 12 THEN 128 ELSE 0
    IN  <<cvt_dec(tt % 60), cvt_dec((tt % 3600) \div 60), pm + (hour \div 10) * 16 + (hour % 10),
          cvt_dec(m.tdiv + 1), cvt_dec(m.mon), cvt_dec(y.year - 2000)>>

RtcIdle == [op |-> "none"]

rtc_read_time ==
    /\ rtc_call.op = "none" /\ rtc_calls < MaxRtcCalls
    /\ rtc_call' = [op |-> "read", pc |-> "wait", regs |-> <<>>, times |-> <<>>]
    /\ rtc_seen' = {rtc_clock.fields}
    /\ rtc_calls' = rtc_calls + 1
    /\ UNCHANGED <<rtc_clock, rtc_addr, rtc_ticks>>
\* wait: while an update is in progress.
rtc_wait ==
    /\ rtc_call.op = "read" /\ rtc_call.pc = "wait"
    /\ ~rtc_clock.uip
    /\ rtc_call' = [rtc_call EXCEPT !.pc = "addr", !.regs = <<>>]
    /\ rtc_addr' = 10
    /\ UNCHANGED <<rtc_clock, rtc_seen, rtc_ticks, rtc_calls>>
rtc_read_addr ==
    /\ rtc_call.op = "read" /\ rtc_call.pc = "addr"
    /\ rtc_addr' = Registers[Len(rtc_call.regs) + 1]
    /\ rtc_call' = [rtc_call EXCEPT !.pc = "data"]
    /\ UNCHANGED <<rtc_clock, rtc_seen, rtc_ticks, rtc_calls>>
rtc_read_data ==
    /\ rtc_call.op = "read" /\ rtc_call.pc = "data"
    /\ LET regs == Append(rtc_call.regs, cvt_dec(rtc_clock.fields[FieldOf[rtc_addr]])) IN
        rtc_call' = [rtc_call EXCEPT !.regs = regs, !.pc = IF Len(regs) = 6 THEN "add" ELSE "addr"]
    /\ UNCHANGED <<rtc_clock, rtc_addr, rtc_seen, rtc_ticks, rtc_calls>>

\* A time that is read once.
mut_agreed(times) == TRUE
\* A time is good when it is read twice.
agreed(times) == Len(times) = 2 /\ times[1] = times[2]

\* time: the second reading agrees with the first, or both are taken again.
rtc_time ==
    /\ rtc_call.op = "read" /\ rtc_call.pc = "add"
    /\ LET times == Append(rtc_call.times, time_no_wait(rtc_call.regs)) IN
        rtc_call' = IF agreed(times) THEN [op |-> "read_done", time |-> times[1]]
                    ELSE [rtc_call EXCEPT !.pc = "wait", !.times = IF Len(times) = 2 THEN <<>> ELSE times]
    /\ UNCHANGED <<rtc_clock, rtc_addr, rtc_seen, rtc_ticks, rtc_calls>>

rtc_write_time ==
    /\ rtc_call.op = "none" /\ rtc_calls < MaxRtcCalls
    /\ \E t \in RtcTimes : rtc_call' = [op |-> "write", time |-> t, values |-> write_values(t), n |-> 1, ticks |-> rtc_ticks]
    /\ rtc_calls' = rtc_calls + 1
    /\ UNCHANGED <<rtc_clock, rtc_addr, rtc_seen, rtc_ticks>>
\* The device drops the PM bit of the hours in 24-hour mode.
rtc_write ==
    /\ rtc_call.op = "write"
    /\ LET r == Registers[rtc_call.n]
           v == rtc_call.values[rtc_call.n] % 128
       IN  /\ rtc_clock' = [rtc_clock EXCEPT !.fields[FieldOf[r]] = cvt_bcd(v)]
           /\ rtc_addr' = r
    /\ rtc_call' = IF rtc_call.n = 6 THEN [op |-> "write_done", time |-> rtc_call.time, ticks |-> rtc_call.ticks]
                   ELSE [rtc_call EXCEPT !.n = @ + 1]
    /\ UNCHANGED <<rtc_seen, rtc_ticks, rtc_calls>>
rtc_return ==
    /\ rtc_call.op \in {"read_done", "write_done"}
    /\ rtc_call' = RtcIdle
    /\ UNCHANGED <<rtc_clock, rtc_addr, rtc_seen, rtc_ticks, rtc_calls>>

RtcInit ==
    /\ rtc_clock = [fields |-> RtcStarts[1], uip |-> FALSE]
    /\ rtc_addr = 0 /\ rtc_call = RtcIdle /\ rtc_seen = {} /\ rtc_ticks = 0 /\ rtc_calls = 0

\* The battery has kept the clock going to one of the times it may start at.
rtc_battery ==
    /\ rtc_calls = 0 /\ rtc_ticks = 0 /\ ~rtc_clock.uip /\ rtc_clock.fields = RtcStarts[1]
    /\ \E i \in 2 .. Len(RtcStarts) : rtc_clock' = [rtc_clock EXCEPT !.fields = RtcStarts[i]]
    /\ UNCHANGED <<rtc_addr, rtc_call, rtc_seen, rtc_ticks, rtc_calls>>

RtcNext ==
    \/ rtc_battery \/ update_begins \/ update_ends
    \/ rtc_read_time \/ rtc_wait \/ rtc_read_addr \/ rtc_read_data \/ rtc_time
    \/ rtc_write_time \/ rtc_write \/ rtc_return

-----------------------------------------------------------------------------
\* The Unix time of the fields, by counting the days.
UnixTime(f) ==
    LET year == 2000 + f.year
        leaps == Cardinality({y \in 1970 .. year - 1 : is_leap_year(y)})
        months == FoldLeft(LAMBDA n, m : n + days_in_month(m, year), 0, [i \in 1 .. f.month - 1 |-> i])
    IN  ((year - 1970) * 365 + leaps + months + f.day - 1) * 86400 + f.hour * 3600 + f.min * 60 + f.sec

\* rtc_read_time returns a time the clock showed during the call, however the
\* updates fall among the reads of its registers; once rtc_write_time is done
\* the clock shows what it was given and the seconds passed since.
ClockIsTrue ==
    /\ rtc_call.op = "read_done" => \E f \in rtc_seen : rtc_call.time = UnixTime(f)
    /\ rtc_call.op = "write_done" => UnixTime(rtc_clock.fields) = rtc_call.time + rtc_ticks - rtc_call.ticks

-----------------------------------------------------------------------------
(***************************************************************************)
(* Calendar time in ruxlibc: __secs_to_tm and mktime, strftime, and the    *)
(* fixed-point ratios that turn hardware ticks into nanoseconds.  A time   *)
(* is a day, counted from 1970-01-01, and a second of it.                  *)
(***************************************************************************)
CONSTANTS
    CAL_INT_MAX,    \* INT_MAX, which bounds the years
    CalDays,        \* the days that are converted
    CalSecs,        \* and the seconds in them
    StrftimeDays,   \* the days that are formatted
    CalFormats,     \* the formats of strftime, sequences of characters
    CalSizes,       \* the sizes of its buffer
    RATIO_BITS,     \* the width of the numbers in a ratio
    RatioParts      \* numerators and denominators

VARIABLES cal_call, cal_out
cal_vars == <<cal_call, cal_out>>

-----------------------------------------------------------------------------
DAYS_PER_400Y == 365 * 400 + 97
DAYS_PER_100Y == 365 * 100 + 24
DAYS_PER_4Y == 365 * 4 + 1
LEAPOCH_DAY == 10957 + 31 + 29

\* The months from March to February.
MarchMonths == <<31, 30, 31, 30, 31, 31, 30, 31, 30, 31, 31, 29>>
RECURSIVE month_of(_, _)
month_of(months, remdays) ==
    IF MarchMonths[months + 1] <= remdays THEN month_of(months + 1, remdays - MarchMonths[months + 1])
    ELSE [months |-> months, remdays |-> remdays]

AtMost(limit, n) == IF n > limit THEN limit ELSE n

\* Off by one day in the last year of a cycle of four.
mut_secs_to_tm_years(remdays) == remdays \div 365
secs_to_tm_years(remdays) == AtMost(3, remdays \div 365)

secs_to_tm(t) ==
    LET days == t.day - LEAPOCH_DAY
        qc_cycles == days \div DAYS_PER_400Y
        in400 == days % DAYS_PER_400Y
        c_cycles == AtMost(3, in400 \div DAYS_PER_100Y)
        in100 == in400 - c_cycles * DAYS_PER_100Y
        q_cycles == AtMost(24, in100 \div DAYS_PER_4Y)
        in4 == in100 - q_cycles * DAYS_PER_4Y
        remyears == secs_to_tm_years(in4)
        in1 == in4 - remyears * 365
        leap == IF remyears = 0 /\ (q_cycles # 0 \/ c_cycles = 0) THEN 1 ELSE 0
        yday == (in1 + 31 + 28 + leap) % (365 + leap)
        m == month_of(0, in1)
        late == m.months >= 10
        years == remyears + 4 * q_cycles + 100 * c_cycles + 400 * qc_cycles + (IF late THEN 1 ELSE 0)
    IN  IF \/ t.day \notin (-CAL_INT_MAX - 1) * 366 .. CAL_INT_MAX * 366
           \/ years + 100 \notin -CAL_INT_MAX - 1 .. CAL_INT_MAX
        THEN [err |-> "EOVERFLOW"]
        ELSE [err |-> "", year |-> years + 100, mon |-> IF late THEN m.months - 10 ELSE m.months + 2,
              mday |-> m.remdays + 1, wday |-> (3 + days) % 7, yday |-> yday,
              hour |-> t.sec \div 3600, min |-> (t.sec \div 60) % 60, sec |-> t.sec % 60]

MonthDays(leap) == <<31, 28 + leap, 31, 30, 31, 30, 31, 31, 30, 31, 30, 31>>
leap_year(year) == IF year % 4 = 0 /\ (year % 100 # 0 \/ year % 400 = 0) THEN 1 ELSE 0

\* The days of the years a + 1 .. b, and of the months a + 1 .. b (from 0) of a year.
YearsDays(a, b) == 365 * Cardinality(a + 1 .. b) + Cardinality({y \in a + 1 .. b : leap_year(y) = 1})
MonthsDays(year, a, b) == FoldSet(LAMBDA m, n : n + MonthDays(leap_year(year))[m + 1], 0, a + 1 .. b)

mktime(tm) ==
    LET year == tm.year + 1900
        sec == tm.hour * 3600 + tm.min * 60 + tm.sec
    IN  IF year < 1970
        THEN LET left == MonthDays(leap_year(year))[tm.mon + 1] - (tm.mday - 1)
             IN  [day |-> -(left + YearsDays(year, 1969) + MonthsDays(year, tm.mon, 11)), sec |-> sec]
        ELSE [day |-> tm.mday - 1 + YearsDays(1969, year - 1) + MonthsDays(year, -1, tm.mon - 1), sec |-> sec]

-----------------------------------------------------------------------------
(* strftime.  A letter of a name is the name itself.                        *)

DigitNames == <<"0", "1", "2", "3", "4", "5", "6", "7", "8", "9">>
RECURSIVE Decimal(_)
Decimal(n) == (IF n < 10 THEN <<>> ELSE Decimal(n \div 10)) \o <<DigitNames[(n % 10) + 1]>>
Padded(n, width, fill) ==
    LET d == Decimal(n) IN [i \in 1 .. width - Len(d) |-> fill] \o d

WDAYS == <<"Sunday", "Monday", "Tuesday", "Wednesday", "Thursday", "Friday", "Saturday">>
WDAY_LENS == <<6, 6, 7, 9, 8, 6, 8>>
MONTHS == <<"January", "Febuary", "March", "April", "May", "June", "July", "August", "September",
            "October", "November", "December">>
MONTH_LENS == <<7, 7, 5, 5, 3, 4, 4, 6, 9, 7, 8, 8>>
Letters(name, n) == [i \in 1 .. n |-> name]

Hour12(tm) == ((tm.hour + 12 - 1) % 12) + 1

\* The formats that stand for others.
Shorthands == [D |-> <<"%", "m", "/", "%", "d", "/", "%", "y">>, F |-> <<"%", "Y", "-", "%", "m", "-", "%", "d">>,
               R |-> <<"%", "H", ":", "%", "M">>, T |-> <<"%", "H", ":", "%", "M", ":", "%", "S">>,
               r |-> <<"%", "I", ":", "%", "M", ":", "%", "S", " ", "%", "p">>]

\* What the conversion c writes: its characters, or nothing that strftime knows.
conversion(c, tm) ==
    CASE c = "%" -> <<"%">>
      [] c = "n" -> <<"\n">>
      [] c = "a" -> Letters(WDAYS[tm.wday + 1], 3)
      [] c = "A" -> Letters(WDAYS[tm.wday + 1], WDAY_LENS[tm.wday + 1])
      [] c \in {"b", "h"} -> Letters(MONTHS[tm.mon + 1], 3)
      [] c = "B" -> Letters(MONTHS[tm.mon + 1], MONTH_LENS[tm.mon + 1])
      [] c = "C" -> Padded((tm.year \div 100) + (IF tm.year % 100 # 0 THEN 1 ELSE 0) + 19, 2, "0")
      [] c = "d" -> Padded(tm.mday, 2, "0")
      [] c = "e" -> Padded(tm.mday, 2, " ")
      [] c = "H" -> Padded(tm.hour, 2, "0")
      [] c = "I" -> Padded(Hour12(tm), 2, "0")
      [] c = "j" -> Padded(tm.yday, 3, "0")
      [] c = "k" -> Padded(tm.hour, 2, " ")
      [] c = "l" -> Padded(Hour12(tm), 2, " ")
      [] c = "m" -> Padded(tm.mon + 1, 2, "0")
      [] c = "M" -> Padded(tm.min, 2, "0")
      [] c = "p" -> Letters(IF tm.hour < 12 THEN "AM" ELSE "PM", 2)
      [] c = "S" -> Padded(tm.sec, 2, "0")
      [] c = "u" -> Decimal(((tm.wday + 7 - 1) % 7) + 1)
      [] c = "U" -> Decimal((tm.yday + 7 - tm.wday) \div 7)
      [] c = "w" -> Decimal(tm.wday)
      [] c = "W" -> Decimal((tm.yday + 7 - ((tm.wday + 6) % 7)) \div 7)
      [] c = "y" -> Padded(tm.year % 100, 2, "0")
      [] c = "Y" -> Decimal(tm.year + 1900)
      [] c = "Z" -> Letters("UTC", 3)
      [] OTHER -> <<>>

\* A StringWriter: what is in the buffer, and the room left in it, the last
\* byte kept for the NUL.
writer_write(w, buf) ==
    LET n == IF w.room > 1 THEN AtMost(w.room - 1, Len(buf)) ELSE 0
    IN  [w EXCEPT !.text = @ \o SubSeq(buf, 1, n), !.room = @ - n, !.nul = @ \/ w.room > 1, !.written = @ + Len(buf)]

RECURSIVE inner_strftime(_, _, _)
inner_strftime(w, format, tm) ==
    LET skip == IF format[2] \in {"E", "O"} THEN 3 ELSE 2
        c == format[skip]
        rest == SubSeq(format, skip + 1, Len(format))
        known == c \in DOMAIN Shorthands \/ conversion(c, tm) # <<>>
        next == IF c \in DOMAIN Shorthands THEN inner_strftime(w, Shorthands[c], tm)
                ELSE writer_write(w, conversion(c, tm))
    IN  IF format = <<>> \/ ~w.ok THEN w
        ELSE IF Head(format) # "%" THEN inner_strftime(writer_write(w, <<Head(format)>>), Tail(format), tm)
        ELSE IF ~known THEN [w EXCEPT !.ok = FALSE]
        ELSE inner_strftime(next, rest, tm)

strftime(size, format, tm) ==
    LET w == inner_strftime([text |-> <<>>, room |-> size, nul |-> FALSE, written |-> 0, ok |-> TRUE], format, tm)
    IN  [ret |-> IF w.ok /\ w.written < size THEN w.written ELSE 0, text |-> w.text, nul |-> w.nul]

-----------------------------------------------------------------------------
(* Ratios: numerator / denominator as mult / 2^shift.                       *)

RECURSIVE ratio_shift(_, _, _)
ratio_shift(n, d, shift) ==
    LET mult == (n * 2^shift + (d \div 2)) \div d
    IN  IF mult <= 2^RATIO_BITS - 1 \/ shift = 0 THEN [mult |-> mult, shift |-> shift] ELSE ratio_shift(n, d, shift - 1)
RECURSIVE ratio_reduce(_)
ratio_reduce(r) ==
    IF r.mult % 2 = 0 /\ r.shift > 0 THEN ratio_reduce([mult |-> r.mult \div 2, shift |-> r.shift - 1]) ELSE r

\* new asserts that the denominator is not zero unless the numerator is.
ratio_new(n, d) == IF n = 0 THEN [mult |-> 0, shift |-> 0] ELSE ratio_reduce(ratio_shift(n, d, RATIO_BITS))
mul_trunc(r, v) == (v * r.mult) \div 2^r.shift
mul_round(r, v) == (v * r.mult + (2^r.shift \div 2)) \div 2^r.shift

-----------------------------------------------------------------------------
CalInit == cal_call = [op |-> "none"] /\ cal_out = [op |-> "none"]

convert_call ==
    /\ cal_call.op = "none"
    /\ \E day \in CalDays, sec \in CalSecs :
        LET tm == secs_to_tm([day |-> day, sec |-> sec]) IN
        /\ cal_call' = [op |-> "convert", day |-> day, sec |-> sec]
        /\ cal_out' = [op |-> "convert", tm |-> tm, back |-> IF tm.err = "" THEN mktime(tm) ELSE [day |-> 0, sec |-> 0]]
strftime_call ==
    /\ cal_call.op = "none"
    /\ \E day \in StrftimeDays, sec \in CalSecs, format \in CalFormats, size \in CalSizes :
        LET tm == secs_to_tm([day |-> day, sec |-> sec]) IN
        /\ tm.err = "" /\ tm.year >= 0
        /\ cal_call' = [op |-> "strftime", day |-> day, sec |-> sec, format |-> format, size |-> size]
        /\ cal_out' = [op |-> "strftime", res |-> strftime(size, format, tm)]
ratio_call ==
    /\ cal_call.op = "none"
    /\ \E n \in RatioParts, d \in RatioParts \ {0}, v \in RatioParts :
        LET r == ratio_new(n, d) IN
        /\ cal_call' = [op |-> "ratio", n |-> n, d |-> d, v |-> v]
        /\ cal_out' = [op |-> "ratio", r |-> r, trunc |-> mul_trunc(r, v), round |-> mul_round(r, v)]

CalNext == convert_call \/ strftime_call \/ ratio_call

-----------------------------------------------------------------------------
(* What the calendar means: days are counted from one date to another.      *)

\* The day on which a year begins, from 1970-01-01.
YearBegins(year) ==
    LET before(n) == (n \div 4) - (n \div 100) + (n \div 400)
    IN  365 * (year - 1970) + before(year - 1) - before(1969)

IsDate(day, tm) ==
    LET year == tm.year + 1900
        starts == YearBegins(year)
        months == MonthDays(YearBegins(year + 1) - starts - 365)
    IN  /\ tm.mon \in 0 .. 11 /\ tm.mday \in 1 .. months[tm.mon + 1]
        /\ starts + tm.yday = day
        /\ tm.yday = FoldSet(LAMBDA m, n : n + months[m], 0, 1 .. tm.mon) + tm.mday - 1
        /\ tm.wday = (4 + day) % 7

\* The number a conversion should show on a day.
Shown(c, day, sec) ==
    LET year == CHOOSE y \in 1969 + (day \div 366) .. 1971 + (day \div 365) : day \in YearBegins(y) .. YearBegins(y + 1) - 1
        sofar == YearBegins(year) .. day
    IN  CASE c = "U" -> Decimal(Cardinality({d \in sofar : (4 + d) % 7 = 0}))
          [] c = "W" -> Decimal(Cardinality({d \in sofar : (4 + d) % 7 = 1}))
          [] c = "u" -> Decimal(CHOOSE n \in 1 .. 7 : ((3 + day) % 7) + 1 = n)
          [] c = "I" -> Padded(CHOOSE h \in 1 .. 12 : ((sec \div 3600) - h) % 12 = 0, 2, "0")
          [] c = "Y" -> Decimal(year)
          [] OTHER -> <<>>

RatioRight(call, out) ==
    LET p == 2^out.r.shift
        near(x) == {((call.v * call.n) \div call.d) + k : k \in -x .. x}
    IN  /\ 2 * (out.r.mult * call.d - call.n * p) \in -call.d .. call.d
        /\ out.r.mult % 2 = 1 \/ out.r.shift = 0
        /\ call.n * p = out.r.mult * call.d => out.trunc = (call.v * call.n) \div call.d
        /\ call.v < p => out.trunc \in near(1) /\ out.round \in near(1)

\* __secs_to_tm names the date its argument falls on and mktime leads back to
\* it, over leap years, centuries and the epoch; strftime writes what fits,
\* NUL-terminated, returns its length only when all of it did, and shows the
\* week and the hour of that date; a ratio is as near as its shift allows.
CalendarMatches ==
    CASE cal_call.op = "none" -> TRUE
      [] cal_call.op = "convert" ->
           LET tm == cal_out.tm IN
           /\ tm.err = "" <=> \E y \in -CAL_INT_MAX - 1 .. CAL_INT_MAX : cal_call.day \in YearBegins(1900 + y) .. YearBegins(1901 + y) - 1
           /\ tm.err = "" => /\ IsDate(cal_call.day, tm)
                             /\ tm.hour * 3600 + tm.min * 60 + tm.sec = cal_call.sec
                             /\ cal_out.back = [day |-> cal_call.day, sec |-> cal_call.sec]
      [] cal_call.op = "strftime" ->
           LET res == cal_out.res
               format == cal_call.format
               size == cal_call.size
               shown == IF Len(format) = 2 THEN Shown(format[2], cal_call.day, cal_call.sec) ELSE <<>>
           IN  /\ Len(res.text) < size \/ res.text = <<>>
               /\ res.ret \in {0, Len(res.text)}
               /\ res.ret # 0 => res.nul
               /\ shown # <<>> => res.text = SubSeq(shown, 1, Len(res.text)) /\ (Len(shown) < size => res.ret = Len(shown))
      [] cal_call.op = "ratio" -> RatioRight(cal_call, cal_out)
=============================================================================
