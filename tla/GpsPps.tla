------------------------------- MODULE GpsPps -------------------------------
(***************************************************************************)
(* The measurement of the second in driver/gps_pps/gps_pps.c: at each      *)
(* pulse of the GPS, GPS_PPS_Interrupt reads the clock of the RTC, takes   *)
(* the ticks since the last pulse if they lie within 20 % of the average,  *)
(* and averages them.  The RTC's day has 24 * 3600 * (SYNCHPRRDIV + 1)     *)
(* ticks of 12.5 MHz, 138.24 seconds: Get_RTC_clk falls back to 1 at its   *)
(* end.  What is sent of the average is the subject of FpgaLink.           *)
(***************************************************************************)
EXTENDS Naturals

CONSTANTS
    NOMINAL,            \* the average before there is one (12500000)
    DAY,                \* ticks of the RTC's day (1728000000)
    WORD,               \* the values of a uint32_t (2^32)
    Tol_Arr_Numb,       \* where cnt stops (128)
    FiFo_Active_cnt_MAX,\* where FiFo_Active_cnt stops (128)
    OnTime,             \* ticks from one pulse to the next as the GPS makes them
    Gaps                \* what can lie between two pulses that arrive

ASSUME ClockAssumption ==
    /\ {NOMINAL, DAY, WORD, Tol_Arr_Numb, FiFo_Active_cnt_MAX} \subseteq Nat \ {0}
    /\ OnTime \subseteq Gaps /\ Gaps \subseteq 1 .. DAY - 1
    /\ DAY < WORD

\* Pulses on time are closer to each other than the window is wide.
ASSUME PunctualAssumption == \A a, b \in OnTime : 5 * a <= 6 * b

\* What the code relies on without a test: there is a length that is 20 % longer
\* than the nominal second at least, that no interval reaches without being 20 %
\* longer still (two seconds and a little, say: a row of three is out of the
\* window), and that is small against a uint32_t, and against the distance by
\* which the day falls short of one.
Longest(limit) ==
    /\ 6 * NOMINAL <= 5 * limit
    /\ \A gap \in Gaps : gap <= limit \/ 5 * gap > 6 * limit
    /\ limit * (Tol_Arr_Numb + 1) < WORD
    /\ 6 * limit < 5 * (WORD - DAY)

ASSUME LengthAssumption == \E limit \in 1 .. DAY : Longest(limit)

VARIABLES
    clk,                \* what Get_RTC_clk returned at the last pulse
    previous_cpuclk,
    clk_dirft_current,  \* the average
    cnt,                \* the measurements it stands for
    FiFo_Active_cnt,    \* measurements taken without a break
    FiFo_Active,        \* there were enough of them
    least, most,        \* history: the shortest and the longest measurement taken
    punctual            \* history: the last pulse was on time

gpsVars == <<clk, previous_cpuclk, clk_dirft_current, cnt, FiFo_Active_cnt, FiFo_Active,
             least, most, punctual>>

\* The board starts while the RTC runs: its clock is kept over a reset.
GpsInit ==
    /\ clk \in 1 .. DAY
    /\ previous_cpuclk = 0
    /\ clk_dirft_current = NOMINAL
    /\ cnt = 0
    /\ FiFo_Active_cnt = 0
    /\ FiFo_Active = FALSE
    /\ least = NOMINAL /\ most = NOMINAL
    /\ punctual = FALSE

Least(a, b) == IF a <= b THEN a ELSE b
Most(a, b) == IF a <= b THEN b ELSE a

\* Get_RTC_clk, gap ticks after the last pulse.
RTC_clk(gap) == ((clk + gap - 1) % DAY) + 1

cpu_delay(now) == (WORD + now - previous_cpuclk) % WORD

\* Neither above 1.2 nor below 0.8 times the average.
InWindow(delay) ==
    /\ 5 * delay <= 6 * clk_dirft_current
    /\ 5 * delay >= 4 * clk_dirft_current

\* Mutant: the measurement is not counted in the divisor.
AverageShort(delay) ==
    ((clk_dirft_current * cnt + delay) % WORD) \div (IF cnt = 0 THEN 1 ELSE cnt)

\* Mutant: the quotient is rounded to the nearest number.
AverageRounded(delay) ==
    ((clk_dirft_current * cnt + delay + (cnt + 1) \div 2) % WORD) \div (cnt + 1)

\* The sum is a uint32_t.
Average(delay) == ((clk_dirft_current * cnt + delay) % WORD) \div (cnt + 1)

\* Mutant: the pulse that was thrown away is not the start of the next interval.
PreviousAfterKept(now) == IF InWindow(cpu_delay(now)) THEN now ELSE previous_cpuclk

PreviousAfter(now) == now

\* Mutant: cnt grows on.
CountUncut(n) == n

\* cnt stops at the size of the arrays.
Count(n) == IF n > Tol_Arr_Numb THEN Tol_Arr_Numb ELSE n

Take(delay) ==
    /\ InWindow(delay)
    /\ clk_dirft_current' = Average(delay)
    /\ cnt' = Count(cnt + 1)
    /\ FiFo_Active' = (FiFo_Active_cnt + 1 > FiFo_Active_cnt_MAX)
    /\ FiFo_Active_cnt' = Least(FiFo_Active_cnt + 1, FiFo_Active_cnt_MAX)
    /\ least' = IF cnt = 0 THEN delay ELSE Least(least, delay)
    /\ most' = IF cnt = 0 THEN delay ELSE Most(most, delay)

ThrowAway(delay) ==
    /\ ~InWindow(delay)
    /\ FiFo_Active_cnt' = 0
    /\ FiFo_Active' = FALSE
    /\ UNCHANGED <<clk_dirft_current, cnt, least, most>>

\* GPS_PPS_Interrupt, gap ticks after the last pulse or, at the first pulse,
\* after the start.
GPS_PPS_Interrupt(gap) ==
    LET now == RTC_clk(gap) IN
    /\ clk' = now
    /\ Take(cpu_delay(now)) \/ ThrowAway(cpu_delay(now))
    /\ previous_cpuclk' = PreviousAfter(now)
    /\ punctual' = (previous_cpuclk # 0 /\ gap \in OnTime)

GpsNext == \E gap \in Gaps : GPS_PPS_Interrupt(gap)

GpsSpec == GpsInit /\ [][GpsNext]_gpsVars

\* The pulses do not stop.
GpsFairSpec == GpsSpec /\ WF_gpsVars(GpsNext)

-----------------------------------------------------------------------------
\* Types, and the sizes of the counters.
GpsTypeOK ==
    /\ clk \in 1 .. DAY
    /\ previous_cpuclk \in 0 .. DAY
    /\ clk_dirft_current \in Nat
    /\ cnt \in 0 .. Tol_Arr_Numb
    /\ FiFo_Active_cnt \in 0 .. FiFo_Active_cnt_MAX
    /\ FiFo_Active \in BOOLEAN
    /\ least \in Nat /\ most \in Nat
    /\ punctual \in BOOLEAN

\* The average is made anew from itself at every pulse, with truncation, over a
\* count that grows and then stands still: whatever is missed or thrown away in
\* between, it never leaves the range of the measurements that were taken.
AverageGenuine == least <= clk_dirft_current /\ clk_dirft_current <= most

\* The window follows the average.  As long as only pulses on time were taken, no
\* row of missed pulses, glitches and ends of the RTC's day makes it shut a pulse
\* on time out for good.
Window == {delay \in Gaps : InWindow(delay)}
Listening == OnTime \subseteq Window
StaysTuned == cnt > 0 /\ least \in OnTime /\ most \in OnTime => Listening

\* clk_dirft_current * cnt + cpu_delay is a uint32_t.
NoOverflow == clk_dirft_current * cnt + most < WORD

\* The division truncates: once cnt has stopped, a measurement that is longer than
\* the average by Tol_Arr_Numb ticks or less leaves it as it is, and each shorter
\* one lowers it by a tick at least.  A second that gets longer is not followed.
RisesAreLost ==
    [][ cnt = Tol_Arr_Numb /\ cnt' = cnt /\ FiFo_Active_cnt' > 0
        => LET delay == cpu_delay(clk') IN
           /\ delay >= clk_dirft_current /\ delay <= clk_dirft_current + Tol_Arr_Numb
                => clk_dirft_current' = clk_dirft_current
           /\ delay < clk_dirft_current => clk_dirft_current' < clk_dirft_current ]_gpsVars

\* One interval a day is thrown away at the end of the RTC's day, and the count of
\* FiFo_Active starts again: with pulses on time it is reached within each day.
InTune == punctual /\ Listening
BecomesActive == <>[]InTune => []<>FiFo_Active
=============================================================================
