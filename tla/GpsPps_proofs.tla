---------------------------- MODULE GpsPps_proofs ----------------------------
(***************************************************************************)
(* The measurement of the second, for every RTC day, every size of the     *)
(* counters and every row of pulses that satisfies the assumptions.        *)
(***************************************************************************)
EXTENDS GpsPps, Integers, TLAPS

-----------------------------------------------------------------------------
\* Products grow with their factors, and a quotient lies between the bounds its
\* dividend has: what the solver needs to be told of nonlinear arithmetic.
LEMMA ProductGrows ==
    ASSUME NEW a \in Nat, NEW b \in Nat, NEW c \in Nat, a <= b
    PROVE  a * c <= b * c
OBVIOUS

LEMMA QuotientDef ==
    ASSUME NEW n \in Nat, NEW d \in Nat \ {0}
    PROVE  /\ n \div d \in Nat
           /\ (n \div d) * d <= n
           /\ n < (n \div d) * d + d
OBVIOUS

LEMMA QuotientBounds ==
    ASSUME NEW n \in Nat, NEW d \in Nat \ {0}, NEW lo \in Nat, NEW hi \in Nat,
           lo * d <= n, n <= hi * d
    PROVE  lo <= n \div d /\ n \div d <= hi
<1> DEFINE q == n \div d
<1>1. q \in Nat /\ q * d <= n /\ n < q * d + d
  BY QuotientDef
<1> HIDE DEF q
<1>2. ASSUME q < lo PROVE FALSE
  <2>1. q + 1 <= lo
    BY <1>1, <1>2
  <2>2. (q + 1) * d <= lo * d
    BY <1>1, <2>1, ProductGrows
  <2>3. (q + 1) * d = q * d + d
    BY <1>1
  <2> QED
    BY <1>1, <2>2, <2>3
<1>3. ASSUME hi < q PROVE FALSE
  <2>1. hi + 1 <= q
    BY <1>1, <1>3
  <2>2. (hi + 1) * d <= q * d
    BY <1>1, <2>1, ProductGrows
  <2>3. (hi + 1) * d = hi * d + d
    OBVIOUS
  <2> QED
    BY <1>1, <2>2, <2>3
<1> QED
  BY <1>1, <1>2, <1>3 DEF q

-----------------------------------------------------------------------------
\* The longest interval that can be taken as a measurement.
LIMIT == CHOOSE limit \in 1 .. DAY : Longest(limit)

LEMMA LimitFits == LIMIT \in Nat /\ LIMIT > 0 /\ Longest(LIMIT)
<1>1. LIMIT \in 1 .. DAY /\ Longest(LIMIT)
  BY LengthAssumption DEF LIMIT
<1> QED
  BY <1>1, ClockAssumption

LEMMA Constants ==
    /\ NOMINAL \in Nat /\ NOMINAL > 0
    /\ DAY \in Nat /\ DAY > 0 /\ WORD \in Nat /\ DAY < WORD
    /\ Tol_Arr_Numb \in Nat /\ Tol_Arr_Numb > 0
    /\ FiFo_Active_cnt_MAX \in Nat /\ FiFo_Active_cnt_MAX > 0
    /\ OnTime \subseteq Gaps
    /\ \A gap \in Gaps : gap \in Nat /\ gap > 0 /\ gap < DAY
<1>1. Gaps \subseteq 1 .. DAY - 1
  BY ClockAssumption
<1>2. DAY \in Nat /\ DAY > 0
  BY ClockAssumption
<1> QED
  BY <1>1, <1>2, ClockAssumption

\* The average and the measurements stay below the limit; there is no average
\* before the first measurement; and after the first pulse the last value of the
\* clock is kept whether the measurement was taken or not.
Bounded ==
    /\ clk_dirft_current <= LIMIT
    /\ most <= LIMIT
    /\ cnt = 0 => clk_dirft_current = NOMINAL /\ least = NOMINAL /\ most = NOMINAL
    /\ previous_cpuclk = 0 => cnt = 0
    /\ previous_cpuclk # 0 => previous_cpuclk = clk

GpsInv == GpsTypeOK /\ AverageGenuine /\ Bounded

\* The clock stays within its day, and it is never 0.
LEMMA ClockRange ==
    ASSUME GpsTypeOK, NEW gap \in Gaps
    PROVE  /\ RTC_clk(gap) \in 1 .. DAY
           /\ clk + gap <= DAY => RTC_clk(gap) = clk + gap
           /\ clk + gap > DAY => RTC_clk(gap) = clk + gap - DAY
<1> DEFINE n == clk + gap - 1
<1>1. clk \in Nat /\ clk >= 1 /\ clk <= DAY /\ gap \in Nat /\ gap > 0 /\ gap < DAY
      /\ DAY \in Nat /\ DAY > 0
  BY Constants DEF GpsTypeOK
<1>2. n \in Nat /\ n < DAY + DAY
  BY <1>1
<1>3. n % DAY = IF n < DAY THEN n ELSE n - DAY
  <2>1. CASE n < DAY
    BY <1>1, <1>2, <2>1, SMT
  <2>2. CASE n >= DAY
    <3>1. n = DAY * 1 + (n - DAY) /\ n - DAY \in 0 .. DAY - 1
      BY <1>1, <1>2, <2>2
    <3> QED
      BY <1>1, <1>2, <2>2, <3>1, SMT
  <2> QED
    BY <1>1, <1>2, <2>1, <2>2
<1> QED
  BY <1>1, <1>2, <1>3 DEF RTC_clk

\* What GPS_PPS_Interrupt measures: the value of the clock at the first pulse,
\* and later the interval, except over the end of the RTC's day, where the 32 bits
\* wrap to something longer than any measurement.
LEMMA Measured ==
    ASSUME GpsInv, NEW gap \in Gaps
    PROVE  LET delay == cpu_delay(RTC_clk(gap)) IN
           /\ delay \in Nat /\ delay > 0
           /\ \/ previous_cpuclk = 0
              \/ delay = gap
              \/ delay >= WORD - DAY
<1> DEFINE now == RTC_clk(gap)
           raw == WORD + now - previous_cpuclk
<1>1. /\ now \in Nat /\ now >= 1 /\ now <= DAY
      /\ clk + gap <= DAY => now = clk + gap
      /\ clk + gap > DAY => now = clk + gap - DAY
  BY ClockRange, Constants DEF GpsInv
<1>2. /\ clk \in Nat /\ clk >= 1 /\ clk <= DAY /\ gap \in Nat /\ gap > 0 /\ gap < DAY
      /\ previous_cpuclk = 0 \/ previous_cpuclk = clk
      /\ DAY \in Nat /\ WORD \in Nat /\ DAY < WORD
  BY Constants DEF GpsInv, GpsTypeOK, Bounded
<1> HIDE DEF now
<1>3. raw \in Nat /\ raw > 0 /\ raw < WORD + WORD
  BY <1>1, <1>2
<1>4. raw % WORD = IF raw < WORD THEN raw ELSE raw - WORD
  <2>1. CASE raw < WORD
    BY <1>2, <1>3, <2>1, SMT
  <2>2. CASE raw >= WORD
    <3>1. raw = WORD * 1 + (raw - WORD) /\ raw - WORD \in 0 .. WORD - 1
      BY <1>2, <1>3, <2>2
    <3> QED
      BY <1>2, <1>3, <2>2, <3>1, SMT
  <2> QED
    BY <1>2, <1>3, <2>1, <2>2
<1>5. cpu_delay(now) = IF raw < WORD THEN raw ELSE raw - WORD
  BY <1>4 DEF cpu_delay
<1>6. CASE previous_cpuclk = 0
  BY <1>1, <1>2, <1>5, <1>6 DEF now
<1>7. CASE previous_cpuclk = clk /\ clk + gap <= DAY
  BY <1>1, <1>2, <1>5, <1>7 DEF now
<1>8. CASE previous_cpuclk = clk /\ clk + gap > DAY
  BY <1>1, <1>2, <1>5, <1>8 DEF now
<1> QED
  BY <1>1, <1>2, <1>6, <1>7, <1>8

\* A measurement that is taken stays below the limit.
LEMMA TakenLength ==
    ASSUME GpsInv, NEW gap \in Gaps, InWindow(cpu_delay(RTC_clk(gap)))
    PROVE  cpu_delay(RTC_clk(gap)) <= LIMIT
<1> DEFINE delay == cpu_delay(RTC_clk(gap))
<1>1. /\ delay \in Nat
      /\ previous_cpuclk = 0 \/ delay = gap \/ delay >= WORD - DAY
  BY Measured
<1>2. 5 * delay <= 6 * clk_dirft_current
  BY DEF InWindow
<1> HIDE DEF delay
<1>3. /\ clk_dirft_current \in Nat /\ clk_dirft_current <= LIMIT
      /\ previous_cpuclk = 0 => clk_dirft_current = NOMINAL
  BY DEF GpsInv, GpsTypeOK, Bounded
<1>4. /\ LIMIT \in Nat /\ 6 * NOMINAL <= 5 * LIMIT
      /\ gap <= LIMIT \/ 5 * gap > 6 * LIMIT
      /\ 6 * LIMIT < 5 * (WORD - DAY)
  BY LimitFits DEF Longest
<1>5. gap \in Nat /\ WORD \in Nat /\ DAY \in Nat /\ NOMINAL \in Nat
  BY Constants
<1>6. CASE previous_cpuclk = 0
  BY <1>1, <1>2, <1>3, <1>4, <1>5, <1>6 DEF delay
<1>7. CASE delay = gap
  BY <1>2, <1>3, <1>4, <1>5, <1>7 DEF delay
<1>8. CASE delay >= WORD - DAY
  BY <1>1, <1>2, <1>3, <1>4, <1>5, <1>8 DEF delay
<1> QED
  BY <1>1, <1>6, <1>7, <1>8

\* The sum that is averaged fits its 32 bits.
LEMMA SumFits ==
    ASSUME GpsInv, NEW delay \in Nat, delay <= LIMIT
    PROVE  /\ clk_dirft_current * cnt + delay \in Nat
           /\ clk_dirft_current * cnt + delay < WORD
<1> DEFINE p == clk_dirft_current * cnt
<1>1. /\ clk_dirft_current \in Nat /\ cnt \in Nat /\ cnt <= Tol_Arr_Numb
      /\ clk_dirft_current <= LIMIT
  BY Constants DEF GpsInv, GpsTypeOK, Bounded
<1>2. LIMIT \in Nat /\ LIMIT * (Tol_Arr_Numb + 1) < WORD
  BY LimitFits DEF Longest
<1>3. Tol_Arr_Numb \in Nat /\ WORD \in Nat
  BY Constants
<1>4. clk_dirft_current * cnt <= LIMIT * cnt
  BY <1>1, <1>2, ProductGrows
<1>5. LIMIT * cnt <= LIMIT * Tol_Arr_Numb
  <2>1. cnt * LIMIT <= Tol_Arr_Numb * LIMIT
    BY <1>1, <1>2, <1>3, ProductGrows
  <2> QED
    BY <1>1, <1>2, <1>3, <2>1
<1>6. LIMIT * (Tol_Arr_Numb + 1) = LIMIT * Tol_Arr_Numb + LIMIT
  BY <1>2, <1>3
<1>7. p \in Nat /\ LIMIT * cnt \in Nat /\ LIMIT * Tol_Arr_Numb \in Nat
  BY <1>1, <1>2, <1>3
<1>8. p <= LIMIT * Tol_Arr_Numb
  BY <1>1, <1>4, <1>5, <1>7
<1> HIDE DEF p
<1>9. p + delay < WORD
  BY <1>2, <1>3, <1>6, <1>7, <1>8
<1> QED
  BY <1>7, <1>9 DEF p

\* So the average is the quotient of the sum, without a wrap.
LEMMA AverageIs ==
    ASSUME GpsInv, NEW delay \in Nat, delay <= LIMIT
    PROVE  Average(delay) = (clk_dirft_current * cnt + delay) \div (cnt + 1)
<1> DEFINE sum == clk_dirft_current * cnt + delay
<1>1. sum \in Nat /\ sum < WORD /\ WORD \in Nat
  BY SumFits, Constants
<1> HIDE DEF sum
<1>2. sum % WORD = sum
  BY <1>1, SMT
<1> QED
  BY <1>2 DEF sum, Average

\* It lies between any two numbers between which the old average, if there is one,
\* and the measurement lie.
LEMMA AverageBetween ==
    ASSUME GpsInv, NEW delay \in Nat, delay <= LIMIT, NEW lo \in Nat, NEW hi \in Nat,
           lo <= delay, delay <= hi,
           cnt # 0 => lo <= clk_dirft_current /\ clk_dirft_current <= hi
    PROVE  Average(delay) \in Nat /\ lo <= Average(delay) /\ Average(delay) <= hi
<1> DEFINE a == clk_dirft_current
           sum == a * cnt + delay
           d == cnt + 1
<1>1. a \in Nat /\ cnt \in Nat
  BY Constants DEF GpsInv, GpsTypeOK
<1> HIDE DEF a
<1>2. d \in Nat \ {0} /\ sum \in Nat
  BY <1>1
<1>3. lo * d <= sum /\ sum <= hi * d
  <2>1. CASE cnt = 0
    BY <1>1, <2>1
  <2>2. CASE cnt # 0
    <3>1. lo * cnt <= a * cnt /\ a * cnt <= hi * cnt
      BY <1>1, <2>2, ProductGrows DEF a
    <3>2. lo * d = lo * cnt + lo /\ hi * d = hi * cnt + hi
      BY <1>1
    <3>3. a * cnt \in Nat /\ lo * cnt \in Nat /\ hi * cnt \in Nat
      BY <1>1
    <3> QED
      BY <3>1, <3>2, <3>3
  <2> QED
    BY <2>1, <2>2
<1>4. Average(delay) = sum \div d
  BY AverageIs DEF a
<1> HIDE DEF sum, d
<1>5. sum \div d \in Nat /\ lo <= sum \div d /\ sum \div d <= hi
  BY <1>2, <1>3, QuotientDef, QuotientBounds
<1> QED
  BY <1>4, <1>5

-----------------------------------------------------------------------------
\* The board starts with the nominal second and nothing measured.
LEMMA InitInv == GpsInit => GpsInv
<1> SUFFICES ASSUME GpsInit PROVE GpsInv
  OBVIOUS
<1>1. GpsTypeOK
  <2>1. /\ 0 \in 0 .. DAY /\ 0 \in 0 .. Tol_Arr_Numb
        /\ 0 \in 0 .. FiFo_Active_cnt_MAX /\ NOMINAL \in Nat
    BY Constants
  <2>2. FiFo_Active \in BOOLEAN /\ punctual \in BOOLEAN
    BY DEF GpsInit
  <2> QED
    BY <2>1, <2>2, Zenon DEF GpsInit, GpsTypeOK
<1>2. NOMINAL <= LIMIT
  <2>1. LIMIT \in Nat /\ 6 * NOMINAL <= 5 * LIMIT /\ NOMINAL \in Nat
    BY LimitFits, Constants DEF Longest
  <2> QED
    BY <2>1
<1>3. AverageGenuine /\ Bounded
  BY <1>2, Constants DEF GpsInit, AverageGenuine, Bounded
<1> QED
  BY <1>1, <1>3 DEF GpsInv

\* The clock after a pulse, and what is kept of it.
LEMMA ClockStep ==
    ASSUME GpsInv, NEW gap \in Gaps, GPS_PPS_Interrupt(gap)
    PROVE  /\ clk' \in 1 .. DAY
           /\ previous_cpuclk' = clk'
           /\ previous_cpuclk' \in 0 .. DAY /\ previous_cpuclk' # 0
           /\ punctual' \in BOOLEAN
           /\ clk' = RTC_clk(gap)
<1>1. /\ clk' = RTC_clk(gap) /\ previous_cpuclk' = RTC_clk(gap)
      /\ punctual' = (previous_cpuclk # 0 /\ gap \in OnTime)
  BY DEF GPS_PPS_Interrupt, PreviousAfter
<1>2. RTC_clk(gap) \in 1 .. DAY
  BY ClockRange DEF GpsInv
<1>3. \A n \in 1 .. DAY : n \in 0 .. DAY /\ n # 0
  BY Constants
<1>4. punctual' \in BOOLEAN
  BY <1>1
<1> QED
  BY <1>1, <1>2, <1>3, <1>4

\* A pulse whose measurement is taken into the average.
LEMMA TakeInv ==
    ASSUME GpsInv, NEW gap \in Gaps, GPS_PPS_Interrupt(gap), Take(cpu_delay(RTC_clk(gap)))
    PROVE  GpsInv'
<1> DEFINE delay == cpu_delay(RTC_clk(gap))
<1>1. delay \in Nat /\ delay <= LIMIT /\ InWindow(delay)
  BY Measured, TakenLength DEF Take
<1> HIDE DEF delay
<1>2. /\ clk_dirft_current' = Average(delay)
      /\ cnt' = Count(cnt + 1)
      /\ FiFo_Active' = (FiFo_Active_cnt + 1 > FiFo_Active_cnt_MAX)
      /\ FiFo_Active_cnt' = Least(FiFo_Active_cnt + 1, FiFo_Active_cnt_MAX)
      /\ least' = IF cnt = 0 THEN delay ELSE Least(least, delay)
      /\ most' = IF cnt = 0 THEN delay ELSE Most(most, delay)
  BY DEF Take, delay
<1>3. /\ clk_dirft_current \in Nat /\ least \in Nat /\ most \in Nat
      /\ cnt \in 0 .. Tol_Arr_Numb
      /\ FiFo_Active_cnt \in 0 .. FiFo_Active_cnt_MAX
      /\ least <= clk_dirft_current /\ clk_dirft_current <= most /\ most <= LIMIT
  BY DEF GpsInv, GpsTypeOK, AverageGenuine, Bounded
<1>4. /\ least' \in Nat /\ most' \in Nat
      /\ least' <= delay /\ delay <= most' /\ most' <= LIMIT
      /\ cnt # 0 => least' <= clk_dirft_current /\ clk_dirft_current <= most'
  BY <1>1, <1>2, <1>3 DEF Least, Most
<1>5. /\ clk_dirft_current' \in Nat
      /\ least' <= clk_dirft_current' /\ clk_dirft_current' <= most'
  BY <1>1, <1>2, <1>4, AverageBetween
<1>6. clk_dirft_current' <= LIMIT
  BY <1>4, <1>5, LimitFits
<1>7. cnt' \in 0 .. Tol_Arr_Numb /\ cnt' # 0
  BY <1>2, <1>3, Constants DEF Count
<1>8. FiFo_Active_cnt' \in 0 .. FiFo_Active_cnt_MAX
  BY <1>2, <1>3, Constants DEF Least
<1>9. FiFo_Active' \in BOOLEAN
  BY <1>2
<1>10. GpsTypeOK'
  BY <1>4, <1>5, <1>7, <1>8, <1>9, ClockStep DEF GpsTypeOK
<1>11. Bounded'
  BY <1>4, <1>6, <1>7, ClockStep DEF Bounded
<1> QED
  BY <1>5, <1>10, <1>11 DEF GpsInv, AverageGenuine

\* A pulse that is thrown away changes what was measured last, not the average.
LEMMA ThrowAwayInv ==
    ASSUME GpsInv, NEW gap \in Gaps, GPS_PPS_Interrupt(gap),
           ThrowAway(cpu_delay(RTC_clk(gap)))
    PROVE  GpsInv'
<1>1. /\ FiFo_Active_cnt' = 0 /\ FiFo_Active' = FALSE
      /\ UNCHANGED <<clk_dirft_current, cnt, least, most>>
  BY DEF ThrowAway
<1>2. 0 \in 0 .. FiFo_Active_cnt_MAX
  BY Constants
<1>3. GpsTypeOK'
  BY <1>1, <1>2, ClockStep DEF GpsInv, GpsTypeOK
<1> QED
  BY <1>1, <1>3, ClockStep DEF GpsInv, AverageGenuine, Bounded

\* What the window lets in, an average over many measurements, the end of the day:
\* the invariant holds at every pulse.
THEOREM GpsInvariance == GpsSpec => []GpsInv
<1>1. GpsInv /\ [GpsNext]_gpsVars => GpsInv'
  <2> SUFFICES ASSUME GpsInv, [GpsNext]_gpsVars PROVE GpsInv'
    OBVIOUS
  <2>1. CASE UNCHANGED gpsVars
    BY <2>1 DEF gpsVars, GpsInv, GpsTypeOK, AverageGenuine, Bounded
  <2>2. ASSUME NEW gap \in Gaps, GPS_PPS_Interrupt(gap) PROVE GpsInv'
    <3>1. Take(cpu_delay(RTC_clk(gap))) \/ ThrowAway(cpu_delay(RTC_clk(gap)))
      BY <2>2 DEF GPS_PPS_Interrupt
    <3> QED
      BY <2>2, <3>1, TakeInv, ThrowAwayInv
  <2> QED
    BY <2>1, <2>2 DEF GpsNext
<1> QED
  BY <1>1, InitInv, PTL DEF GpsSpec

\* The clock, the counters and the histories stay in range.
THEOREM GpsTypeCorrect == GpsSpec => []GpsTypeOK
<1>1. GpsInv => GpsTypeOK
  BY DEF GpsInv
<1> QED
  BY <1>1, GpsInvariance, PTL

\* The average never leaves the range of the measurements taken: truncation,
\* missed pulses and the end of the RTC's day notwithstanding.
THEOREM AverageCorrect == GpsSpec => []AverageGenuine
<1>1. GpsInv => AverageGenuine
  BY DEF GpsInv
<1> QED
  BY <1>1, GpsInvariance, PTL

\* With measurements on time only, no row of missed pulses and glitches moves the
\* window away from the pulses on time.
THEOREM WindowCorrect == GpsSpec => []StaysTuned
<1>1. GpsInv => StaysTuned
  <2> SUFFICES ASSUME GpsInv, least \in OnTime, most \in OnTime, NEW gap \in OnTime
               PROVE  gap \in Gaps /\ InWindow(gap)
    BY DEF StaysTuned, Listening, Window
  <2>1. 5 * gap <= 6 * least /\ 5 * most <= 6 * gap
    BY PunctualAssumption
  <2>2. least <= clk_dirft_current /\ clk_dirft_current <= most
    BY DEF GpsInv, AverageGenuine
  <2>3. /\ gap \in Nat /\ gap \in Gaps /\ least \in Nat /\ most \in Nat
        /\ clk_dirft_current \in Nat
    BY Constants DEF GpsInv, GpsTypeOK
  <2> QED
    BY <2>1, <2>2, <2>3 DEF InWindow
<1> QED
  BY <1>1, GpsInvariance, PTL

\* The sum that is divided does not wrap.
THEOREM OverflowCorrect == GpsSpec => []NoOverflow
<1>1. GpsInv => NoOverflow
  <2> SUFFICES ASSUME GpsInv PROVE NoOverflow
    OBVIOUS
  <2>1. most \in Nat /\ most <= LIMIT
    BY DEF GpsInv, GpsTypeOK, Bounded
  <2> QED
    BY <2>1, SumFits DEF NoOverflow
<1> QED
  BY <1>1, GpsInvariance, PTL

\* Once the count stands still, the truncated division forgets every measurement
\* that is longer than the average by Tol_Arr_Numb ticks or less.
THEOREM TruncationCorrect == GpsSpec => RisesAreLost
<1> DEFINE Lost == cnt = Tol_Arr_Numb /\ cnt' = cnt /\ FiFo_Active_cnt' > 0
                   => LET delay == cpu_delay(clk') IN
                      /\ delay >= clk_dirft_current
                           /\ delay <= clk_dirft_current + Tol_Arr_Numb
                           => clk_dirft_current' = clk_dirft_current
                      /\ delay < clk_dirft_current => clk_dirft_current' < clk_dirft_current
<1>1. GpsInv /\ [GpsNext]_gpsVars => [Lost]_gpsVars
  <2> SUFFICES ASSUME GpsInv, NEW gap \in Gaps, GPS_PPS_Interrupt(gap),
                      cnt = Tol_Arr_Numb, FiFo_Active_cnt' > 0
               PROVE  LET delay == cpu_delay(clk') IN
                      /\ delay >= clk_dirft_current
                           /\ delay <= clk_dirft_current + Tol_Arr_Numb
                           => clk_dirft_current' = clk_dirft_current
                      /\ delay < clk_dirft_current => clk_dirft_current' < clk_dirft_current
    BY DEF GpsNext
  <2> DEFINE delay == cpu_delay(RTC_clk(gap))
             a == clk_dirft_current
             d == cnt + 1
             sum == a * cnt + delay
  <2>1. Take(delay)
    <3>1. Take(delay) \/ ThrowAway(delay)
      BY DEF GPS_PPS_Interrupt
    <3>2. ~ThrowAway(delay)
      BY DEF ThrowAway
    <3> QED
      BY <3>1, <3>2
  <2>2. delay \in Nat /\ delay <= LIMIT /\ a' = Average(delay)
    BY <2>1, Measured, TakenLength DEF Take
  <2>3. clk' = RTC_clk(gap)
    BY ClockStep
  <2>4. a \in Nat /\ cnt \in Nat /\ cnt > 0
    BY Constants DEF GpsInv, GpsTypeOK
  <2>5. a' = sum \div d
    BY <2>2, AverageIs
  <2> HIDE DEF delay
  <2>6. a * cnt \in Nat /\ a * d = a * cnt + a
    BY <2>4
  <2>7. d \in Nat \ {0} /\ sum \in Nat
    BY <2>2, <2>4, <2>6
  <2>8. sum \div d \in Nat /\ (sum \div d) * d <= sum /\ sum < (sum \div d) * d + d
    BY <2>7, QuotientDef
  <2> DEFINE q == sum \div d
  <2> HIDE DEF q
  <2>9. ASSUME delay >= a, delay <= a + cnt PROVE q = a
    <3>1. a * d <= sum /\ sum < a * d + d
      BY <2>2, <2>4, <2>6, <2>9
    <3>2. ~(q <= a - 1)
      <4> SUFFICES ASSUME q <= a - 1 PROVE FALSE
        OBVIOUS
      <4>1. q \in Nat /\ q + 1 <= a
        BY <2>4, <2>8 DEF q
      <4>2. (q + 1) * d <= a * d /\ (q + 1) * d = q * d + d
        BY <2>4, <2>7, <4>1, ProductGrows
      <4> QED
        BY <2>4, <2>6, <2>7, <2>8, <3>1, <4>1, <4>2 DEF q
    <3>3. ~(q >= a + 1)
      <4> SUFFICES ASSUME q >= a + 1 PROVE FALSE
        OBVIOUS
      <4>1. q \in Nat /\ a + 1 <= q /\ a + 1 \in Nat
        BY <2>4, <2>8 DEF q
      <4>2. (a + 1) * d <= q * d /\ (a + 1) * d = a * d + d
        BY <2>4, <2>7, <4>1, ProductGrows
      <4> QED
        BY <2>4, <2>6, <2>7, <2>8, <3>1, <4>1, <4>2 DEF q
    <3> QED
      BY <2>4, <2>8, <3>2, <3>3 DEF q
  <2>10. ASSUME delay < a PROVE q < a
    <3> SUFFICES ASSUME q >= a PROVE FALSE
      BY <2>4, <2>8 DEF q
    <3>1. a * d <= q * d
      BY <2>4, <2>7, <2>8, ProductGrows DEF q
    <3>2. sum < a * d
      BY <2>2, <2>4, <2>6, <2>10
    <3> QED
      BY <2>4, <2>6, <2>7, <2>8, <3>1, <3>2 DEF q
  <2> QED
    BY <2>3, <2>5, <2>9, <2>10 DEF q, delay
<1> QED
  BY <1>1, GpsInvariance, PTL DEF GpsSpec, RisesAreLost
=============================================================================
