----------------------------- MODULE SunxiConfig -----------------------------
(***************************************************************************)
(* The arithmetic of sunxi_pwm_config (src/module/pwm/pwm-sunxi.c:101-162) *)
(* behind pwm_config (src/module/pwm/core.c:401-408): from a duty and a    *)
(* period in nanoseconds to a prescaler of the 24 MHz clock, the length of *)
(* the cycle in prescaled clocks and the part of it that is active.  The   *)
(* products are 32 bits wide, as __u32 is; a 32-bit word is kept as its    *)
(* two halves because TLC's own integers have no more than 31 bits.        *)
(***************************************************************************)
EXTENDS Integers, Sequences

CONSTANTS
  Periods,       \* the sequence of periods to try, in nanoseconds
  DutySteps      \* each is tried with k/DutySteps of it active, 0 <= k <= DutySteps

MaxInt == 2147483647     \* period_ns is an int; below 42 the clock is bypassed

ASSUME ConfigAssumption ==
  /\ DutySteps \in Nat \ {0}
  /\ Periods \in Seq(42 .. MaxInt) /\ Periods # <<>>

VARIABLES
  at,            \* which period is tried
  k              \* how much of it is active

vars == <<at, k>>

-----------------------------------------------------------------------------
(* Words of 32 bits: <<high half, low half>>.                              *)

Half == 65536

(* a * b for b no longer than 17 bits and a * 256 within TLC's integers.   *)
MulU32(a, b) ==
  LET upper == a * (b \div 256)
      lower == (upper % 256) * 256 + a * (b % 256) IN
  <<(upper \div 256 + lower \div Half) % Half, lower % Half>>

AddU32(w, n) == <<(w[1] + (w[2] + n) \div Half) % Half, (w[2] + n) % Half>>

(* The quotient by d, a byte at a time, d * 256 being within the integers. *)
DivU32(w, d) ==
  LET n1 == w[1] \div 256
      n2 == (n1 % d) * 256 + (w[1] % 256)
      n3 == (n2 % d) * 256 + w[2] \div 256
      n4 == (n3 % d) * 256 + (w[2] % 256) IN
  (((n1 \div d) * 256 + n2 \div d) * 256 + n3 \div d) * 256 + n4 \div d

-----------------------------------------------------------------------------
(* sunxi_pwm_config                                                        *)

(* The table: the code of the prescaler and what it divides the clock by.  *)
pre_scal ==
  << <<15, 1>>, <<0, 120>>, <<1, 180>>, <<2, 240>>, <<3, 360>>, <<4, 480>>,
     <<8, 12000>>, <<9, 24000>>, <<10, 36000>>, <<11, 48000>>, <<12, 72000>> >>

Divider(id) == pre_scal[id + 1][2]

freq(period_ns) ==
  IF period_ns < 10667 THEN 93747
  ELSE IF period_ns > 1000000000 THEN 1 ELSE 1000000000 \div period_ns

EntireCycles(id, period_ns) == (24000000 \div freq(period_ns)) \div Divider(id)

(* Fault: the loop tests for one bit more than the register field has.     *)
Fits_OneBitMore(n) == n <= 131072

Fits(n) == n <= 65536

(* Fault: the loop leaves off one entry too late.                          *)
pre_scal_id_OneTooFar(period_ns) ==
  LET fit == {i \in 0 .. 10 : Fits(EntireCycles(i, period_ns))} IN
  IF fit = {} THEN 11 ELSE 1 + CHOOSE i \in fit : \A j \in fit : i <= j

(* The first entry whose cycle fits the field, 11 if there is none.        *)
pre_scal_id(period_ns) ==
  LET fit == {i \in 0 .. 10 : Fits(EntireCycles(i, period_ns))} IN
  IF fit = {} THEN 11 ELSE CHOOSE i \in fit : \A j \in fit : i <= j

entire_cycles(period_ns) == EntireCycles(pre_scal_id(period_ns), period_ns)

(* Fault: the first branch reaches ten times as far.                       *)
Scale_TenTimesAsFar(period_ns) ==
  IF period_ns < 5000000 THEN 1 ELSE IF period_ns < 6553500 THEN 100 ELSE 10000

(* What duty and period are divided by to keep the product small.          *)
Scale(period_ns) ==
  IF period_ns < 500000 THEN 1 ELSE IF period_ns < 6553500 THEN 100 ELSE 10000

(* Fault: the cycle is not scaled with the duty.                           *)
active_cycles_OldEntire(duty_ns, period_ns) ==
  LET s == Scale(period_ns) IN
  DivU32(AddU32(MulU32(duty_ns \div s, 192), (period_ns \div 2) \div s), period_ns \div s)

active_cycles(duty_ns, period_ns) ==
  LET s == Scale(period_ns)
      product == MulU32(duty_ns \div s, entire_cycles(period_ns)) IN
  DivU32(AddU32(product, (period_ns \div 2) \div s), period_ns \div s)

-----------------------------------------------------------------------------
(* The inputs: every period in turn, and every share of it.                *)

period == Periods[at]
duty(j) == IF j = DutySteps THEN period ELSE (period \div DutySteps) * j

Init == at = 1 /\ k = 0

MoreDuty == k < DutySteps /\ k' = k + 1 /\ UNCHANGED at

NextPeriod == k = DutySteps /\ at < Len(Periods) /\ at' = at + 1 /\ k' = 0

Next == MoreDuty \/ NextPeriod

Spec == Init /\ [][Next]_vars

-----------------------------------------------------------------------------
(* Correctness                                                             *)

(* The product a * b as <<what is above its lower half, that half>>, for   *)
(* b no longer than 17 bits, with nothing cut off; and the order of such.  *)
Product(a, b) ==
  LET middle == (a % Half) * (b \div 256)
      lower == (a % Half) * (b % 256) + (middle % 256) * 256 IN
  <<(a \div Half) * b + middle \div 256 + lower \div Half, lower % Half>>

AtMost(v, w) == v[1] < w[1] \/ (v[1] = w[1] /\ v[2] <= w[2])

(* The prescaler loop ends inside its table, and both halves of the period *)
(* register hold what is shifted into them (pwm-sunxi.c:128-137, 154).     *)
FieldsFit ==
  /\ pre_scal_id(period) \in 0 .. 10
  /\ entire_cycles(period) \in 1 .. Half
  /\ active_cycles(duty(k), period) \in 0 .. Half - 1

(* A full duty leaves no gap and a zero duty gives no pulse                *)
(* (core.c:398, pwm-sunxi.c:140-145).                                      *)
EndsExact ==
  /\ k = DutySteps => active_cycles(duty(k), period) = entire_cycles(period)
  /\ k = 0 => active_cycles(duty(k), period) = 0

(* The "on" time is the share of the cycle that was asked for, to one      *)
(* clock and one percent of the cycle, and exactly at both ends            *)
(* (core.c:398, pwm-sunxi.c:140-145): active / entire is about             *)
(* duty / period.                                                          *)
DutyAsAsked ==
  LET active == active_cycles(duty(k), period)
      slack == 1 + entire_cycles(period) \div 100
      exact == Product(duty(k), entire_cycles(period)) IN
  /\ AtMost(exact, Product(period, active + slack))
  /\ active >= slack => AtMost(Product(period, active - slack), exact)
  /\ EndsExact

(* More duty never gives a shorter pulse.                                  *)
DutyMonotone ==
  k > 0 => active_cycles(duty(k - 1), period) <= active_cycles(duty(k), period)

(* The cycle lasts as long as was asked for, to two percent (core.c:399),  *)
(* between the period of the highest frequency the code can make and 20 ms;*)
(* longer periods suffer from being rounded to whole hertz.                *)
CycleAsAsked ==
  10667 <= period /\ period <= 20000000 =>
  LET clocks == entire_cycles(period) * Divider(pre_scal_id(period))
      actual_ns == (clocks \div 24) * 1000 + ((clocks % 24) * 1000) \div 24 IN
    actual_ns \in period - period \div 50 .. period + period \div 50
=============================================================================
