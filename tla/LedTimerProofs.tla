--------------------------- MODULE LedTimerProofs ---------------------------
(***************************************************************************)
(* Machine-checked proofs about the LED driver of LedTimer, for both LEDs, *)
(* every sequence of commands and every interleaving of the ticks with     *)
(* them.                                                                   *)
(***************************************************************************)
EXTENDS LedTimer, TLAPS

-----------------------------------------------------------------------------
(* The invariants.                                                         *)

(* Between the steps of a command, the mode it set still stands, and what  *)
(* it read still is what the register holds or fits what it will write.    *)
Storing ==
  store # NULL =>
    LET l == store.cmd.led IN
    /\ loaded # "out"
    /\ store.step # "mode" => mode[l] = store.cmd.mode
    /\ store.step = "func" /\ mode[l] = 1 => value[l] = store.cmd.value
    /\ store.step = "invert" => mode[l] \in {7, 8} /\ value[l] <= 100
    /\ store.step = "write" => store.temp <= 100
    /\ store.step = "toggle" => mode[l] = 5 /\ store.temp = reg[l].duty

(* A timer is pending only while the module is in: only a handler re-arms  *)
(* one, and none runs once del_timer() took the last.  Commands come only  *)
(* while the file to write them to is there.                               *)
Disarmed ==
  /\ loaded \in {"out", "leaving"} => \A l \in Leds : ~armed[l]
  /\ group => loaded # "out"

LedInv == TypeOK /\ Storing /\ Disarmed

-----------------------------------------------------------------------------
(* The arithmetic of the period register.                                  *)

LEMMA Sixteen == Size16 \in Nat /\ Size16 > 1000
BY SMTT(60) DEF Size16

LEMMA Low == ASSUME NEW x \in Int PROVE x % Size16 \in Halfword
BY Sixteen, SMT DEF Halfword

LEMMA HalfInt == \A x \in Halfword : x \in Int /\ x >= 0 /\ x < Size16
BY Sixteen, SMT DEF Halfword

LEMMA Small == Halfword \subseteq Int /\ 0 .. 100 \subseteq Halfword
BY Sixteen, SMT DEF Halfword

LEMMA Bounds ==
  /\ IntMin \in Int /\ IntMax \in Int
  /\ IntMin < -10000000 /\ IntMax > 10000000
  /\ Size16 < 100000
BY SMTT(60) DEF IntMin, IntMax, Size16

LEMMA IntsInt == \A x \in Ints : x \in Int /\ x >= IntMin /\ x <= IntMax
BY Bounds, SMT DEF Ints

LEMMA InInts == \A x \in Int : x >= -10000000 /\ x <= 10000000 => x \in Ints
<1> DEFINE lo == IntMin
           hi == IntMax
<1>1. lo \in Int /\ hi \in Int /\ lo < -10000000 /\ hi > 10000000 BY Bounds
<1>2. Ints = lo .. hi BY DEF Ints
<1> HIDE DEF lo, hi
<1> QED BY <1>1, <1>2, SMT

LEMMA SmallInts == Halfword \subseteq Ints /\ 0 .. 100 \subseteq Ints
<1>1. ASSUME NEW x \in Halfword PROVE x \in Ints
  <2>1. x \in Int /\ x >= 0 /\ x < Size16 BY HalfInt
  <2>2. Size16 \in Int /\ Size16 < 100000 BY Bounds, Sixteen
  <2>3. x >= -10000000 /\ x <= 10000000 BY <2>1, <2>2, SMT
  <2> QED BY <2>1, <2>3, InInts
<1> QED BY <1>1, Small

LEMMA WrapTyped ==
  ASSUME NEW x \in Int
  PROVE  Wrap(x) \in Ints
<1> DEFINE lo == IntMin
           n == IntMax - IntMin + 1
<1>1. lo \in Int /\ n \in Int /\ n > 0 /\ x - lo \in Int BY Bounds, SMT
<1>2. (x - lo) % n \in Int /\ 0 <= (x - lo) % n /\ (x - lo) % n < n
  <2> HIDE DEF lo, n
  <2> QED BY <1>1, SMT
<1> DEFINE y == (x - lo) % n
<1>3. CASE x \notin Ints
  <2> DEFINE hi == IntMax
  <2>1. Wrap(x) = y + lo BY <1>3 DEF Wrap
  <2>2. n = hi - lo + 1 /\ hi \in Int /\ Ints = lo .. hi BY Bounds DEF Ints
  <2>3. y \in Int /\ 0 <= y /\ y < n BY <1>2
  <2> HIDE DEF y, n, lo, hi
  <2>4. y + lo >= lo /\ y + lo <= hi /\ y + lo \in Int BY <1>1, <2>2, <2>3, SMT
  <2> QED BY <1>1, <2>1, <2>2, <2>4, SMT
<1> QED BY <1>3 DEF Wrap

LEMMA WrapFits == ASSUME NEW x \in Ints PROVE Wrap(x) = x
BY DEF Wrap

LEMMA FiftiethTyped ==
  /\ \A x \in Int : Fiftieth(x) \in Int
  /\ \A x \in Nat : Fiftieth(x) = x \div 50
BY SMT DEF Fiftieth

LEMMA WordHalves ==
  ASSUME NEW c \in Int, NEW x \in Int
  PROVE  Word(c, x) \in [cycle : Halfword, duty : Halfword]
<1>1. x \div Size16 \in Int /\ c + x \div Size16 \in Int BY Sixteen, SMT
<1> QED BY <1>1, Low DEF Word

(* What fits into sixteen bits is written as it is.                        *)
LEMMA WordFits ==
  ASSUME NEW c \in Halfword, NEW x \in Halfword
  PROVE  Word(c, x) = [cycle |-> c, duty |-> x]
<1>1. x % Size16 = x /\ x \div Size16 = 0 BY Sixteen, SMT DEF Halfword
<1>2. c + 0 = c /\ c % Size16 = c BY Sixteen, SMT DEF Halfword
<1> QED BY <1>1, <1>2 DEF Word

LEMMA CycleInt == pwm_max \in Ints => Cycle \in Int
<1> SUFFICES ASSUME pwm_max \in Ints PROVE Cycle \in Int OBVIOUS
<1>1. pwm_max * 51 \in Int BY IntsInt, SMT
<1>2. Wrap(pwm_max * 51) \in Int BY <1>1, WrapTyped, IntsInt
<1> QED BY <1>2, FiftiethTyped DEF Cycle

LEMMA ToggledHalves ==
  ASSUME pwm_max \in Ints, NEW r
  PROVE  Toggled(r) \in [cycle : Halfword, duty : Halfword]
<1>1. pwm_max \in Int /\ pwm_max + 10 \in Int BY IntsInt, SMT
<1>2. CASE r.duty # 0
  <2>1. Toggled(r) = Word(pwm_max, 0) BY <1>2 DEF Toggled
  <2> QED BY <1>1, <2>1, WordHalves
<1>3. CASE r.duty = 0
  <2>1. Toggled(r) = Word(pwm_max, pwm_max + 10) BY <1>3 DEF Toggled
  <2> QED BY <1>1, <2>1, WordHalves
<1> QED BY <1>2, <1>3

-----------------------------------------------------------------------------
(* Typing.                                                                 *)

LEMMA TickTyped ==
  ASSUME LedInv, NEW l \in Leds, led_timer_func(l)
  PROVE  TypeOK'
<1>0. TypeOK BY DEF LedInv
<1>1. store' \in Stores \union {NULL}
  BY <1>0 DEF led_timer_func, Interrupts, TypeOK, Stores
<1>2. armed' \in [Leds -> BOOLEAN] /\ shown' \in [Leds -> BOOLEAN]
  BY <1>0 DEF led_timer_func, mod_timer, TypeOK
<1>3. pwm_add' \in [Leds -> BOOLEAN]
  BY <1>0 DEF led_timer_func, Rising, TypeOK
<1>4. pwm_count' \in [Leds -> Ints]
  <2>1. pwm_count[l] \in Int BY <1>0, IntsInt DEF TypeOK
  <2>2. (IF Rising(l) THEN pwm_count[l] + 1 ELSE pwm_count[l] - 1) \in Int BY <2>1, SMT
  <2>3. Wrap(IF Rising(l) THEN pwm_count[l] + 1 ELSE pwm_count[l] - 1) \in Ints
    BY <2>2, WrapTyped
  <2> QED BY <1>0, <2>3 DEF led_timer_func, TypeOK
<1>5. count' \in [Leds -> 0 .. 101]
  <2>0. count[l] \in 0 .. 101 BY <1>0 DEF TypeOK
  <2>1. Count(l) \in 0 .. 101
    <3>1. CASE mode[l] = 2
      <4>1. Count(l) = IF count[l] > 40 THEN 0 ELSE count[l] + 1 BY <3>1 DEF Count
      <4> QED BY <2>0, <4>1, SMT
    <3>2. CASE mode[l] = 10
      <4>1. Count(l) = IF count[l] > 100 THEN 0 ELSE count[l] + 1 BY <3>2, SMT DEF Count
      <4> QED BY <2>0, <4>1, SMT
    <3>3. CASE mode[l] \notin {2, 10}
      <4>1. Count(l) = count[l] BY <3>3 DEF Count
      <4> QED BY <2>0, <4>1
    <3> QED BY <3>1, <3>2, <3>3
  <2> QED BY <1>0, <2>1 DEF led_timer_func, TypeOK
<1>6. count1' \in [Leds -> Ints]
  <2>1. count1[l] \in Ints /\ value[l] \in Ints BY <1>0 DEF TypeOK
  <2>2. Count1(l) \in Ints BY <2>1, Bounds, SMT DEF Count1, Due, Ints
  <2> QED BY <1>0, <2>2 DEF led_timer_func, TypeOK
<1>7. value' \in [Leds -> Ints]
  <2>1. value[l] \in Ints BY <1>0 DEF TypeOK
  <2>2. Faded(l) \in Ints BY <2>1, Bounds, SMT DEF Faded, Ints
  <2> QED BY <1>0, <2>2 DEF led_timer_func, TypeOK
<1>8. reg' \in [Leds -> [cycle : Halfword, duty : Halfword]]
  <2>1. CASE mode[l] \notin Drawing \union {9}
    BY <1>0, <2>1 DEF led_timer_func, TypeOK, Drawing
  <2>2. CASE mode[l] = 9
    <3>1. Toggled(reg[l]) \in [cycle : Halfword, duty : Halfword]
      BY <1>0, ToggledHalves DEF TypeOK
    <3>2. reg' = reg \/ reg' = [reg EXCEPT ![l] = Toggled(reg[l])]
      BY <2>2 DEF led_timer_func, Drawing
    <3> QED BY <1>0, <3>1, <3>2 DEF TypeOK
  <2>3. CASE mode[l] \in Drawing
    <3>1. Active(l) \in Int
      <4>1. pwm_max \in Int /\ value[l] \in Int /\ pwm_count'[l] \in Int
        BY <1>0, <1>4, IntsInt DEF TypeOK
      <4> QED BY <2>3, <4>1, SMT DEF Active, Drawing
    <3>2. Word(Cycle, Active(l)) \in [cycle : Halfword, duty : Halfword]
      BY <1>0, <3>1, CycleInt, WordHalves DEF TypeOK
    <3>3. reg' = [reg EXCEPT ![l] = Word(Cycle, Active(l))]
      BY <2>3 DEF led_timer_func, Drawing
    <3> QED BY <1>0, <3>2, <3>3 DEF TypeOK
  <2> QED BY <2>1, <2>2, <2>3
<1>9. lasted' \in [Leds -> 0 .. Longest + 1]
  <2>1. lasted[l] \in 0 .. Longest + 1 /\ Longest \in Nat BY <1>0, LedAssumption DEF TypeOK
  <2>2. Lasted(l) \in 0 .. Longest + 1 BY <2>1 DEF Lasted
  <2> QED BY <1>0, <2>2 DEF led_timer_func, TypeOK
<1> QED
  BY <1>0, <1>1, <1>2, <1>3, <1>4, <1>5, <1>6, <1>7, <1>8, <1>9 DEF led_timer_func, TypeOK

LEMMA CommandTyped ==
  ASSUME LedInv, set_func \/ SetFuncStep
  PROVE  TypeOK'
<1>0. TypeOK BY DEF LedInv
<1>1. CASE set_func
  <2>1. Head(script) \in Commands /\ Tail(script) \in Seq(Commands)
    BY <1>0, <1>1 DEF set_func, TypeOK
  <2>2. lasted' \in [Leds -> 0 .. Longest + 1] BY <1>1, LedAssumption DEF set_func
  <2> QED BY <1>0, <1>1, <2>1, <2>2 DEF set_func, TypeOK, Stores, Steps, statics
<1>2. CASE SetFuncStep
  <2>0. store \in Stores /\ store.cmd \in Commands /\ store.cmd.led \in Leds
    BY <1>0, <1>2 DEF SetFuncStep, SetMode, SetValue, led_set_func, ReadValue, WriteValue,
       toggle_led, At, TypeOK, Stores, Commands
  <2>1. CASE SetMode \/ SetValue
    <3>1. store' \in Stores
      BY <2>0, <2>1 DEF SetMode, SetValue, Goto, Stores, Steps
    <3>2. store.cmd.mode \in Ints /\ store.cmd.value \in Ints
      BY <2>0 DEF Commands
    <3>3. CASE SetMode BY <1>0, <2>0, <3>1, <3>2, <3>3 DEF SetMode, TypeOK, statics
    <3>4. CASE SetValue
      BY <1>0, <2>0, <3>1, <3>2, <3>4 DEF SetValue, TypeOK, statics, history
    <3> QED BY <2>1, <3>3, <3>4
  <2>2. CASE led_set_func
    <3>1. MaxFor(store.cmd.led) \in Ints
      <4>1. 100 \in Ints BY SmallInts
      <4> QED BY <1>0, <2>0, <4>1 DEF MaxFor, TypeOK
    <3>2. Word(Cycle, value[store.cmd.led]) \in [cycle : Halfword, duty : Halfword]
      <4>1. value[store.cmd.led] \in Int BY <1>0, <2>0, IntsInt DEF TypeOK
      <4> QED BY <1>0, <4>1, CycleInt, WordHalves DEF TypeOK
    <3>3. store' \in Stores \union {NULL}
      <4>1. reg[store.cmd.led].duty \in Halfword BY <1>0, <2>0 DEF TypeOK
      <4>2. reg[store.cmd.led].duty \in Int BY <4>1, Small
      <4>3. CASE store' = NULL BY <4>3
      <4>4. CASE store' = [store EXCEPT !.step = "invert"]
        BY <2>0, <4>4 DEF Stores, Steps
      <4>5. CASE store' = [store EXCEPT !.step = "toggle", !.temp = reg[store.cmd.led].duty]
        BY <2>0, <4>2, <4>5 DEF Stores, Steps
      <4> QED BY <2>2, <4>3, <4>4, <4>5 DEF led_set_func, Goto
    <3>4. 100 \in Ints BY SmallInts
    <3>5. value' \in [Leds -> Ints]
      <4>1. \/ value' = value
            \/ value' = [value EXCEPT ![store.cmd.led] =
                           IF value[store.cmd.led] > 100 THEN 100 ELSE value[store.cmd.led]]
        BY <1>0, <2>0, <2>2 DEF led_set_func, TypeOK
      <4> QED BY <1>0, <2>0, <3>4, <4>1 DEF TypeOK
    <3>6. reg' \in [Leds -> [cycle : Halfword, duty : Halfword]]
      BY <1>0, <2>0, <2>2, <3>2 DEF led_set_func, TypeOK
    <3>7. pwm_max' \in Ints
      BY <1>0, <2>2, <3>1 DEF led_set_func, TypeOK
    <3>8. UNCHANGED <<loaded, group, armed, mode, pwm_count, pwm_add, count, count1, shown,
                      lasted, script>>
      BY <2>2 DEF led_set_func, statics, history
    <3> QED BY <1>0, <3>3, <3>5, <3>6, <3>7, <3>8 DEF TypeOK
  <2>3. CASE ReadValue
    <3>1. value[store.cmd.led] \in Int BY <1>0, <2>0, IntsInt DEF TypeOK
    <3>2. store' \in Stores
      BY <2>0, <2>3, <3>1 DEF ReadValue, Stores, Steps
    <3> QED BY <1>0, <2>3, <3>2 DEF ReadValue, TypeOK, statics, history
  <2>4. CASE WriteValue
    <3>1. Wrap(100 - store.temp) \in Ints
      <4>1. 100 - store.temp \in Int BY <2>0 DEF Stores
      <4> QED BY <4>1, WrapTyped
    <3> QED BY <1>0, <2>0, <2>4, <3>1 DEF WriteValue, TypeOK, statics, history
  <2>5. CASE toggle_led
    BY <1>0, <2>0, <2>5, ToggledHalves DEF toggle_led, TypeOK, statics, history
  <2> QED BY <1>2, <2>1, <2>2, <2>3, <2>4, <2>5 DEF SetFuncStep
<1> QED BY <1>1, <1>2

-----------------------------------------------------------------------------
(* A command under way.                                                    *)

LEMMA StoringNext == LedInv /\ [Next]_vars => Storing'
<1> SUFFICES ASSUME LedInv, [Next]_vars, store' # NULL PROVE Storing' BY DEF Storing
<1>0. TypeOK BY DEF LedInv
<1>1. CASE pwm_init \/ pwm_exit \/ sysfs_remove_group \/ UNCHANGED vars
  BY <1>0, <1>1 DEF LedInv, Storing, pwm_init, pwm_exit, sysfs_remove_group, vars, statics
<1>2. ASSUME NEW l \in Leds, led_timer_func(l) PROVE Storing'
  <2>1. /\ store # NULL /\ store \in Stores /\ store.cmd.led \in Leds
        /\ store'.cmd = store.cmd /\ store'.step = store.step /\ store'.temp = store.temp
    BY <1>0, <1>2 DEF led_timer_func, Interrupts, TypeOK, Stores, Commands
  <2>2. CASE store.cmd.led = l
    <3>1. /\ value'[l] = Faded(l) /\ mode' = mode /\ loaded' = loaded
          /\ (mode[l] = 5 => reg' = reg)
      BY <1>0, <1>2 DEF led_timer_func, TypeOK, Drawing
    <3>2. value[l] \in Int BY <1>0, IntsInt DEF TypeOK
    <3>3. value[l] <= 100 => Faded(l) <= 100 BY <3>2, SMT DEF Faded
    <3>4. mode[l] = 1 => Faded(l) = value[l] BY SMT DEF Faded
    <3>5. /\ loaded # "out"
          /\ store.step # "mode" => mode[l] = store.cmd.mode
          /\ store.step = "func" /\ mode[l] = 1 => value[l] = store.cmd.value
          /\ store.step = "invert" => mode[l] \in {7, 8} /\ value[l] <= 100
          /\ store.step = "write" => store.temp <= 100
          /\ store.step = "toggle" => mode[l] = 5 /\ store.temp = reg[l].duty
      BY <2>1, <2>2 DEF LedInv, Storing
    <3> QED BY <2>1, <2>2, <3>1, <3>3, <3>4, <3>5 DEF Storing
  <2>3. CASE store.cmd.led # l
    BY <1>0, <1>2, <2>1, <2>3 DEF led_timer_func, LedInv, Storing, TypeOK
  <2> QED BY <2>2, <2>3
<1>3. CASE set_func BY <1>0, <1>3 DEF set_func, LedInv, Disarmed, Storing, statics
<1>4. CASE SetFuncStep
  <2>0. store # NULL /\ store \in Stores /\ store.cmd \in Commands /\ store.cmd.led \in Leds
    BY <1>0, <1>4 DEF SetFuncStep, SetMode, SetValue, led_set_func, ReadValue, WriteValue,
       toggle_led, At, TypeOK, Stores, Commands
  <2>1. CASE SetMode \/ SetValue
    BY <1>0, <2>0, <2>1 DEF SetMode, SetValue, Goto, At, LedInv, Storing, TypeOK, Stores, statics
  <2>2. CASE led_set_func
    <3> DEFINE l == store.cmd.led
    <3>1. /\ loaded # "out" /\ mode[l] = store.cmd.mode /\ store.step = "func"
      BY <2>0, <2>2 DEF led_set_func, At, LedInv, Storing
    <3>2. mode' = mode /\ loaded' = loaded BY <2>2 DEF led_set_func
    <3>3. CASE mode[l] = 5
      <4>1. store' = [store EXCEPT !.step = "toggle", !.temp = reg[l].duty] /\ reg' = reg
        BY <2>2, <3>3 DEF led_set_func
      <4>2. /\ store'.cmd = store.cmd /\ store'.step = "toggle" /\ store'.temp = reg[l].duty
        BY <2>0, <4>1 DEF Stores
      <4> QED BY <3>1, <3>2, <3>3, <4>1, <4>2 DEF Storing
    <3>4. CASE mode[l] \in {7, 8}
      <4>1. store' = [store EXCEPT !.step = "invert"]
        BY <2>2, <3>4 DEF led_set_func, Goto
      <4>2. store'.cmd = store.cmd /\ store'.step = "invert" BY <2>0, <4>1 DEF Stores
      <4>3. value'[l] = IF value[l] > 100 THEN 100 ELSE value[l]
        BY <1>0, <2>0, <2>2, <3>4 DEF led_set_func, TypeOK
      <4>4. value'[l] <= 100
        <5>1. value[l] \in Int BY <1>0, <2>0, IntsInt DEF TypeOK
        <5> QED BY <4>3, <5>1, SMT
      <4> QED BY <3>1, <3>2, <3>4, <4>2, <4>4 DEF Storing
    <3>5. CASE mode[l] \notin {5, 7, 8}
      <4>1. store' = NULL BY <2>2, <3>5 DEF led_set_func
      <4> QED BY <4>1
    <3> QED BY <3>3, <3>4, <3>5
  <2>3. CASE ReadValue
    <3> DEFINE l == store.cmd.led
    <3>1. /\ loaded # "out" /\ mode[l] = store.cmd.mode
          /\ mode[l] \in {7, 8} /\ value[l] <= 100
      BY <2>0, <2>3 DEF ReadValue, At, LedInv, Storing
    <3>2. /\ store'.cmd = store.cmd /\ store'.step = "write" /\ store'.temp = value[l]
          /\ mode' = mode /\ loaded' = loaded
      BY <2>0, <2>3 DEF ReadValue, Stores
    <3> QED BY <3>1, <3>2 DEF Storing
  <2>4. CASE WriteValue \/ toggle_led BY <2>4 DEF WriteValue, toggle_led
  <2> QED BY <1>4, <2>1, <2>2, <2>3, <2>4 DEF SetFuncStep
<1> QED BY <1>1, <1>2, <1>3, <1>4 DEF Next

-----------------------------------------------------------------------------
(* The module and the timers.                                              *)

LEMMA LedInvInit == Init => LedInv
<1> SUFFICES ASSUME Init PROVE LedInv OBVIOUS
<1>1. 0 \in Ints /\ 100 \in Ints /\ 0 \in Halfword /\ 0 \in 0 .. 101 BY Small, SmallInts
<1>2. 0 \in 0 .. Longest + 1 /\ script \in Seq(Commands)
  BY LedAssumption DEF Init
<1>3. TypeOK BY <1>1, <1>2 DEF Init, TypeOK
<1> QED BY <1>3 DEF Init, LedInv, Storing, Disarmed

LEMMA LedInvNext == LedInv /\ [Next]_vars => LedInv'
<1> SUFFICES ASSUME LedInv, [Next]_vars PROVE LedInv' OBVIOUS
<1>1. TypeOK'
  <2>1. CASE pwm_init
    <3>1. 0 \in Ints /\ 4 \in Ints /\ 100 \in Ints /\ 0 \in 0 .. 101 BY SmallInts
    <3>2. 0 \in 0 .. Longest + 1 BY LedAssumption
    <3>3. loaded' \in {"in", "stuck"} /\ group' \in BOOLEAN BY <2>1 DEF pwm_init
    <3> QED BY <2>1, <3>1, <3>2, <3>3 DEF pwm_init, LedInv, TypeOK
  <2>2. CASE pwm_exit \/ sysfs_remove_group \/ UNCHANGED vars
    BY <2>2 DEF pwm_exit, sysfs_remove_group, del_timer, vars, statics, history, LedInv, TypeOK
  <2> QED BY <2>1, <2>2, TickTyped, CommandTyped DEF Next
<1>2. Storing' BY StoringNext
<1>3. Disarmed'
  <2>1. CASE pwm_init BY <2>1 DEF pwm_init, Disarmed
  <2>2. CASE pwm_exit BY <2>2 DEF pwm_exit, del_timer, Disarmed, LedInv
  <2>3. ASSUME NEW l \in Leds, led_timer_func(l) PROVE Disarmed'
    BY <2>3 DEF led_timer_func, LedInv, Disarmed
  <2>4. CASE sysfs_remove_group \/ set_func \/ SetFuncStep \/ UNCHANGED vars
    BY <2>4 DEF sysfs_remove_group, set_func, SetFuncStep, SetMode, SetValue, led_set_func,
       ReadValue, WriteValue, toggle_led, vars, statics, LedInv, Disarmed
  <2> QED BY <2>1, <2>2, <2>3, <2>4 DEF Next
<1> QED BY <1>1, <1>2, <1>3 DEF LedInv

LEMMA LedInvAlways == Spec => []LedInv
BY LedInvInit, LedInvNext, PTL DEF Spec

(* Whatever numbers are written, the counter of modes 2 and 10 stays in    *)
(* the range of its patterns when the mode changes under it, and the other *)
(* statics, the register halves and the command stay well typed            *)
(* (pwm.c:46-154).                                                         *)
THEOREM LedTyped == Spec => []TypeOK
BY LedInvAlways, PTL DEF LedInv

(* Once the module is out no timer is pending (pwm.c:232-239): the handler *)
(* re-arms itself at every tick (64), but none runs after del_timer().     *)
THEOREM NoTimerStays == Spec => []NoTimerLeft
<1>1. LedInv => NoTimerLeft BY DEF LedInv, Disarmed, NoTimerLeft
<1> QED BY <1>1, LedInvAlways, PTL

-----------------------------------------------------------------------------
(* Breaths whose range fits the register.  The code bounds no command: a   *)
(* breath with a range below 50 counts down to -1 (pwm.c:68-74, the lowest *)
(* point is a fiftieth of the range, in integers), which borrows from the  *)
(* upper half of the register, and one above 64250 has a cycle of more     *)
(* than sixteen bits.                                                      *)

FitRange == {m \in Halfword : m >= 50 /\ (m * 51) \div 50 < Size16}

RangesFit == Ranges \subseteq FitRange

(* Values that fit half of a register.  The code bounds these no more than *)
(* the ranges: in modes 6, 7 and 8 a larger or negative one is added to    *)
(* the register and changes its upper half.  A mode takes effect before    *)
(* its value, so the values of the other modes count too.                  *)
ValuesFit == \A s \in Scripts : \A i \in DOMAIN s : s[i].value \in Halfword

(* The commands that are still to come, or under way, ask for ranges of    *)
(* the script, and pwm_max is one of these.                                *)
Asked ==
  /\ pwm_max \in Ranges
  /\ \A i \in DOMAIN script : script[i].mode = 1 => script[i].value \in Ranges
  /\ store # NULL /\ store.cmd.mode = 1 => store.cmd.value \in Ranges

(* The breath never leaves the sixteen bits, wherever pwm_max is moved.    *)
Swing == \A l \in Leds : pwm_count[l] \in Halfword

(* What a shown breath has in the register is what it counted last.        *)
Drawn == \A l \in Leds : mode[l] = 1 /\ shown[l] => reg[l].duty = pwm_count[l]

RangeInv == Asked /\ Swing /\ Drawn

(* What a value is, and will be, if all those written fit.                 *)
Valued ==
  /\ \A l \in Leds : value[l] \in Halfword
  /\ \A i \in DOMAIN script : script[i].value \in Halfword
  /\ store # NULL => /\ store.cmd.value \in Halfword
                     /\ store.step = "write" => store.temp \in 0 .. 100

ValueInv == Valued /\ CycleIntact

LEMMA AskedInit == Init => Asked
<1> SUFFICES ASSUME Init PROVE Asked OBVIOUS
<1>1. script \in Scripts /\ 100 \in Ranges BY DEF Init, Ranges
<1>2. ASSUME NEW i \in DOMAIN script, script[i].mode = 1
      PROVE  script[i].value \in Ranges
  BY <1>1, <1>2 DEF Ranges
<1> QED BY <1>1, <1>2 DEF Init, Asked

LEMMA AskedNext == LedInv /\ Asked /\ [Next]_vars => Asked'
<1> SUFFICES ASSUME LedInv, Asked, [Next]_vars PROVE Asked' OBVIOUS
<1>0. TypeOK /\ 100 \in Ranges BY DEF LedInv, Ranges
<1>1. CASE pwm_init \/ pwm_exit \/ sysfs_remove_group \/ UNCHANGED vars
  BY <1>0, <1>1 DEF pwm_init, pwm_exit, sysfs_remove_group, vars, statics, Asked
<1>2. ASSUME NEW l \in Leds, led_timer_func(l) PROVE Asked'
  BY <1>0, <1>2 DEF led_timer_func, Interrupts, Asked, TypeOK, Stores
<1>3. CASE set_func
  <2>1. /\ \A i \in DOMAIN Tail(script) : i + 1 \in DOMAIN script /\ Tail(script)[i] = script[i + 1]
        /\ 1 \in DOMAIN script /\ Head(script) = script[1]
    BY <1>0, <1>3 DEF set_func, TypeOK
  <2> QED BY <1>3, <2>1 DEF set_func, Asked
<1>4. CASE SetFuncStep
  <2>0. store # NULL /\ store \in Stores /\ store.cmd \in Commands /\ store.cmd.led \in Leds
    BY <1>0, <1>4 DEF SetFuncStep, SetMode, SetValue, led_set_func, ReadValue, WriteValue,
       toggle_led, At, TypeOK, Stores, Commands
  <2>1. CASE SetMode \/ SetValue \/ ReadValue \/ WriteValue \/ toggle_led
    BY <2>0, <2>1 DEF SetMode, SetValue, ReadValue, WriteValue, toggle_led, Goto, Asked, Stores
  <2>2. CASE led_set_func
    <3>1. mode[store.cmd.led] = 1 => value[store.cmd.led] \in Ranges
      BY <2>0, <2>2 DEF led_set_func, At, LedInv, Storing, Asked
    <3>2. pwm_max' \in Ranges
      BY <1>0, <2>2, <3>1 DEF led_set_func, MaxFor, Asked
    <3>3. store' # NULL => store'.cmd = store.cmd
      BY <2>0, <2>2 DEF led_set_func, Goto, Stores
    <3> QED BY <2>0, <2>2, <3>2, <3>3 DEF led_set_func, Asked
  <2> QED BY <1>4, <2>1, <2>2 DEF SetFuncStep
<1> QED BY <1>1, <1>2, <1>3, <1>4 DEF Next

LEMMA FitFacts ==
  \A m \in FitRange :
    /\ m \in Halfword /\ (m * 51) \div 50 \in Halfword
    /\ m + 10 \in Halfword /\ m + 1 \in Halfword
    /\ m \div 50 \in 1 .. m
    /\ m \in Nat /\ m * 51 \in Nat /\ m * 51 \in Ints
<1> SUFFICES ASSUME NEW m \in FitRange
             PROVE  /\ m \in Halfword /\ (m * 51) \div 50 \in Halfword
                    /\ m + 10 \in Halfword /\ m + 1 \in Halfword
                    /\ m \div 50 \in 1 .. m
                    /\ m \in Nat /\ m * 51 \in Nat /\ m * 51 \in Ints
  OBVIOUS
<1>1. m \in Int /\ m >= 50 /\ (m * 51) \div 50 < Size16 /\ m < Size16 /\ m \in Halfword
  BY HalfInt DEF FitRange
<1>2. m < 100000 BY <1>1, Bounds, Sixteen, SMT
<1>3. m * 51 \in Nat /\ m * 51 <= 10000000 BY <1>1, <1>2, SMT
<1>4. m * 51 \in Ints
  <2> HIDE DEF FitRange
  <2> DEFINE p == m * 51
  <2>1. p \in Int /\ p >= -10000000 /\ p <= 10000000 BY <1>3, SMT
  <2> HIDE DEF p
  <2>2. p \in Ints BY <2>1, InInts
  <2> QED BY <2>2 DEF p
<1>5. m \div 50 \in 1 .. m BY <1>1, SMT
<1>6. m + 10 < Size16 /\ (m * 51) \div 50 >= 0 /\ (m * 51) \div 50 \in Int
  <2> DEFINE c == (m * 51) \div 50
  <2>1. c \in Int /\ c >= 0 /\ m * 51 < 50 * c + 50 BY <1>1, SMT
  <2>2. c < Size16 BY <1>1
  <2> HIDE DEF c
  <2>3. m + 10 < Size16 BY <1>1, <2>1, <2>2, Sixteen, SMT
  <2> QED BY <2>1, <2>3 DEF c
<1>7. (m * 51) \div 50 \in Halfword
  <2> DEFINE c == (m * 51) \div 50
  <2>1. c \in Int /\ c >= 0 /\ c < Size16 BY <1>1, <1>6
  <2> HIDE DEF c
  <2>2. c \in Halfword BY <2>1, Sixteen, SMT DEF Halfword
  <2> QED BY <2>2 DEF c
<1>8. m + 10 \in Halfword /\ m + 1 \in Halfword
  BY <1>1, <1>6, Sixteen, SMT DEF Halfword
<1> QED BY <1>1, <1>3, <1>4, <1>5, <1>7, <1>8

LEMMA RangeInvInit == Init => RangeInv
BY AskedInit, Small DEF Init, RangeInv, Swing, Drawn

LEMMA Fits ==
  RangesFit /\ Asked => /\ pwm_max \in FitRange /\ Cycle \in Halfword
                        /\ Cycle = (pwm_max * 51) \div 50
                        /\ Fiftieth(pwm_max) = pwm_max \div 50
<1> SUFFICES ASSUME RangesFit, Asked
             PROVE  /\ pwm_max \in FitRange /\ Cycle \in Halfword
                    /\ Cycle = (pwm_max * 51) \div 50
                    /\ Fiftieth(pwm_max) = pwm_max \div 50
  OBVIOUS
<1>1. pwm_max \in FitRange BY DEF RangesFit, Asked
<1>2. /\ pwm_max \in Nat /\ pwm_max * 51 \in Nat /\ pwm_max * 51 \in Ints
      /\ (pwm_max * 51) \div 50 \in Halfword
  BY <1>1, FitFacts
<1>3. Wrap(pwm_max * 51) = pwm_max * 51 BY <1>2, WrapFits
<1> QED BY <1>1, <1>2, <1>3, FiftiethTyped DEF Cycle

LEMMA ToggledFits ==
  ASSUME pwm_max \in FitRange, NEW r
  PROVE  Toggled(r) = [cycle |-> pwm_max, duty |-> IF r.duty # 0 THEN 0 ELSE pwm_max + 10]
<1>1. pwm_max \in Halfword /\ pwm_max + 10 \in Halfword /\ 0 \in Halfword
  BY FitFacts, Small
<1>2. CASE r.duty # 0
  <2>1. Toggled(r) = Word(pwm_max, 0) BY <1>2 DEF Toggled
  <2> QED BY <1>1, <1>2, <2>1, WordFits
<1>3. CASE r.duty = 0
  <2>1. Toggled(r) = Word(pwm_max, pwm_max + 10) BY <1>3 DEF Toggled
  <2> QED BY <1>1, <1>3, <2>1, WordFits
<1> QED BY <1>2, <1>3

(* A tick keeps the breath within its range, and draws what it counted.    *)
LEMMA TickRange ==
  ASSUME RangesFit, LedInv, RangeInv, NEW l \in Leds, led_timer_func(l)
  PROVE  Swing' /\ Drawn'
<1>0. TypeOK /\ Asked BY DEF LedInv, RangeInv
<1>1. /\ pwm_max \in FitRange /\ Cycle \in Halfword /\ pwm_max' = pwm_max
      /\ Fiftieth(pwm_max) = pwm_max \div 50
  BY <1>0, Fits DEF led_timer_func
<1>2. pwm_count'[l] \in Halfword
  <2>1. pwm_count'[l] = Wrap(IF Rising(l) THEN pwm_count[l] + 1 ELSE pwm_count[l] - 1)
    BY <1>0 DEF led_timer_func, TypeOK
  <2>2. pwm_count[l] \in Halfword BY DEF RangeInv, Swing
  <2>3. /\ pwm_max \div 50 \in 1 .. pwm_max /\ pwm_max \in Halfword
        /\ pwm_max + 1 \in Halfword
    BY <1>1, FitFacts
  <2>4. CASE Rising(l)
    <3>1. pwm_count[l] <= pwm_max
      <4>1. ~(pwm_count[l] > pwm_max) BY <2>4 DEF Rising
      <4> QED BY <2>2, <2>3, <4>1, HalfInt, SMT
    <3>2. pwm_count[l] + 1 \in Halfword
      BY <2>2, <2>3, <3>1, Sixteen, SMT DEF Halfword
    <3> QED BY <2>1, <2>4, <3>2, WrapFits, SmallInts
  <2>5. CASE ~Rising(l)
    <3>1. pwm_count[l] # 0
      BY <1>1, <2>2, <2>3, <2>5, Small DEF Rising
    <3>2. pwm_count[l] - 1 \in Halfword
      BY <2>2, <3>1, Sixteen, SMT DEF Halfword
    <3> QED BY <2>1, <2>5, <3>2, WrapFits, SmallInts
  <2> QED BY <2>4, <2>5
<1>3. Swing' BY <1>0, <1>2 DEF led_timer_func, RangeInv, Swing, TypeOK
<1>4. CASE mode[l] \notin Drawing
  <2>1. mode[l] # 1 BY <1>4 DEF Drawing
  <2> QED BY <1>0, <1>3, <1>4, <2>1 DEF led_timer_func, RangeInv, Drawn, TypeOK
<1>5. CASE mode[l] \in Drawing
  <2>1. reg' = [reg EXCEPT ![l] = Word(Cycle, Active(l))]
    BY <1>5 DEF led_timer_func, Drawing
  <2>2. mode[l] = 1 => reg'[l].duty = pwm_count'[l]
    <3>1. mode[l] = 1 => Active(l) = pwm_count'[l] BY SMT DEF Active
    <3>2. Word(Cycle, pwm_count'[l]) = [cycle |-> Cycle, duty |-> pwm_count'[l]]
      BY <1>1, <1>2, WordFits
    <3> QED BY <1>0, <2>1, <3>1, <3>2 DEF TypeOK
  <2> QED BY <1>0, <1>3, <2>1, <2>2 DEF led_timer_func, RangeInv, Drawn, TypeOK
<1> QED BY <1>4, <1>5

LEMMA CommandRange ==
  ASSUME RangesFit, LedInv, RangeInv, set_func \/ SetFuncStep
  PROVE  Swing' /\ Drawn'
<1>0. TypeOK /\ Asked BY DEF LedInv, RangeInv
<1>1. Swing'
  BY DEF set_func, SetFuncStep, SetMode, SetValue, led_set_func, ReadValue, WriteValue,
     toggle_led, statics, RangeInv, Swing
<1>2. CASE set_func BY <1>1, <1>2 DEF set_func, statics, RangeInv, Drawn
<1>3. CASE SetFuncStep
  <2>0. store # NULL /\ store.cmd.led \in Leds
    BY <1>0, <1>3 DEF SetFuncStep, SetMode, SetValue, led_set_func, ReadValue, WriteValue,
       toggle_led, At, TypeOK, Stores, Commands
  <2>1. CASE SetMode \/ SetValue \/ ReadValue \/ WriteValue
    <3>1. reg' = reg /\ pwm_count' = pwm_count
      BY <2>1 DEF SetMode, SetValue, ReadValue, WriteValue, statics
    <3>2. \A l \in Leds : mode'[l] = 1 /\ shown'[l] => mode[l] = 1 /\ shown[l]
      <4>1. CASE SetMode BY <1>0, <2>0, <4>1 DEF SetMode, TypeOK
      <4>2. CASE SetValue \/ ReadValue \/ WriteValue
        BY <4>2 DEF SetValue, ReadValue, WriteValue, history
      <4> QED BY <2>1, <4>1, <4>2
    <3> QED BY <1>1, <3>1, <3>2 DEF RangeInv, Drawn
  <2>2. CASE led_set_func \/ toggle_led
    <3>1. mode[store.cmd.led] # 1 \/ reg' = reg
      BY <2>0, <2>2 DEF led_set_func, toggle_led, At, LedInv, Storing
    <3>2. /\ \A l \in Leds : l # store.cmd.led => reg'[l] = reg[l]
          /\ mode' = mode /\ shown' = shown /\ pwm_count' = pwm_count
      BY <1>0, <2>2 DEF led_set_func, toggle_led, statics, history, TypeOK
    <3> QED BY <1>1, <2>0, <3>1, <3>2 DEF RangeInv, Drawn
  <2> QED BY <1>3, <2>1, <2>2 DEF SetFuncStep
<1> QED BY <1>2, <1>3

LEMMA RangeInvNext == RangesFit /\ LedInv /\ RangeInv /\ [Next]_vars => RangeInv'
<1> SUFFICES ASSUME RangesFit, LedInv, RangeInv, [Next]_vars PROVE RangeInv' OBVIOUS
<1>1. Asked' BY AskedNext DEF RangeInv
<1>2. Swing' /\ Drawn'
  <2>1. CASE pwm_init BY <2>1, Small DEF pwm_init, Swing, Drawn
  <2>2. CASE pwm_exit \/ sysfs_remove_group \/ UNCHANGED vars
    BY <2>2 DEF pwm_exit, sysfs_remove_group, vars, statics, history, RangeInv, Swing, Drawn
  <2> QED BY <2>1, <2>2, TickRange, CommandRange DEF Next
<1> QED BY <1>1, <1>2 DEF RangeInv

LEMMA RangeInvAlways == ASSUME RangesFit PROVE Spec => [](LedInv /\ RangeInv)
<1>1. Init => LedInv /\ RangeInv BY LedInvInit, RangeInvInit
<1>2. LedInv /\ RangeInv /\ [Next]_vars => (LedInv /\ RangeInv)'
  BY RangesFit, LedInvNext, RangeInvNext
<1> QED BY <1>1, <1>2, PTL DEF Spec

-----------------------------------------------------------------------------
(* The upper half of the register, when the values fit too.                *)

LEMMA ValueInvInit == ValuesFit /\ Init => ValueInv
<1> SUFFICES ASSUME ValuesFit, Init PROVE ValueInv OBVIOUS
<1>1. \A i \in DOMAIN script : script[i].value \in Halfword BY DEF Init, ValuesFit
<1> QED BY <1>1, Small DEF Init, ValueInv, Valued, CycleIntact

LEMMA ValuedNext == LedInv /\ Valued /\ [Next]_vars => Valued'
<1> SUFFICES ASSUME LedInv, Valued, [Next]_vars PROVE Valued' OBVIOUS
<1>0. TypeOK BY DEF LedInv
<1>1. CASE pwm_init \/ pwm_exit \/ sysfs_remove_group \/ UNCHANGED vars
  BY <1>1, Small DEF pwm_init, pwm_exit, sysfs_remove_group, vars, Valued
<1>2. ASSUME NEW l \in Leds, led_timer_func(l) PROVE Valued'
  <2>1. Faded(l) \in Halfword
    <3>1. value[l] \in Halfword BY DEF Valued
    <3> QED BY <3>1, Sixteen, SMT DEF Faded, Halfword
  <2>2. /\ value' = [value EXCEPT ![l] = Faded(l)] /\ script' = script
        /\ store' # NULL => /\ store # NULL /\ store'.cmd = store.cmd
                            /\ store'.step = store.step /\ store'.temp = store.temp
    BY <1>0, <1>2 DEF led_timer_func, Interrupts, TypeOK, Stores
  <2> QED BY <1>0, <2>1, <2>2 DEF Valued, TypeOK
<1>3. CASE set_func
  <2>1. /\ \A i \in DOMAIN Tail(script) : i + 1 \in DOMAIN script /\ Tail(script)[i] = script[i + 1]
        /\ 1 \in DOMAIN script /\ Head(script) = script[1]
    BY <1>0, <1>3 DEF set_func, TypeOK
  <2> QED BY <1>3, <2>1 DEF set_func, Valued
<1>4. CASE SetFuncStep
  <2> DEFINE l == store.cmd.led
  <2>0. store # NULL /\ store \in Stores /\ store.cmd \in Commands /\ l \in Leds
    BY <1>0, <1>4 DEF SetFuncStep, SetMode, SetValue, led_set_func, ReadValue, WriteValue,
       toggle_led, At, TypeOK, Stores, Commands
  <2>1. CASE SetMode \/ SetValue
    <3>1. store'.cmd = store.cmd /\ store'.step # "write" /\ script' = script
      BY <2>0, <2>1 DEF SetMode, SetValue, Goto, Stores
    <3>2. value' = value \/ value' = [value EXCEPT ![l] = store.cmd.value]
      BY <2>1 DEF SetMode, SetValue
    <3>3. store.cmd.value \in Halfword BY <2>0 DEF Valued
    <3> QED BY <1>0, <2>0, <3>1, <3>2, <3>3 DEF Valued, TypeOK
  <2>2. CASE led_set_func
    <3>1. \/ value' = value
          \/ value' = [value EXCEPT ![l] = IF value[l] > 100 THEN 100 ELSE value[l]]
      BY <1>0, <2>0, <2>2 DEF led_set_func, TypeOK
    <3>2. \A j \in Leds : value'[j] \in Halfword
      <4>1. 100 \in Halfword BY Small
      <4>2. \A j \in Leds : value[j] \in Halfword BY DEF Valued
      <4>3. \A j \in Leds : value'[j] = value[j] \/ value'[j] = 100
        BY <1>0, <2>0, <3>1 DEF TypeOK
      <4> QED BY <4>1, <4>2, <4>3
    <3>3. store' # NULL => store'.cmd = store.cmd /\ store'.step # "write"
      BY <2>0, <2>2 DEF led_set_func, Goto, Stores
    <3> QED BY <2>0, <2>2, <3>2, <3>3 DEF led_set_func, Valued
  <2>3. CASE ReadValue
    <3>1. value[l] \in 0 .. 100
      <4>1. value[l] \in Halfword /\ value[l] <= 100
        BY <2>0, <2>3 DEF ReadValue, At, LedInv, Storing, Valued
      <4> QED BY <4>1, HalfInt, SMT
    <3>2. store'.cmd = store.cmd /\ store'.temp = value[l] /\ value' = value /\ script' = script
      BY <2>0, <2>3 DEF ReadValue, Stores
    <3> QED BY <2>0, <3>1, <3>2 DEF Valued
  <2>4. CASE WriteValue
    <3>1. store.temp \in 0 .. 100 BY <2>0, <2>4 DEF WriteValue, At, Valued
    <3>2. 100 - store.temp \in 0 .. 100 BY <3>1, SMT
    <3>3. Wrap(100 - store.temp) \in Halfword
      BY <3>2, Small, SmallInts, WrapFits
    <3> QED BY <1>0, <2>4, <3>3 DEF WriteValue, Valued, TypeOK
  <2>5. CASE toggle_led BY <2>5 DEF toggle_led, Valued
  <2> QED BY <1>4, <2>1, <2>2, <2>3, <2>4, <2>5 DEF SetFuncStep
<1> QED BY <1>1, <1>2, <1>3, <1>4 DEF Next

(* A step leaves the register alone, toggles it, or writes a cycle of the  *)
(* range with active cycles that fit.                                      *)
LEMMA CycleNext ==
  ASSUME RangesFit, LedInv, RangeInv, Swing', ValueInv, [Next]_vars
  PROVE  CycleIntact'
<1>0. TypeOK /\ Asked BY DEF LedInv, RangeInv
<1>1. /\ pwm_max \in FitRange /\ pwm_max \in Ranges /\ Cycle \in Halfword
      /\ Cycle = (pwm_max * 51) \div 50
  BY <1>0, Fits DEF Asked
<1>2. CASE reg' = reg BY <1>2 DEF ValueInv, CycleIntact
<1>3. ASSUME NEW l \in Leds, NEW r, reg' = [reg EXCEPT ![l] = Toggled(r)]
      PROVE  CycleIntact'
  <2>1. Toggled(r).cycle = pwm_max /\ Toggled(r).duty \in {0, pwm_max + 10}
    BY <1>1, ToggledFits
  <2> QED BY <1>0, <1>1, <1>3, <2>1 DEF ValueInv, CycleIntact, TypeOK
<1>4. ASSUME NEW l \in Leds, NEW x \in Halfword, reg' = [reg EXCEPT ![l] = Word(Cycle, x)]
      PROVE  CycleIntact'
  <2>1. Word(Cycle, x).cycle = Cycle BY <1>1, WordFits
  <2> QED BY <1>0, <1>1, <1>4, <2>1 DEF ValueInv, CycleIntact, TypeOK
<1>5. ASSUME NEW l \in Leds, led_timer_func(l) PROVE CycleIntact'
  <2>1. CASE mode[l] \notin Drawing
    <3>1. reg' = reg \/ reg' = [reg EXCEPT ![l] = Toggled(reg[l])]
      BY <1>5, <2>1 DEF led_timer_func
    <3> QED BY <1>2, <1>3, <3>1
  <2>2. CASE mode[l] \in Drawing
    <3>1. Active(l) \in Halfword
      <4>1. /\ pwm_max \in Halfword /\ pwm_max + 10 \in Halfword /\ 0 \in Halfword
            /\ value[l] \in Halfword /\ pwm_count'[l] \in Halfword
        BY <1>1, FitFacts, Small DEF Swing, ValueInv, Valued
      <4> QED BY <2>2, <4>1, SMT DEF Active, Drawing
    <3>2. reg' = [reg EXCEPT ![l] = Word(Cycle, Active(l))]
      BY <1>5, <2>2 DEF led_timer_func, Drawing
    <3> QED BY <1>4, <3>1, <3>2
  <2> QED BY <2>1, <2>2
<1>6. CASE SetFuncStep
  <2>0. store.cmd.led \in Leds
    BY <1>0, <1>6 DEF SetFuncStep, SetMode, SetValue, led_set_func, ReadValue, WriteValue,
       toggle_led, At, TypeOK, Stores, Commands
  <2>1. CASE SetMode \/ SetValue \/ ReadValue \/ WriteValue
    BY <1>2, <2>1 DEF SetMode, SetValue, ReadValue, WriteValue
  <2>2. CASE led_set_func
    <3>1. value[store.cmd.led] \in Halfword BY <2>0 DEF ValueInv, Valued
    <3>2. \/ reg' = reg
          \/ reg' = [reg EXCEPT ![store.cmd.led] = Word(Cycle, value[store.cmd.led])]
      BY <2>2 DEF led_set_func
    <3> QED BY <1>2, <1>4, <2>0, <3>1, <3>2
  <2>3. CASE toggle_led
    <3>1. PICK r : reg' = [reg EXCEPT ![store.cmd.led] = Toggled(r)]
      BY <2>3 DEF toggle_led
    <3> QED BY <1>3, <2>0, <3>1
  <2> QED BY <1>6, <2>1, <2>2, <2>3 DEF SetFuncStep
<1>7. CASE pwm_init \/ pwm_exit \/ sysfs_remove_group \/ set_func \/ UNCHANGED vars
  BY <1>2, <1>7 DEF pwm_init, pwm_exit, sysfs_remove_group, set_func, vars
<1> QED BY <1>5, <1>6, <1>7 DEF Next

(* As long as every breath is given a range of 50 to 64250 and every value *)
(* written fits sixteen bits, the upper half of a period register is       *)
(* always one the code chose: neither the swing of a breath whose range    *)
(* other commands move, nor a value, nor a toggle ever spills into it      *)
(* (pwm.c:49-60, 66-87, 90-106).                                           *)
THEOREM CycleStaysIntact == ASSUME RangesFit, ValuesFit PROVE Spec => []CycleIntact
<1>1. Init => LedInv /\ RangeInv /\ ValueInv
  BY ValuesFit, LedInvInit, RangeInvInit, ValueInvInit
<1>2. LedInv /\ RangeInv /\ ValueInv /\ [Next]_vars => (LedInv /\ RangeInv /\ ValueInv)'
  <2> SUFFICES ASSUME LedInv, RangeInv, ValueInv, [Next]_vars
               PROVE  (LedInv /\ RangeInv /\ ValueInv)'
    OBVIOUS
  <2>1. LedInv' /\ RangeInv' BY RangesFit, LedInvNext, RangeInvNext
  <2>2. Valued' BY ValuedNext DEF ValueInv
  <2>3. CycleIntact' BY <2>1, RangesFit, CycleNext DEF RangeInv
  <2> QED BY <2>1, <2>2, <2>3 DEF ValueInv
<1>3. ValueInv => CycleIntact BY DEF ValueInv
<1> QED BY <1>1, <1>2, <1>3, PTL DEF Spec

(* With such ranges a breath never jumps: from one tick to the next the    *)
(* active cycles move by one (pwm.c:68-74), whatever the commands for the  *)
(* other LED do to the range they share.                                   *)
THEOREM BreathIsSmooth == ASSUME RangesFit PROVE Spec => BreathSmooth
<1> DEFINE Smooth == \A l \in Ticking :
                       mode[l] = 1 /\ shown[l] /\ mode'[l] = 1 =>
                         reg'[l].duty - reg[l].duty \in -1 .. 1
<1>1. LedInv /\ RangeInv /\ (LedInv /\ RangeInv)' /\ [Next]_vars => [Smooth]_vars
  <2> SUFFICES ASSUME LedInv, RangeInv, RangeInv', LedInv', Next,
                      NEW l \in Ticking, mode[l] = 1, shown[l], mode'[l] = 1
               PROVE  reg'[l].duty - reg[l].duty \in -1 .. 1
    OBVIOUS
  <2>0. l \in Leds /\ TypeOK /\ TypeOK' BY LedAssumption DEF LedInv
  <2>1. reg[l].duty = pwm_count[l] /\ pwm_count[l] \in Int
    <3>1. pwm_count[l] \in Int BY <2>0, IntsInt DEF TypeOK
    <3> QED BY <2>0, <3>1 DEF RangeInv, Drawn
  <2>2. CASE led_timer_func(l)
    <3>1. shown'[l] BY <2>0, <2>2 DEF led_timer_func, TypeOK
    <3>2. reg'[l].duty = pwm_count'[l] BY <2>0, <3>1 DEF RangeInv, Drawn
    <3>3. pwm_count'[l] \in {pwm_count[l] + 1, pwm_count[l] - 1}
      <4>1. pwm_count'[l] \in {Wrap(pwm_count[l] + 1), Wrap(pwm_count[l] - 1)}
        BY <2>0, <2>2 DEF led_timer_func, TypeOK
      <4>2. pwm_count[l] \in Halfword BY <2>0 DEF RangeInv, Swing
      <4>3. pwm_count[l] + 1 \in Ints /\ pwm_count[l] - 1 \in Ints
        <5>1. /\ pwm_count[l] \in Int /\ pwm_count[l] >= 0 /\ pwm_count[l] < 100000
          BY <4>2, HalfInt, Bounds, Sixteen, SMT
        <5>2. \A i \in {1, -1} : /\ pwm_count[l] + i \in Int
                                /\ pwm_count[l] + i >= -10000000
                                /\ pwm_count[l] + i <= 10000000
          BY <5>1, SMT
        <5> QED BY <5>1, <5>2, InInts, SMT
      <4> QED BY <4>1, <4>3, WrapFits
    <3> QED BY <2>1, <3>2, <3>3
  <2>3. CASE ~led_timer_func(l)
    <3>1. reg'[l] = reg[l]
      <4>1. CASE \E j \in Leds : led_timer_func(j)
        <5>1. PICK j \in Leds : led_timer_func(j) BY <4>1
        <5>2. j # l BY <2>3, <5>1
        <5> QED BY <2>0, <5>1, <5>2 DEF led_timer_func, TypeOK
      <4>2. CASE led_set_func
        BY <2>0, <4>2 DEF led_set_func, TypeOK
      <4>3. CASE toggle_led
        <5>1. mode[store.cmd.led] = 5 BY <4>3 DEF toggle_led, At, LedInv, Storing
        <5> QED BY <2>0, <4>3, <5>1 DEF toggle_led, TypeOK
      <4>4. CASE \/ pwm_init \/ pwm_exit \/ sysfs_remove_group \/ set_func
                 \/ SetMode \/ SetValue \/ ReadValue \/ WriteValue
        BY <4>4 DEF pwm_init, pwm_exit, sysfs_remove_group, set_func, SetMode, SetValue,
           ReadValue, WriteValue
      <4> QED BY <4>1, <4>2, <4>3, <4>4 DEF Next, SetFuncStep
    <3> QED BY <2>1, <3>1
  <2> QED BY <2>2, <2>3
<1>2. Spec => [][Smooth]_vars BY <1>1, RangeInvAlways, PTL DEF Spec
<1> QED BY <1>2 DEF BreathSmooth

(* With such ranges a toggle command leaves the LED lit if it was dark     *)
(* when it took effect and dark if it was lit, however its timer falls     *)
(* between the read and the write of the register (pwm.c:49-60, 101).      *)
THEOREM ToggleAlwaysInverts == ASSUME RangesFit PROVE Spec => ToggleInverts
<1> DEFINE Inverts == At("toggle") /\ store' = NULL =>
                        LET l == store.cmd.led IN (reg'[l].duty = 0) <=> (reg[l].duty # 0)
<1>1. LedInv /\ RangeInv /\ [Next]_vars => [Inverts]_vars
  <2> SUFFICES ASSUME LedInv, RangeInv, Next, At("toggle"), store' = NULL
               PROVE  (reg'[store.cmd.led].duty = 0) <=> (reg[store.cmd.led].duty # 0)
    OBVIOUS
  <2>0. TypeOK /\ Asked BY DEF LedInv, RangeInv
  <2>1. store # NULL /\ store \in Stores /\ store.cmd.led \in Leds /\ store.step = "toggle"
    BY <2>0 DEF At, TypeOK, Stores, Commands
  <2>2. loaded # "out" /\ store.temp = reg[store.cmd.led].duty
    BY <2>1 DEF LedInv, Storing
  <2>3. toggle_led
    <3>1. ~ \E l \in Leds : led_timer_func(l)
      BY <2>1, LedAssumption DEF led_timer_func, Interrupts, Stores
    <3>2. ~ (set_func \/ pwm_init \/ pwm_exit \/ sysfs_remove_group)
      BY <2>1, <2>2 DEF set_func, pwm_init, pwm_exit, sysfs_remove_group
    <3>3. ~ (SetMode \/ SetValue \/ led_set_func \/ ReadValue \/ WriteValue)
      BY <2>1 DEF SetMode, SetValue, led_set_func, ReadValue, WriteValue, At
    <3> QED BY <3>1, <3>2, <3>3 DEF Next, SetFuncStep
  <2> DEFINE R == [reg[store.cmd.led] EXCEPT !.duty = store.temp]
  <2>4. reg'[store.cmd.led] = Toggled(R)
    BY <2>0, <2>1, <2>3 DEF toggle_led, TypeOK
  <2>5. R.duty = reg[store.cmd.led].duty
    BY <2>0, <2>1, <2>2 DEF TypeOK
  <2> HIDE DEF R
  <2>6. Toggled(R).duty = IF R.duty # 0 THEN 0 ELSE pwm_max + 10
    BY <2>0, Fits, ToggledFits
  <2>7. pwm_max + 10 # 0
    <3>1. pwm_max \in Halfword BY <2>0, Fits, FitFacts
    <3> QED BY <3>1, HalfInt, SMT
  <2> QED BY <2>4, <2>5, <2>6, <2>7
<1>2. Spec => [][Inverts]_vars BY <1>1, RangeInvAlways, PTL DEF Spec
<1> QED BY <1>2 DEF ToggleInverts
=============================================================================
