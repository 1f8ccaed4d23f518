------------------------------ MODULE LedTimer ------------------------------
(***************************************************************************)
(* The LED driver of src/pwm/pwm.c: a sysfs file takes commands "led mode  *)
(* value", and one timer per LED, re-armed by its own handler at every     *)
(* jiffy, draws the pattern of the LED's mode into the LED's PWM period    *)
(* register.  The LEDs are active low: no active cycles is fully lit.      *)
(*                                                                         *)
(* The two handlers and the two led_set_func are the same code for LED 0   *)
(* and LED 1, each with its own statics and register; they share pwm_max,  *)
(* which only commands write.  A handler runs in a softirq: nothing        *)
(* interrupts it here, while it may interrupt a command between any two    *)
(* of its assignments.                                                     *)
(***************************************************************************)
EXTENDS Integers, Sequences

CONSTANTS
  Leds,        \* the LEDs, out of 0 and 1
  Ticking,     \* those of them whose timer is followed
  Scripts,     \* bound: the commands written to the file, parsed; one of these
               \* sequences in each behaviour, at any times
  Longest,     \* bound: the history counts this many ticks, no more
  NULL

(* Half of a register has sixteen bits.                                    *)
Size16 == 256 * 256
Halfword == 0 .. Size16 - 1

(* An int, which wraps around (the kernel's -fno-strict-overflow).         *)
IntMax == 2147483647
IntMin == -2147483647 - 1
Ints == IntMin .. IntMax

Wrap(x) == IF x \in Ints THEN x ELSE ((x - IntMin) % (IntMax - IntMin + 1)) + IntMin

(* x / 50, which rounds towards zero.                                      *)
Fiftieth(x) == IF x >= 0 THEN x \div 50 ELSE -((-x) \div 50)

Steps == {"mode", "value", "func", "invert", "write", "toggle"}

(* simple_strtoul() takes any number; a command for no LED does nothing.   *)
Commands == [led : Leds, mode : Ints, value : Ints]

Stores == [cmd : Commands, step : Steps, temp : Int, ticked : BOOLEAN]

ASSUME LedAssumption ==
  /\ Leds \subseteq {0, 1} /\ Ticking \subseteq Leds
  /\ Scripts \subseteq Seq(Commands)
  /\ Longest \in Nat
  /\ NULL \notin Stores

VARIABLES
  loaded,      \* the module: "out", "in", "leaving", or "stuck" in its init
  group,       \* is the sysfs group with the file there?
  armed,       \* armed[l]: is the LED's timer pending?
  mode,        \* mode[l]: pwm0_mode, pwm1_mode
  value,       \* value[l]: pwm0_value, pwm1_value
  pwm_max,     \* shared by both LEDs
  pwm_count,   \* the static of the handler that rises and falls
  pwm_add,     \* does it rise?
  count,       \* the static that modes 2 and 10 count with
  count1,      \* the static that mode 9 counts with
  reg,         \* reg[l]: the period register, its two halves
  store,       \* the command in set_func: what is left of it, or NULL
  shown,       \* history: has a tick shown the LED's current command?
  lasted,      \* history: the ticks that have shown the LED lit, or dark, since
               \* it last switched; 0 before it does so after a command
  script       \* the commands still to come

statics == <<pwm_count, pwm_add, count, count1>>
history == <<shown, lasted>>
vars == <<loaded, group, armed, mode, value, pwm_max, statics, reg, store, history, script>>

TypeOK ==
  /\ loaded \in {"out", "in", "leaving", "stuck"}
  /\ group \in BOOLEAN
  /\ armed \in [Leds -> BOOLEAN]
  /\ mode \in [Leds -> Ints]
  /\ value \in [Leds -> Ints]
  /\ pwm_max \in Ints
  /\ pwm_count \in [Leds -> Ints]
  /\ pwm_add \in [Leds -> BOOLEAN]
  /\ count \in [Leds -> 0 .. 101]
  /\ count1 \in [Leds -> Ints]
  /\ reg \in [Leds -> [cycle : Halfword, duty : Halfword]]
  /\ store \in Stores \union {NULL}
  /\ shown \in [Leds -> BOOLEAN]
  /\ lasted \in [Leds -> 0 .. Longest + 1]
  /\ script \in Seq(Commands)

Init ==
  /\ loaded = "out" /\ group = FALSE
  /\ armed = [l \in Leds |-> FALSE]
  /\ mode = [l \in Leds |-> 0] /\ value = [l \in Leds |-> 0]
  /\ pwm_max = 100
  /\ pwm_count = [l \in Leds |-> 0] /\ pwm_add = [l \in Leds |-> FALSE]
  /\ count = [l \in Leds |-> 0] /\ count1 = [l \in Leds |-> 0]
  /\ reg = [l \in Leds |-> [cycle |-> 0, duty |-> 0]]
  /\ store = NULL
  /\ shown = [l \in Leds |-> FALSE] /\ lasted = [l \in Leds |-> 0]
  /\ script \in Scripts

-----------------------------------------------------------------------------
(* The period register: reg2 = cycle << 16, and x added to it in 32 bits.  *)

Word(cycle, x) ==
  [cycle |-> (cycle + x \div Size16) % Size16, duty |-> x % Size16]

Cycle == Fiftieth(Wrap(pwm_max * 51))

(* Fault: a LED that is partly lit counts as lit.                          *)
Toggled_Partly(r) == Word(pwm_max, IF r.duty >= pwm_max THEN 0 ELSE pwm_max + 10)

Toggled(r) == Word(pwm_max, IF r.duty # 0 THEN 0 ELSE pwm_max + 10)

-----------------------------------------------------------------------------
(* The timer handler.                                                      *)

(* Fault: the lowest point is taken to be a hundredth of the range.        *)
Rising_Hundredth(l) ==
  IF pwm_count[l] > pwm_max THEN FALSE
  ELSE IF pwm_count[l] < pwm_max \div 100 THEN TRUE
  ELSE pwm_add[l]

(* Fault: the breath turns half way down.                                  *)
Rising_HalfWay(l) ==
  IF pwm_count[l] > pwm_max THEN FALSE
  ELSE IF pwm_count[l] < pwm_max \div 2 THEN TRUE
  ELSE pwm_add[l]

(* The direction of the breath: up from its lowest point, down from its    *)
(* highest.                                                                *)
Rising(l) ==
  IF pwm_count[l] > pwm_max THEN FALSE
  ELSE IF pwm_count[l] < Fiftieth(pwm_max) THEN TRUE
  ELSE pwm_add[l]

(* Fault: the pattern of mode 10 runs one tick too long.                   *)
Count_OneMore(l) ==
  CASE mode[l] = 2  -> IF count[l] > 40 THEN 0 ELSE count[l] + 1
    [] mode[l] = 10 -> IF count[l] > 101 THEN 0 ELSE count[l] + 1
    [] OTHER        -> count[l]

Count(l) ==
  CASE mode[l] = 2  -> IF count[l] > 40 THEN 0 ELSE count[l] + 1
    [] mode[l] = 10 -> IF count[l] > 100 THEN 0 ELSE count[l] + 1
    [] OTHER        -> count[l]

(* Fault: the LED is toggled one tick late.                                *)
Due_Late(l) == mode[l] = 9 /\ count1[l] > value[l]

(* In mode 9: is it time to toggle?                                        *)
Due(l) == mode[l] = 9 /\ count1[l] >= value[l]

Count1(l) == IF Due(l) THEN 0 ELSE IF mode[l] = 9 THEN count1[l] + 1 ELSE count1[l]

Dark(c) == c \in 1 .. 9 \/ c \in 21 .. 29 \/ c > 40

(* The active cycles of the modes that draw a pattern.                     *)
Drawing == {0, 1, 2, 3, 4, 7, 8, 10}

Active(l) ==
  CASE mode[l] = 0  -> pwm_max + 10
    [] mode[l] = 1  -> pwm_count'[l]
    [] mode[l] = 2  -> IF count'[l] > 20 THEN pwm_max ELSE 0
    [] mode[l] = 3  -> IF pwm_add'[l] THEN 0 ELSE pwm_max
    [] mode[l] = 4  -> 0
    [] mode[l] \in {7, 8} -> value[l]
    [] mode[l] = 10 -> IF Dark(count'[l]) THEN pwm_max ELSE 0

(* Fault: the fade stops one short of its end.                             *)
Faded_Short(l) ==
  IF mode[l] = 7 /\ value[l] < 100 THEN value[l] + 1
  ELSE IF mode[l] = 8 /\ value[l] > 1 THEN value[l] - 1
  ELSE value[l]

Faded(l) ==
  IF mode[l] = 7 /\ value[l] < 100 THEN value[l] + 1
  ELSE IF mode[l] = 8 /\ value[l] > 0 THEN value[l] - 1
  ELSE value[l]

(* The handler re-arms the timer first thing, for the next jiffy.          *)
mod_timer(l) == [armed EXCEPT ![l] = TRUE]

(* At most one tick falls into a command: a tick comes every jiffy, and a  *)
(* command is over within microseconds.                                    *)
Interrupts ==
  \/ store = NULL /\ UNCHANGED store
  \/ store # NULL /\ ~store.ticked /\ store' = [store EXCEPT !.ticked = TRUE]

Lit(r) == r.duty = 0

Lasted(l) ==
  IF store # NULL \/ ~shown[l] THEN 0
  ELSE IF Lit(reg'[l]) # Lit(reg[l]) THEN 1
  ELSE IF lasted[l] \in 1 .. Longest THEN lasted[l] + 1
  ELSE lasted[l]

led_timer_func(l) ==
  /\ armed[l]
  /\ Interrupts
  /\ armed' = mod_timer(l)
  /\ pwm_add' = [pwm_add EXCEPT ![l] = Rising(l)]
  /\ pwm_count' = [pwm_count EXCEPT ![l] = Wrap(IF Rising(l) THEN @ + 1 ELSE @ - 1)]
  /\ count' = [count EXCEPT ![l] = Count(l)]
  /\ count1' = [count1 EXCEPT ![l] = Count1(l)]
  /\ value' = [value EXCEPT ![l] = Faded(l)]
  /\ \/ /\ mode[l] \notin Drawing \union {9}         \* 5 and 6 draw in the command
        /\ UNCHANGED reg
     \/ /\ mode[l] = 9
        /\ reg' = IF Due(l) THEN [reg EXCEPT ![l] = Toggled(@)] ELSE reg
     \/ /\ mode[l] \in Drawing
        /\ reg' = [reg EXCEPT ![l] = Word(Cycle, Active(l))]
  /\ shown' = [shown EXCEPT ![l] = TRUE]
  /\ lasted' = [lasted EXCEPT ![l] = Lasted(l)]
  /\ UNCHANGED <<loaded, group, mode, pwm_max, script>>

-----------------------------------------------------------------------------
(* set_func, one assignment at a time.                                     *)

set_func ==
  /\ group /\ store = NULL
  /\ script # <<>> /\ script' = Tail(script)
  /\ store' = [cmd |-> Head(script), step |-> "mode", temp |-> 0, ticked |-> FALSE]
  /\ lasted' = [l \in Leds |-> 0]
  /\ UNCHANGED <<loaded, group, armed, mode, value, pwm_max, statics, reg, shown>>

At(step) == store # NULL /\ store.step = step

Goto(step) == store' = [store EXCEPT !.step = step]

SetMode ==
  /\ At("mode") /\ Goto("value")
  /\ mode' = [mode EXCEPT ![store.cmd.led] = store.cmd.mode]
  /\ shown' = [shown EXCEPT ![store.cmd.led] = FALSE]
  /\ UNCHANGED <<loaded, group, armed, value, pwm_max, statics, reg, lasted, script>>

SetValue ==
  /\ At("value") /\ Goto("func")
  /\ value' = [value EXCEPT ![store.cmd.led] = store.cmd.value]
  /\ UNCHANGED <<loaded, group, armed, mode, pwm_max, statics, reg, history, script>>

MaxFor(l) == IF mode[l] = 1 THEN value[l] ELSE 100

led_set_func ==
  LET l == store.cmd.led IN
  /\ At("func")
  /\ \/ /\ mode[l] \in 0 .. 4
        /\ pwm_max' = MaxFor(l)
        /\ store' = NULL
        /\ UNCHANGED <<value, reg>>
     \/ /\ mode[l] = 5
        /\ store' = [store EXCEPT !.step = "toggle", !.temp = reg[l].duty]
        /\ UNCHANGED <<value, pwm_max, reg>>
     \/ /\ mode[l] = 6
        /\ reg' = [reg EXCEPT ![l] = Word(Cycle, value[l])]
        /\ store' = NULL
        /\ UNCHANGED <<value, pwm_max>>
     \/ /\ mode[l] \in {7, 8}
        /\ value' = [value EXCEPT ![l] = IF @ > 100 THEN 100 ELSE @]
        /\ Goto("invert")
        /\ UNCHANGED <<pwm_max, reg>>
     \/ /\ mode[l] \notin 0 .. 8
        /\ store' = NULL
        /\ UNCHANGED <<value, pwm_max, reg>>
  /\ UNCHANGED <<loaded, group, armed, mode, statics, history, script>>

(* value = 100 - value, a read and a write.                                *)
ReadValue ==
  /\ At("invert")
  /\ store' = [store EXCEPT !.step = "write", !.temp = value[store.cmd.led]]
  /\ UNCHANGED <<loaded, group, armed, mode, value, pwm_max, statics, reg, history, script>>

WriteValue ==
  /\ At("write")
  /\ value' = [value EXCEPT ![store.cmd.led] = Wrap(100 - store.temp)]
  /\ store' = NULL
  /\ UNCHANGED <<loaded, group, armed, mode, pwm_max, statics, reg, history, script>>

(* toggle_led0, toggle_led1 from a command: the register was read, and now *)
(* is written.                                                             *)
toggle_led ==
  /\ At("toggle")
  /\ reg' = [reg EXCEPT ![store.cmd.led] = Toggled([@ EXCEPT !.duty = store.temp])]
  /\ store' = NULL
  /\ UNCHANGED <<loaded, group, armed, mode, value, pwm_max, statics, history, script>>

SetFuncStep ==
  SetMode \/ SetValue \/ led_set_func \/ ReadValue \/ WriteValue \/ toggle_led

-----------------------------------------------------------------------------
(* The module.                                                             *)

(* insmod: the statics are as compiled in.  Neither result is looked at:   *)
(* without the sysfs group there is no file to write commands to, without  *)
(* the misc device sysfs_create_group() faults on its device, with the     *)
(* timers running.                                                         *)
pwm_init ==
  /\ loaded = "out"
  /\ \/ loaded' = "in" /\ group' \in BOOLEAN
     \/ loaded' = "stuck" /\ group' = FALSE
  /\ mode' = [l \in Leds |-> 4] /\ value' = [l \in Leds |-> 0]
  /\ pwm_max' = 100
  /\ pwm_count' = [l \in Leds |-> 0] /\ pwm_add' = [l \in Leds |-> FALSE]
  /\ count' = [l \in Leds |-> 0] /\ count1' = [l \in Leds |-> 0]
  /\ armed' = [l \in Leds |-> l \in Ticking]
  /\ shown' = [l \in Leds |-> FALSE] /\ lasted' = [l \in Leds |-> 0]
  /\ UNCHANGED <<reg, store, script>>

(* Fault: the timers are left pending.                                     *)
del_timer_Skipped(l) == armed[l]

del_timer(l) == FALSE

(* rmmod: the timers go first, and commands are still served until the     *)
(* sysfs group is removed, which waits for the one inside set_func.        *)
pwm_exit ==
  /\ loaded = "in"
  /\ loaded' = "leaving"
  /\ armed' = [l \in Leds |-> del_timer(l)]
  /\ UNCHANGED <<group, mode, value, pwm_max, statics, reg, store, history, script>>

sysfs_remove_group ==
  /\ loaded = "leaving" /\ store = NULL
  /\ loaded' = "out" /\ group' = FALSE
  /\ UNCHANGED <<armed, mode, value, pwm_max, statics, reg, store, history, script>>

-----------------------------------------------------------------------------

Next ==
  \/ pwm_init \/ pwm_exit \/ sysfs_remove_group
  \/ \E l \in Leds : led_timer_func(l)
  \/ set_func \/ SetFuncStep

Spec == Init /\ [][Next]_vars

(* The tick interrupt comes again and again, and a command under way goes  *)
(* on after it.                                                            *)
FairSpec ==
  Spec /\ WF_vars(SetFuncStep) /\ \A l \in Leds : WF_vars(led_timer_func(l))

-----------------------------------------------------------------------------
(* Safety                                                                  *)

(* The ranges a breath may have.                                           *)
Ranges ==
  {100} \union UNION {{s[i].value : i \in {j \in DOMAIN s : s[j].mode = 1}} : s \in Scripts}

(* What is added for the active cycles never spills into the length of the *)
(* cycle: the upper half of the register is always one that the code chose *)
(* (pwm.c:49-60, 66-87, 90-106).  It rests on how far the breath swings    *)
(* below and above when another command moves pwm_max under it, and on the *)
(* range of the values that are written.                                   *)
CycleIntact ==
  \A l \in Leds :
    \/ reg[l] = [cycle |-> 0, duty |-> 0]                     \* not written yet
    \/ \E m \in Ranges :
         \/ reg[l].cycle = (m * 51) \div 50
         \/ reg[l].cycle = m /\ reg[l].duty \in {0, m + 10}   \* toggled

(* A breath never jumps: from tick to tick the active cycles move by one   *)
(* (pwm.c:68-74), whatever commands for the other LED do to the range. *)
BreathSmooth ==
  [][\A l \in Ticking :
       mode[l] = 1 /\ shown[l] /\ mode'[l] = 1 =>
         reg'[l].duty - reg[l].duty \in -1 .. 1]_vars

(* A toggle command leaves the LED lit if it was dark when the command     *)
(* took effect and dark if it was lit, however the timer falls into it     *)
(* (pwm.c:49-60, 101).                                                     *)
ToggleInverts ==
  [][At("toggle") /\ store' = NULL =>
       LET l == store.cmd.led IN (reg'[l].duty = 0) <=> (reg[l].duty # 0)]_vars

(* Once the module is out, no timer is pending that would call into it     *)
(* (pwm.c:232-239): nothing re-arms one after del_timer.                   *)
NoTimerLeft == loaded = "out" => \A l \in Leds : ~armed[l]

(* A fade goes one way: once a tick has shown mode 7 ("fade") the LED      *)
(* never gets brighter, once one has shown mode 8 ("gradually clear") it   *)
(* never gets darker, until the next command (pwm.c:78-79).                *)
FadeOneWay ==
  [][\A l \in Ticking :
       shown[l] /\ mode'[l] = mode[l] =>
         /\ mode[l] = 7 => reg'[l].duty >= reg[l].duty
         /\ mode[l] = 8 => reg'[l].duty <= reg[l].duty]_vars

-----------------------------------------------------------------------------
(* Liveness: what a LED does while its mode stays.                         *)

Stays(l, m) == loaded = "in" /\ mode[l] = m /\ store = NULL

(* A breath keeps going all the way up and all the way down.               *)
Breathes ==
  \A l \in Ticking :
    <>[]Stays(l, 1) => /\ []<>(reg[l].duty >= pwm_max)
                       /\ []<>(reg[l].duty <= pwm_max \div 50)

(* A fade reaches its end: fully dark, or fully lit.                       *)
FadeEnds ==
  \A l \in Ticking :
    /\ <>[]Stays(l, 7) => <>[](reg[l].duty >= 100)
    /\ <>[]Stays(l, 8) => <>[](reg[l].duty = 0)

(* The ticks for which a blinking LED stays lit or dark: in mode 9 one     *)
(* more than the value it was given, in mode 2 as long as it is dark as    *)
(* it is lit, in mode 10 two short flashes and a blink between two pauses. *)
Rates(l) ==
  CASE mode[l] = 9  -> {IF value[l] < 0 THEN 1 ELSE value[l] + 1}
    [] mode[l] = 2  -> {21}
    [] mode[l] = 10 -> IF Lit(reg[l]) THEN {1, 11} ELSE {9, 61}
    [] OTHER        -> Nat

(* A blinking LED goes on blinking (modes 2, 3, 9 and 10), and from the    *)
(* first time it switches after a command it stays lit and dark for as     *)
(* long as its mode says (pwm.c:75, 80-87), whatever its statics were left *)
(* at by the commands before and wherever a tick fell into the command.    *)
Blinks ==
  /\ \A l \in Ticking, m \in {2, 3, 9, 10} :
       <>[]Stays(l, m) => []<>Lit(reg[l]) /\ []<>~Lit(reg[l])
  /\ [][\A l \in Ticking :
           lasted[l] \in 1 .. Longest /\ Lit(reg'[l]) # Lit(reg[l]) =>
             lasted[l] \in Rates(l)]_vars
=============================================================================
