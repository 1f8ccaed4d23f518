------------------------------ MODULE SunxiPwm ------------------------------
(***************************************************************************)
(* The Allwinner PWM driver src/module/pwm/pwm-sunxi.c, entered through    *)
(* the wrappers pwm_config, pwm_enable, pwm_disable and pwm_set_polarity   *)
(* of src/module/pwm/core.c.  Two channels share one control register,     *)
(* kept here as the set of its bits that are one, so that "&= ~" is a      *)
(* difference, "|=" a union and "<<" an addition to every member.          *)
(*                                                                         *)
(* The driver shifts by the global number of a device, base + i.  Its chip *)
(* is the only one of this kernel and asks for base -1, so alloc_pwms()    *)
(* gives it the first hole, base 0: the numbers are the channels 0 and 1.  *)
(* A chip probed while a freed one still has these numbers gets others,    *)
(* and shifts past its fields; that is the end of NoStaleChip of PwmCore,  *)
(* and is not followed here.                                               *)
(*                                                                         *)
(* A channel has one caller: core.c hands a device to one holder at a time *)
(* (ExclusiveOwnership of PwmCore).  The callers of the two channels       *)
(* interleave where a call may sleep, which is in pin_config_set(), and    *)
(* on a preemptible kernel (Preempt = TRUE) also between the read and the  *)
(* write of a register.                                                    *)
(***************************************************************************)
EXTENDS Integers, FiniteSets

CONSTANTS
  Channels,       \* the channels in use, out of 0 and 1
  Pins,           \* Pins[ch]: the pins sys_config lists for the channel
  AxpPins,        \* those among them that belong to the power chip
  Requests,       \* what callers ask pwm_config for
  Preempt,        \* may a task be switched out inside a read-modify-write?
  EarlyCalls,     \* may a consumer call before the pin lists are read?
  NULL

AllPins == UNION {Pins[ch] : ch \in Channels}

Bits == 0 .. 31

(* A request is what the arithmetic of sunxi_pwm_config makes of duty_ns   *)
(* and period_ns: the bits of the prescaler code and the content of the    *)
(* period register, or a bypass of the counter (period_ns < 42).           *)
ASSUME SunxiAssumption ==
  /\ Channels \subseteq {0, 1}
  /\ \A ch \in Channels : IsFiniteSet(Pins[ch])
  /\ \A r \in Requests : r.code \subseteq 0 .. 3 /\ r.bypass \in BOOLEAN
  /\ \A c, d \in Channels : c # d => Pins[c] \intersect Pins[d] = {}
  /\ Preempt \in BOOLEAN /\ EarlyCalls \in BOOLEAN
  /\ NULL \notin Channels /\ NULL \notin AllPins /\ NULL \notin Requests
  /\ NULL \notin {"pwm", "other"}

VARIABLES
  loaded,         \* the module: "in" once pwm_module_init has registered the
                  \* driver, "out", or "spoilt" by an init that failed
  known,          \* the channels whose pin list pwm_module_init has read
  enabled,        \* the channels with PWMF_ENABLED set
  ctrl,           \* register 0: the bits that are one
  bypass1,        \* is bit 9 of the register at 0x10 set?
  period,         \* period[ch]: the register at 4 * (ch + 1)
  record_reg,     \* registers 0 to 2 as sunxi_pwm_suspend saved them; NULL
                  \* once resumed, as nobody reads them before the next suspend
  power,          \* "on", or "off" between suspend and resume
  mux,            \* mux[p]: "boot", "pwm" or "disabled"
  gpio,           \* gpio[p]: who requested it: NULL, "pwm" or "other"
  op,             \* op[ch]: the call the channel's caller is in
  arg,            \* arg[ch]: its argument
  todo,           \* todo[ch]: the pins its loop has still to visit
  pin,            \* pin[ch]: the pin the loop is at, or NULL
  temp,           \* temp[ch]: the register value it has read, or NULL
  asked           \* history: asked[ch], the last request that was configured

hardware == <<ctrl, bypass1, period>>
pinVars  == <<mux, gpio, todo, pin>>
callVars == <<op, arg, temp>>
vars == <<loaded, known, enabled, hardware, record_reg, power, pinVars, callVars, asked>>

Ops == {"none", "config", "normal", "inversed", "enable", "disable"}

Regs == [ctrl : SUBSET Bits, period : [Channels -> Requests \union {NULL}]]

TypeOK ==
  /\ loaded \in {"out", "in", "spoilt"}
  /\ known \subseteq Channels /\ enabled \subseteq Channels
  /\ ctrl \subseteq Bits /\ bypass1 \in BOOLEAN
  /\ period \in [Channels -> Requests \union {NULL}]
  /\ record_reg \in Regs \union {NULL}
  /\ power \in {"on", "off"}
  /\ mux \in [AllPins -> {"boot", "pwm", "disabled"}]
  /\ gpio \in [AllPins -> {NULL, "pwm", "other"}]
  /\ op \in [Channels -> Ops]
  /\ arg \in [Channels -> Requests \union {NULL}]
  /\ todo \in [Channels -> SUBSET AllPins]
  /\ pin \in [Channels -> AllPins \union {NULL}]
  /\ temp \in [Channels -> (SUBSET Bits) \union {NULL}]
  /\ asked \in [Channels -> Requests \union {NULL}]

Init ==
  /\ loaded = "out" /\ known = {} /\ enabled = {}
  /\ ctrl = {} /\ bypass1 = FALSE
  /\ period = [ch \in Channels |-> NULL]
  /\ record_reg = NULL
  /\ power = "on"
  /\ mux = [p \in AllPins |-> "boot"]
  /\ gpio = [p \in AllPins |-> NULL]
  /\ op = [ch \in Channels |-> "none"]
  /\ arg = [ch \in Channels |-> NULL]
  /\ todo = [ch \in Channels |-> {}]
  /\ pin = [ch \in Channels |-> NULL]
  /\ temp = [ch \in Channels |-> NULL]
  /\ asked = [ch \in Channels |-> NULL]

-----------------------------------------------------------------------------
(* The bits of the control register.                                       *)

EnableBits(ch)   == IF ch = 0 THEN {4, 6} ELSE {19, 21}
PrescalerBits(ch) == IF ch = 0 THEN 0 .. 3 ELSE 15 .. 18
BypassBit == 9

PolarityBit(ch) == IF ch = 0 THEN 5 ELSE 20

-----------------------------------------------------------------------------
(* Scheduling.                                                             *)

Runnable(t) ==
  /\ power = "on"
  /\ Preempt \/ \A ch \in Channels \ {t} : temp[ch] = NULL

CanCall(ch) ==
  /\ Runnable(ch)
  /\ loaded = "in"
  /\ EarlyCalls \/ known = Channels
  /\ op[ch] = "none"

PinList(ch) == IF ch \in known THEN Pins[ch] ELSE {}

-----------------------------------------------------------------------------
(* The wrappers of core.c.  Calls they refuse change nothing.              *)

Enter(ch, o, a) ==
  /\ op' = [op EXCEPT ![ch] = o]
  /\ arg' = [arg EXCEPT ![ch] = a]
  /\ UNCHANGED temp

pwm_config(ch, r) ==
  /\ CanCall(ch)
  /\ Enter(ch, "config", r)
  /\ UNCHANGED <<loaded, known, enabled, hardware, record_reg, power, pinVars, asked>>

(* Fault: the wrapper does not look at PWMF_ENABLED.                       *)
MaySetPolarity_Always(ch) == TRUE

MaySetPolarity(ch) == ch \notin enabled

pwm_set_polarity(ch, polarity) ==
  /\ CanCall(ch)
  /\ MaySetPolarity(ch)                            \* else -EBUSY
  /\ Enter(ch, polarity, NULL)
  /\ UNCHANGED <<loaded, known, enabled, hardware, record_reg, power, pinVars, asked>>

(* test_and_set_bit: only the first of two calls reaches the driver.       *)
pwm_enable(ch) ==
  /\ CanCall(ch)
  /\ ch \notin enabled
  /\ enabled' = enabled \union {ch}
  /\ Enter(ch, "enable", NULL)
  /\ todo' = [todo EXCEPT ![ch] = PinList(ch)]
  /\ UNCHANGED <<loaded, known, hardware, record_reg, power, mux, gpio, pin, asked>>

pwm_disable(ch) ==
  /\ CanCall(ch)
  /\ ch \in enabled
  /\ enabled' = enabled \ {ch}
  /\ Enter(ch, "disable", NULL)
  /\ todo' = [todo EXCEPT ![ch] = PinList(ch)]
  /\ UNCHANGED <<loaded, known, hardware, record_reg, power, mux, gpio, pin, asked>>

-----------------------------------------------------------------------------
(* The pin loop of sunxi_pwm_enable and sunxi_pwm_disable.                 *)

(* A failed gpio_request() is warned about and otherwise ignored.          *)
gpio_request(ch) ==
  /\ Runnable(ch)
  /\ pin[ch] = NULL
  /\ \E p \in todo[ch] :
       /\ pin' = [pin EXCEPT ![ch] = p]
       /\ todo' = [todo EXCEPT ![ch] = @ \ {p}]
       /\ gpio' = [gpio EXCEPT ![p] = IF @ = NULL THEN "pwm" ELSE @]
  /\ UNCHANGED <<loaded, known, enabled, hardware, record_reg, power, mux, callVars, asked>>

(* Fault: the pin keeps its PWM function when the channel is disabled.     *)
MuxFor_NeverOff(o) == "pwm"

MuxFor(o) == IF o = "enable" THEN "pwm" ELSE "disabled"

(* Fault: the GPIO is not freed.                                           *)
gpio_free_Forgotten(p) == gpio

gpio_free(p) == [gpio EXCEPT ![p] = NULL]

(* pin_config_set() has slept and returned; the GPIO is freed, whoever it  *)
(* belongs to.                                                             *)
pin_config_set(ch) ==
  /\ Runnable(ch)
  /\ pin[ch] # NULL
  /\ mux' = IF pin[ch] \in AxpPins THEN mux
            ELSE [mux EXCEPT ![pin[ch]] = MuxFor(op[ch])]
  /\ gpio' = gpio_free(pin[ch])
  /\ pin' = [pin EXCEPT ![ch] = NULL]
  /\ UNCHANGED <<loaded, known, enabled, hardware, record_reg, power, todo, callVars, asked>>

-----------------------------------------------------------------------------
(* The registers.                                                          *)

sunxi_pwm_read_reg(ch) ==
  /\ Runnable(ch)
  /\ op[ch] # "none" /\ todo[ch] = {} /\ pin[ch] = NULL /\ temp[ch] = NULL
  /\ temp' = [temp EXCEPT ![ch] = ctrl]
  /\ UNCHANGED <<loaded, known, enabled, hardware, record_reg, power, pinVars, op, arg, asked>>

Return(ch) ==
  /\ op' = [op EXCEPT ![ch] = "none"]
  /\ arg' = [arg EXCEPT ![ch] = NULL]
  /\ temp' = [temp EXCEPT ![ch] = NULL]
  /\ UNCHANGED <<loaded, known, enabled, record_reg, power, pinVars>>

(* Fault: the mask of channel 1 clears what is below its field as well.    *)
ConfigBits_WideMask(ch, r) ==
  (temp[ch] \ (IF ch = 0 THEN 0 .. 3 ELSE 0 .. 18)) \union r.code

(* The code of channel 1 goes to the bits of channel 0: it is not shifted. *)
ConfigBits(ch, r) == (temp[ch] \ PrescalerBits(ch)) \union r.code

sunxi_pwm_config(ch) ==
  LET r == arg[ch] IN
  /\ Runnable(ch)
  /\ op[ch] = "config" /\ temp[ch] # NULL
  /\ \/ /\ r.bypass /\ ch = 0                      \* offset 0: the control register
        /\ ctrl' = temp[ch] \union {BypassBit}
        /\ UNCHANGED <<bypass1, period>>
     \/ /\ r.bypass /\ ch = 1                      \* offset 0x10
        /\ bypass1' = TRUE
        /\ UNCHANGED <<ctrl, period>>
     \/ /\ ~r.bypass
        /\ ctrl' = ConfigBits(ch, r)
        /\ period' = [period EXCEPT ![ch] = r]
        /\ UNCHANGED bypass1
  /\ asked' = [asked EXCEPT ![ch] = r]
  /\ Return(ch)

sunxi_pwm_set_polarity(ch) ==
  /\ Runnable(ch)
  /\ op[ch] \in {"normal", "inversed"} /\ temp[ch] # NULL
  /\ ctrl' = IF op[ch] = "normal" THEN temp[ch] \union {PolarityBit(ch)}
                                  ELSE temp[ch] \ {PolarityBit(ch)}
  /\ UNCHANGED <<bypass1, period, asked>>
  /\ Return(ch)

(* Fault: the channels' fields are taken to be 32 bits apart.              *)
EnableMask_Stride32(ch) == {4 + 32 * ch, 6 + 32 * ch}

EnableMask(ch) == EnableBits(ch)

sunxi_pwm_enable(ch) ==
  /\ Runnable(ch)
  /\ op[ch] = "enable" /\ temp[ch] # NULL
  /\ ctrl' = temp[ch] \union EnableMask(ch)
  /\ UNCHANGED <<bypass1, period, asked>>
  /\ Return(ch)

(* The cleared bits are computed in a local and never written.             *)
sunxi_pwm_disable(ch) ==
  /\ Runnable(ch)
  /\ op[ch] = "disable" /\ temp[ch] # NULL
  /\ UNCHANGED <<hardware, asked>>
  /\ Return(ch)

-----------------------------------------------------------------------------
(* The module and the power management.                                    *)

(* pwm_module_init registers the driver; the probe's fresh devices have no *)
(* flag set, and the pin lists are read only afterwards.  When it fails    *)
(* after class_create() the class stays behind: every later init fails     *)
(* there, as the class's name is taken.  When it fails before, nothing     *)
(* that is followed here has changed.                                      *)
pwm_module_init ==
  /\ Runnable(NULL)
  /\ loaded = "out"
  /\ loaded' \in {"in", "spoilt"}
  /\ known' = {} /\ enabled' = {}
  /\ UNCHANGED <<hardware, record_reg, power, pinVars, callVars, asked>>

sunxi_pwm_get_sys_config(ch) ==
  /\ Runnable(NULL)
  /\ loaded = "in"
  /\ ch \notin known /\ \A d \in Channels : d < ch => d \in known
  /\ known' = known \union {ch}
  /\ UNCHANGED <<loaded, enabled, hardware, record_reg, power, pinVars, callVars, asked>>

(* The module is unloaded when nobody holds a channel, so outside calls.   *)
(* Its device number stays allocated; the next init gets another.          *)
pwm_module_exit ==
  /\ Runnable(NULL)
  /\ loaded = "in" /\ known = Channels
  /\ \A ch \in Channels : op[ch] = "none"
  /\ loaded' = "out"
  /\ UNCHANGED <<known, enabled, hardware, record_reg, power, pinVars, callVars, asked>>

(* Registers 0 to 2 are saved; the block then may lose its power.          *)
sunxi_pwm_suspend ==
  /\ Runnable(NULL)
  /\ loaded = "in"
  /\ record_reg' = [ctrl |-> ctrl, period |-> period]
  /\ power' = "off"
  /\ \/ UNCHANGED hardware
     \/ /\ ctrl' = {} /\ bypass1' = FALSE
        /\ period' = [ch \in Channels |-> NULL]
  /\ UNCHANGED <<loaded, known, enabled, pinVars, callVars, asked>>

(* Fault: the control register is not written back.                        *)
RestoredCtrl_Skipped(r) == ctrl

RestoredCtrl(r) == r.ctrl

sunxi_pwm_resume ==
  /\ power = "off"
  /\ power' = "on"
  /\ ctrl' = RestoredCtrl(record_reg)
  /\ period' = record_reg.period
  /\ record_reg' = NULL
  /\ UNCHANGED <<loaded, known, enabled, bypass1, pinVars, callVars, asked>>

(* Some other driver requests and frees a GPIO of the list.                *)
OtherRequest(p) ==
  /\ Runnable(NULL)
  /\ gpio[p] = NULL
  /\ gpio' = [gpio EXCEPT ![p] = "other"]
  /\ UNCHANGED <<loaded, known, enabled, hardware, record_reg, power, mux, todo, pin,
                 callVars, asked>>

OtherFree(p) ==
  /\ Runnable(NULL)
  /\ gpio[p] = "other"
  /\ gpio' = [gpio EXCEPT ![p] = NULL]
  /\ UNCHANGED <<loaded, known, enabled, hardware, record_reg, power, mux, todo, pin,
                 callVars, asked>>

-----------------------------------------------------------------------------

Call(ch) ==
  \/ \E r \in Requests : pwm_config(ch, r)
  \/ \E polarity \in {"normal", "inversed"} : pwm_set_polarity(ch, polarity)
  \/ pwm_enable(ch) \/ pwm_disable(ch)

Driver(ch) ==
  \/ gpio_request(ch) \/ pin_config_set(ch) \/ sunxi_pwm_read_reg(ch)
  \/ sunxi_pwm_config(ch) \/ sunxi_pwm_set_polarity(ch)
  \/ sunxi_pwm_enable(ch) \/ sunxi_pwm_disable(ch)

Environment ==
  \/ pwm_module_init \/ pwm_module_exit
  \/ \E ch \in Channels : sunxi_pwm_get_sys_config(ch)
  \/ sunxi_pwm_suspend \/ sunxi_pwm_resume
  \/ \E p \in AllPins : OtherRequest(p) \/ OtherFree(p)

Next == Environment \/ \E ch \in Channels : Call(ch) \/ Driver(ch)

Spec == Init /\ [][Next]_vars

-----------------------------------------------------------------------------
(* Safety                                                                  *)

(* A channel whose PWMF_ENABLED is set, with no call on it under way, is   *)
(* running and reaches its pins: the flag that makes the next pwm_enable   *)
(* return at once does not lie (core.c:438, pwm-sunxi.c:164-199), whatever *)
(* the other channel, a suspend or a failed gpio_request did meanwhile.    *)
EnabledRuns ==
  power = "on" /\ loaded = "in" =>
    \A ch \in enabled :
      op[ch] = "none" =>
        /\ EnableBits(ch) \subseteq ctrl
        /\ \A p \in Pins[ch] \ AxpPins : mux[p] = "pwm"

(* When pwm_disable() returns, the output has stopped toggling at every    *)
(* pin of the channel's list that the driver can switch, all but those of  *)
(* the power chip, whatever the other channel, a suspend or another driver *)
(* with the GPIO did while the loop slept (core.c:446,                     *)
(* pwm-sunxi.c:209-224).  The counter itself goes on: the enable bits are  *)
(* never cleared (225-233).                                                *)
DisableStops ==
  [][\A ch \in Channels :
       op[ch] = "disable" /\ op'[ch] = "none" =>
         \A p \in Pins[ch] \ AxpPins : mux'[p] = "disabled"]_vars

Bypassed(ch) == IF ch = 0 THEN BypassBit \in ctrl ELSE bypass1

CodeBits(ch) == {b - (IF ch = 0 THEN 0 ELSE 15) : b \in ctrl \intersect PrescalerBits(ch)}

(* The cycle of a channel in its own register, and the bypass of channel 0,*)
(* stay as the last pwm_config() of that channel left them, whatever the   *)
(* other channel, a change of polarity or a suspend does; so does the      *)
(* prescaler of channel 0 until channel 1 is configured (core.c:395-400,   *)
(* pwm-sunxi.c:101-162, 276-288).                                          *)
CycleKept ==
  power = "on" =>
    \A ch \in Channels :
      LET r == asked[ch] IN
      op[ch] # "config" /\ r # NULL =>
        /\ r.bypass /\ ch = 0 => Bypassed(ch)
        /\ ~r.bypass => period[ch] = r
        /\ ~r.bypass /\ ch = 0 /\ (\A d \in Channels \ {ch} : asked[d] = NULL)
             => CodeBits(ch) = r.code

(* The last pwm_config() of a channel stays in force, all of it, until its *)
(* next one (core.c:395-400): it does not hold, as the prescaler code of   *)
(* channel 1 goes to the field of channel 0 (pwm-sunxi.c:152).             *)
ConfigKept ==
  power = "on" =>
    \A ch \in Channels :
      LET r == asked[ch] IN
      op[ch] # "config" /\ r # NULL =>
        /\ r.bypass = Bypassed(ch)
        /\ ~r.bypass => period[ch] = r /\ CodeBits(ch) = r.code

(* The polarity of an enabled channel never changes (core.c:415), except   *)
(* for what a loss of power and the resume after it do.                    *)
PolarityFixedWhileEnabled ==
  [][\A ch \in Channels :
       power = "on" /\ power' = "on" /\ ch \in enabled =>
         (PolarityBit(ch) \in ctrl <=> PolarityBit(ch) \in ctrl')]_vars

(* Between its calls the driver holds no GPIO (pwm-sunxi.c:173-186).       *)
NoGpioLeak ==
  \A p \in AllPins :
    gpio[p] = "pwm" => \E ch \in Channels : pin[ch] = p
=============================================================================
