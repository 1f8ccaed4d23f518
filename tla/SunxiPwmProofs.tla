--------------------------- MODULE SunxiPwmProofs ---------------------------
(***************************************************************************)
(* Machine-checked proofs about SunxiPwm, for every subset of the two      *)
(* channels, every pin list and every request.                             *)
(***************************************************************************)
EXTENDS SunxiPwm, TLAPS

-----------------------------------------------------------------------------
(* The inductive invariant, in named parts.                                *)

(* What a call has at hand: a pin loop only in pwm_enable and pwm_disable, *)
(* a register value only after it, and between calls nothing.              *)
CallShape ==
  \A ch \in Channels :
    /\ op[ch] = "config" => arg[ch] \in Requests
    /\ op[ch] \notin {"enable", "disable"} => todo[ch] = {} /\ pin[ch] = NULL
    /\ op[ch] = "none" => temp[ch] = NULL
    /\ temp[ch] # NULL => todo[ch] = {} /\ pin[ch] = NULL
    /\ todo[ch] \subseteq Pins[ch]
    /\ pin[ch] \in Pins[ch] \union {NULL}

(* PWMF_ENABLED is what the call under way made of it, and calls are under *)
(* way only while the driver is loaded.                                    *)
Flags ==
  \A ch \in Channels :
    /\ op[ch] = "enable" => ch \in enabled
    /\ op[ch] \in {"disable", "normal", "inversed"} => ch \notin enabled
    /\ op[ch] # "none" => loaded = "in"

(* Without power the registers are in record_reg.                          *)
Saved == power = "off" => record_reg \in Regs

(* Unless tasks are preempted, the register value a call has read is the   *)
(* one the register still has.                                             *)
Held ==
  ~Preempt => \A ch \in Channels : temp[ch] # NULL => power = "on" /\ temp[ch] = ctrl

(* Unless consumers come too early, a call finds the pin lists read.       *)
Listed ==
  ~EarlyCalls => \A ch \in Channels : op[ch] # "none" => known = Channels

(* A pin of the list is still to be visited, being visited, or done.       *)
PinsDone(ch, m) ==
  \A p \in Pins[ch] \ AxpPins : p \in todo[ch] \/ p = pin[ch] \/ mux[p] = m

PinLoop ==
  ~EarlyCalls =>
    \A ch \in Channels :
      /\ op[ch] = "disable" => PinsDone(ch, "disabled")
      /\ ch \in enabled => PinsDone(ch, "pwm")

(* The control register and the period registers, wherever they are kept.  *)
KeptCtrl == IF power = "on" THEN ctrl ELSE record_reg.ctrl

KeptPeriod == IF power = "on" THEN period ELSE record_reg.period

Running ==
  ~Preempt =>
    \A ch \in enabled : op[ch] # "enable" => EnableBits(ch) \subseteq KeptCtrl

Configured ==
  \A ch \in Channels :
    LET r == asked[ch] IN
    r # NULL =>
      /\ ~Preempt /\ r.bypass /\ ch = 0 => BypassBit \in KeptCtrl
      /\ ~r.bypass => KeptPeriod[ch] = r
      /\ ~Preempt /\ ~r.bypass /\ ch = 0 /\ (\A d \in Channels \ {ch} : asked[d] = NULL)
           => KeptCtrl \intersect 0 .. 3 = r.code

SunxiInv ==
  /\ TypeOK /\ CallShape /\ Flags /\ Saved
  /\ Held /\ Listed /\ PinLoop /\ Running /\ Configured /\ NoGpioLeak

-----------------------------------------------------------------------------
(* Facts about the constants and the bits of the control register.         *)

LEMMA ChannelFacts ==
  ASSUME NEW ch \in Channels
  PROVE  /\ ch \in {0, 1} /\ ch # NULL
         /\ Pins[ch] \subseteq AllPins /\ NULL \notin Pins[ch]
         /\ PinList(ch) \subseteq Pins[ch]
BY SunxiAssumption DEF AllPins, PinList

LEMMA RequestFacts ==
  ASSUME NEW r \in Requests
  PROVE  r.code \subseteq 0 .. 3 /\ r.bypass \in BOOLEAN /\ r # NULL
BY SunxiAssumption

(* No two of the fields prescaler, bypass, polarity and enable overlap, on *)
(* one channel or across the two (pwm-sunxi.c:111-112, 148-152, 191-197).  *)
LEMMA FieldsApart ==
  ASSUME NEW c \in {0, 1}, NEW d \in {0, 1}
  PROVE  /\ EnableBits(c) \intersect PrescalerBits(d) = {}
         /\ EnableBits(c) \intersect {PolarityBit(d), BypassBit} = {}
         /\ PolarityBit(c) \notin PrescalerBits(d)
         /\ PolarityBit(c) \notin EnableBits(d)
         /\ PolarityBit(c) # BypassBit
         /\ c # d => PolarityBit(c) # PolarityBit(d)
         /\ BypassBit \notin PrescalerBits(d)
         /\ 0 .. 3 \intersect (EnableBits(d) \union {PolarityBit(d), BypassBit}) = {}
         /\ EnableBits(c) \intersect 0 .. 3 = {}
         /\ PolarityBit(c) \notin 0 .. 3
BY DEF EnableBits, PrescalerBits, PolarityBit, BypassBit

LEMMA FieldsInRegister ==
  ASSUME NEW ch \in {0, 1}
  PROVE  /\ EnableBits(ch) \subseteq Bits /\ PolarityBit(ch) \in Bits
         /\ BypassBit \in Bits /\ 0 .. 3 \subseteq Bits
BY DEF EnableBits, PolarityBit, BypassBit, Bits

-----------------------------------------------------------------------------
(* Frames: what whole groups of actions leave alone.                       *)

(* The module, the power management and other drivers are outside calls.   *)
LEMMA EnvironmentFrame ==
  Environment => UNCHANGED <<mux, todo, pin, callVars, asked>>
BY DEF Environment, pwm_module_init, pwm_module_exit, sunxi_pwm_get_sys_config,
       sunxi_pwm_suspend, sunxi_pwm_resume, OtherRequest, OtherFree, pinVars

(* A caller enters a wrapper of core.c without touching the hardware.      *)
LEMMA CallFrame ==
  ASSUME NEW ch \in Channels, Call(ch)
  PROVE  UNCHANGED <<loaded, known, hardware, record_reg, power, mux, gpio, pin, temp, asked>>
BY DEF Call, pwm_config, pwm_set_polarity, pwm_enable, pwm_disable, Enter, pinVars

LEMMA DriverFrame ==
  ASSUME NEW ch \in Channels, Driver(ch)
  PROVE  UNCHANGED <<loaded, known, enabled, record_reg, power>>
BY DEF Driver, gpio_request, pin_config_set, sunxi_pwm_read_reg, sunxi_pwm_config,
       sunxi_pwm_set_polarity, sunxi_pwm_enable, sunxi_pwm_disable, Return

-----------------------------------------------------------------------------
(* Type correctness, with the two conjuncts it needs.                      *)

Typed == TypeOK /\ CallShape /\ Saved

LEMMA TypedInit == Init => Typed
<1> SUFFICES ASSUME Init PROVE Typed OBVIOUS
<1>1. TypeOK BY DEF Init, TypeOK, Ops
<1>2. CallShape BY DEF Init, CallShape
<1>3. Saved BY DEF Init, Saved
<1> QED BY <1>1, <1>2, <1>3 DEF Typed

LEMMA TypeEnvironment == Typed /\ Environment => TypeOK' /\ Saved'
<1> SUFFICES ASSUME Typed, Environment PROVE TypeOK' /\ Saved' OBVIOUS
<1> USE DEF hardware, callVars, pinVars
<1>1. CASE pwm_module_init
  BY <1>1 DEF Typed, TypeOK, Saved, pwm_module_init
<1>2. CASE pwm_module_exit
  BY <1>2 DEF Typed, TypeOK, Saved, pwm_module_exit
<1>3. ASSUME NEW ch \in Channels, sunxi_pwm_get_sys_config(ch) PROVE TypeOK' /\ Saved'
  BY <1>3 DEF Typed, TypeOK, Saved, sunxi_pwm_get_sys_config
<1>4. CASE sunxi_pwm_suspend
  BY <1>4 DEF Typed, TypeOK, Saved, Regs, sunxi_pwm_suspend
<1>5. CASE sunxi_pwm_resume
  BY <1>5 DEF Typed, TypeOK, Saved, Regs, RestoredCtrl, sunxi_pwm_resume
<1>6. ASSUME NEW p \in AllPins, OtherRequest(p) \/ OtherFree(p) PROVE TypeOK' /\ Saved'
  BY <1>6 DEF Typed, TypeOK, Saved, OtherRequest, OtherFree
<1> QED BY <1>1, <1>2, <1>3, <1>4, <1>5, <1>6 DEF Environment

LEMMA TypeCall == ASSUME Typed, NEW ch \in Channels, Call(ch) PROVE TypeOK' /\ Saved'
<1> USE DEF hardware, callVars, pinVars, Enter, Ops
<1>1. ASSUME NEW r \in Requests, pwm_config(ch, r) PROVE TypeOK' /\ Saved'
  BY <1>1 DEF Typed, TypeOK, Saved, pwm_config
<1>2. ASSUME NEW o \in {"normal", "inversed"}, pwm_set_polarity(ch, o) PROVE TypeOK' /\ Saved'
  BY <1>2 DEF Typed, TypeOK, Saved, pwm_set_polarity
<1>3. CASE pwm_enable(ch) \/ pwm_disable(ch)
  BY <1>3, ChannelFacts DEF Typed, TypeOK, Saved, pwm_enable, pwm_disable
<1> QED BY <1>1, <1>2, <1>3 DEF Call

LEMMA TypeDriver == ASSUME Typed, NEW ch \in Channels, Driver(ch) PROVE TypeOK' /\ Saved'
<1> USE DEF hardware, callVars, pinVars, Return, Ops
<1>0. ch \in {0, 1} /\ Saved' BY ChannelFacts, DriverFrame DEF Typed, Saved
<1>1. CASE gpio_request(ch)
  BY <1>0, <1>1 DEF Typed, TypeOK, gpio_request
<1>2. CASE pin_config_set(ch)
  BY <1>0, <1>2 DEF Typed, TypeOK, pin_config_set, MuxFor, gpio_free
<1>3. CASE sunxi_pwm_read_reg(ch)
  BY <1>0, <1>3 DEF Typed, TypeOK, sunxi_pwm_read_reg
<1>4. CASE sunxi_pwm_config(ch)
  <2>1. arg[ch] \in Requests /\ temp[ch] \subseteq Bits
    BY <1>4 DEF Typed, TypeOK, CallShape, sunxi_pwm_config
  <2>2. ConfigBits(ch, arg[ch]) \subseteq Bits
    BY <1>0, <2>1, RequestFacts, FieldsInRegister DEF ConfigBits
  <2>3. ctrl' \subseteq Bits /\ bypass1' \in BOOLEAN
    BY <1>0, <1>4, <2>1, <2>2, FieldsInRegister DEF Typed, TypeOK, sunxi_pwm_config
  <2>4. /\ period' \in [Channels -> Requests \union {NULL}]
        /\ asked' \in [Channels -> Requests \union {NULL}]
    BY <1>4, <2>1 DEF Typed, TypeOK, sunxi_pwm_config
  <2> QED BY <1>0, <1>4, <2>3, <2>4 DEF Typed, TypeOK, sunxi_pwm_config
<1>5. CASE sunxi_pwm_set_polarity(ch)
  BY <1>0, <1>5, FieldsInRegister DEF Typed, TypeOK, sunxi_pwm_set_polarity
<1>6. CASE sunxi_pwm_enable(ch)
  BY <1>0, <1>6, FieldsInRegister DEF Typed, TypeOK, sunxi_pwm_enable, EnableMask
<1>7. CASE sunxi_pwm_disable(ch)
  BY <1>0, <1>7 DEF Typed, TypeOK, sunxi_pwm_disable
<1> QED BY <1>1, <1>2, <1>3, <1>4, <1>5, <1>6, <1>7 DEF Driver

LEMMA ShapeNext == ASSUME Typed, NEW ch \in Channels, Call(ch) \/ Driver(ch) PROVE CallShape'
<1> USE DEF callVars, pinVars, Enter, Return
<1>1. ASSUME NEW r \in Requests, pwm_config(ch, r) PROVE CallShape'
  BY <1>1 DEF Typed, TypeOK, CallShape, pwm_config, CanCall
<1>2. ASSUME NEW o \in {"normal", "inversed"}, pwm_set_polarity(ch, o) PROVE CallShape'
  BY <1>2 DEF Typed, TypeOK, CallShape, pwm_set_polarity, CanCall
<1>3. CASE pwm_enable(ch) \/ pwm_disable(ch)
  BY <1>3, ChannelFacts DEF Typed, TypeOK, CallShape, pwm_enable, pwm_disable, CanCall
<1>4. CASE gpio_request(ch)
  BY <1>4, ChannelFacts DEF Typed, TypeOK, CallShape, gpio_request
<1>5. CASE pin_config_set(ch)
  BY <1>5 DEF Typed, TypeOK, CallShape, pin_config_set
<1>6. CASE sunxi_pwm_read_reg(ch)
  BY <1>6 DEF Typed, TypeOK, CallShape, sunxi_pwm_read_reg
<1>7. CASE \/ sunxi_pwm_config(ch) \/ sunxi_pwm_set_polarity(ch)
           \/ sunxi_pwm_enable(ch) \/ sunxi_pwm_disable(ch)
  BY <1>7 DEF Typed, TypeOK, CallShape, sunxi_pwm_config, sunxi_pwm_set_polarity,
              sunxi_pwm_enable, sunxi_pwm_disable
<1> QED BY <1>1, <1>2, <1>3, <1>4, <1>5, <1>6, <1>7 DEF Call, Driver

LEMMA TypedNext == Typed /\ [Next]_vars => Typed'
<1> SUFFICES ASSUME Typed, [Next]_vars PROVE Typed' OBVIOUS
<1>1. CASE Environment
  BY <1>1, TypeEnvironment, EnvironmentFrame DEF Typed, CallShape, callVars
<1>2. ASSUME NEW ch \in Channels, Call(ch) \/ Driver(ch) PROVE Typed'
  BY <1>2, TypeCall, TypeDriver, ShapeNext DEF Typed
<1>3. CASE UNCHANGED vars
  BY <1>3 DEF Typed, TypeOK, CallShape, Saved, vars, hardware, pinVars, callVars
<1> QED BY <1>1, <1>2, <1>3 DEF Next

(* Every variable of the driver keeps its type.                            *)
THEOREM SunxiTyped == Spec => []TypeOK
<1>1. Typed => TypeOK BY DEF Typed
<1> QED BY TypedInit, TypedNext, <1>1, PTL DEF Spec

(* A GPIO the driver has requested is one a pin loop is at: the loop frees *)
(* it in the same turn (pwm-sunxi.c:173-186).                              *)
LEMMA GpioNext == Typed /\ NoGpioLeak /\ [Next]_vars => NoGpioLeak'
<1> SUFFICES ASSUME Typed, NoGpioLeak, [Next]_vars PROVE NoGpioLeak' OBVIOUS
<1> USE DEF callVars, pinVars
<1>1. CASE Environment
  <2>1. UNCHANGED pin BY <1>1, EnvironmentFrame
  <2>2. \A p \in AllPins : gpio'[p] = "pwm" => gpio[p] = "pwm"
    BY <1>1, SunxiAssumption
    DEF Environment, pwm_module_init, pwm_module_exit, sunxi_pwm_get_sys_config,
        sunxi_pwm_suspend, sunxi_pwm_resume, OtherRequest, OtherFree, Typed, TypeOK
  <2> QED BY <2>1, <2>2 DEF NoGpioLeak
<1>2. ASSUME NEW ch \in Channels, Call(ch) PROVE NoGpioLeak'
  BY <1>2, CallFrame DEF NoGpioLeak
<1>3. ASSUME NEW ch \in Channels, gpio_request(ch) PROVE NoGpioLeak'
  <2>1. PICK q \in todo[ch] :
          /\ pin' = [pin EXCEPT ![ch] = q]
          /\ gpio' = [gpio EXCEPT ![q] = IF @ = NULL THEN "pwm" ELSE @]
    BY <1>3 DEF gpio_request
  <2>2. SUFFICES ASSUME NEW p \in AllPins, gpio'[p] = "pwm"
                 PROVE  \E d \in Channels : pin'[d] = p
    BY DEF NoGpioLeak
  <2>3. CASE p = q BY <2>1, <2>3 DEF Typed, TypeOK
  <2>4. CASE p # q
    <3>1. PICK d \in Channels : pin[d] = p
      BY <2>1, <2>2, <2>4 DEF NoGpioLeak, Typed, TypeOK
    <3>2. d # ch
      BY <1>3, <3>1, SunxiAssumption DEF gpio_request
    <3> QED BY <2>1, <3>1, <3>2 DEF Typed, TypeOK
  <2> QED BY <2>3, <2>4
<1>4. ASSUME NEW ch \in Channels, pin_config_set(ch) PROVE NoGpioLeak'
  <2>1. SUFFICES ASSUME NEW p \in AllPins, gpio'[p] = "pwm"
                 PROVE  \E d \in Channels : pin'[d] = p
    BY DEF NoGpioLeak
  <2>2. p # pin[ch] /\ gpio[p] = "pwm"
    BY <1>4, <2>1, SunxiAssumption DEF pin_config_set, gpio_free, Typed, TypeOK
  <2> QED BY <1>4, <2>2 DEF NoGpioLeak, pin_config_set, Typed, TypeOK
<1>5. ASSUME NEW ch \in Channels, Driver(ch), ~gpio_request(ch), ~pin_config_set(ch)
      PROVE  NoGpioLeak'
  BY <1>5 DEF NoGpioLeak, Driver, sunxi_pwm_read_reg, sunxi_pwm_config,
              sunxi_pwm_set_polarity, sunxi_pwm_enable, sunxi_pwm_disable, Return
<1>6. CASE UNCHANGED vars
  BY <1>6 DEF NoGpioLeak, vars
<1> QED BY <1>1, <1>2, <1>3, <1>4, <1>5, <1>6 DEF Next

(* Between its calls the driver holds no GPIO, whatever other drivers do.  *)
THEOREM NoGpioLeft == Spec => []NoGpioLeak
<1>1. Init => NoGpioLeak BY SunxiAssumption DEF Init, NoGpioLeak
<1> QED BY TypedInit, TypedNext, GpioNext, <1>1, PTL DEF Spec

-----------------------------------------------------------------------------
(* The calls: flags, pin lists and register values at hand.                *)

Calls == Typed /\ Flags /\ Held /\ Listed

LEMMA FlagsNext == Typed /\ Flags /\ [Next]_vars => Flags'
<1> SUFFICES ASSUME Typed, Flags, [Next]_vars PROVE Flags' OBVIOUS
<1> USE DEF callVars, pinVars, Enter, Return
<1>1. CASE Environment
  <2>1. CASE pwm_module_init BY <2>1 DEF Flags, pwm_module_init
  <2>2. CASE pwm_module_exit BY <2>2 DEF Flags, pwm_module_exit
  <2>3. CASE ~pwm_module_init /\ ~pwm_module_exit
    BY <1>1, <2>3 DEF Flags, Environment, sunxi_pwm_get_sys_config, sunxi_pwm_suspend,
       sunxi_pwm_resume, OtherRequest, OtherFree
  <2> QED BY <2>1, <2>2, <2>3
<1>2. ASSUME NEW ch \in Channels, Call(ch) PROVE Flags'
  BY <1>2 DEF Flags, Call, pwm_config, pwm_set_polarity, MaySetPolarity, pwm_enable,
              pwm_disable, CanCall, Typed, TypeOK
<1>3. ASSUME NEW ch \in Channels, Driver(ch) PROVE Flags'
  BY <1>3 DEF Flags, Driver, gpio_request, pin_config_set, sunxi_pwm_read_reg,
              sunxi_pwm_config, sunxi_pwm_set_polarity, sunxi_pwm_enable,
              sunxi_pwm_disable, Typed, TypeOK
<1>4. CASE UNCHANGED vars BY <1>4 DEF Flags, vars
<1> QED BY <1>1, <1>2, <1>3, <1>4 DEF Next

(* Only the caller whose turn it is holds a register value, as it does not *)
(* sleep between the read and the write (pwm-sunxi.c:146-154, 190-199).    *)
LEMMA HeldNext == Typed /\ Held /\ [Next]_vars => Held'
<1> SUFFICES ASSUME Typed, Held, [Next]_vars, ~Preempt PROVE Held' BY DEF Held
<1> USE DEF callVars, pinVars, hardware, Return, Runnable
<1>1. CASE Environment
  <2>1. UNCHANGED temp BY <1>1, EnvironmentFrame
  <2>2. CASE sunxi_pwm_suspend
    BY <2>1, <2>2, SunxiAssumption DEF Held, sunxi_pwm_suspend
  <2>3. CASE sunxi_pwm_resume
    BY <2>1, <2>3 DEF Held, sunxi_pwm_resume
  <2>4. CASE ~sunxi_pwm_suspend /\ ~sunxi_pwm_resume
    BY <1>1, <2>1, <2>4 DEF Held, Environment, pwm_module_init, pwm_module_exit,
       sunxi_pwm_get_sys_config, OtherRequest, OtherFree
  <2> QED BY <2>2, <2>3, <2>4
<1>2. ASSUME NEW ch \in Channels, Call(ch) PROVE Held'
  BY <1>2, CallFrame DEF Held
<1>3. ASSUME NEW ch \in Channels, Driver(ch) PROVE Held'
  <2>1. /\ power' = power /\ power = "on"
        /\ \A d \in Channels : d # ch => temp[d] = NULL /\ temp'[d] = NULL
        /\ \/ UNCHANGED <<ctrl, temp>>
           \/ temp'[ch] = NULL
           \/ temp'[ch] = ctrl /\ ctrl' = ctrl
    BY <1>3 DEF Driver, gpio_request, pin_config_set, sunxi_pwm_read_reg,
              sunxi_pwm_config, sunxi_pwm_set_polarity, sunxi_pwm_enable,
              sunxi_pwm_disable, Typed, TypeOK
  <2> QED BY <2>1 DEF Held
<1>4. CASE UNCHANGED vars BY <1>4 DEF Held, vars
<1> QED BY <1>1, <1>2, <1>3, <1>4 DEF Next

LEMMA ListedNext == Typed /\ Flags /\ Listed /\ [Next]_vars => Listed'
<1> SUFFICES ASSUME Typed, Flags, Listed, [Next]_vars, ~EarlyCalls PROVE Listed' BY DEF Listed
<1> USE DEF callVars, pinVars, Enter, Return
<1>1. CASE Environment
  BY <1>1 DEF Listed, Flags, Environment, pwm_module_init, pwm_module_exit,
     sunxi_pwm_get_sys_config, sunxi_pwm_suspend, sunxi_pwm_resume, OtherRequest, OtherFree
<1>2. ASSUME NEW ch \in Channels, Call(ch) PROVE Listed'
  BY <1>2 DEF Listed, Call, pwm_config, pwm_set_polarity, pwm_enable, pwm_disable,
              CanCall, Typed, TypeOK
<1>3. ASSUME NEW ch \in Channels, Driver(ch) PROVE Listed'
  BY <1>3 DEF Listed, Driver, gpio_request, pin_config_set, sunxi_pwm_read_reg,
              sunxi_pwm_config, sunxi_pwm_set_polarity, sunxi_pwm_enable,
              sunxi_pwm_disable, Typed, TypeOK
<1>4. CASE UNCHANGED vars BY <1>4 DEF Listed, vars
<1> QED BY <1>1, <1>2, <1>3, <1>4 DEF Next

LEMMA CallsInvariant == Spec => []Calls
<1>1. Init => Calls
  BY TypedInit DEF Init, Calls, Flags, Held, Listed
<1>2. Calls /\ [Next]_vars => Calls'
  BY TypedNext, FlagsNext, HeldNext, ListedNext DEF Calls
<1> QED BY <1>1, <1>2, PTL DEF Spec

-----------------------------------------------------------------------------
(* The pins: what the loop of a call does to the function of its pins.     *)

LEMMA PinLoopEnvironment ==
  ASSUME PinLoop, Environment
  PROVE  PinLoop'
<1>1. UNCHANGED <<mux, todo, pin, op>> BY EnvironmentFrame DEF callVars
<1>2. enabled' \subseteq enabled
  BY DEF Environment, pwm_module_init, pwm_module_exit, sunxi_pwm_get_sys_config,
         sunxi_pwm_suspend, sunxi_pwm_resume, OtherRequest, OtherFree
<1> QED BY <1>1, <1>2 DEF PinLoop, PinsDone

LEMMA PinLoopCall ==
  ASSUME Typed, PinLoop, NEW ch \in Channels, Call(ch)
  PROVE  PinLoop'
<1> SUFFICES ASSUME ~EarlyCalls PROVE PinLoop' BY DEF PinLoop
<1>1. UNCHANGED <<mux, pin>> BY CallFrame DEF pinVars
<1>2. PinList(ch) = Pins[ch] /\ todo[ch] = {}
  BY DEF PinList, Call, pwm_config, pwm_set_polarity, pwm_enable, pwm_disable, CanCall,
         Typed, CallShape
<1>3. \A d \in Channels : todo[d] \subseteq todo'[d]
  BY <1>2 DEF Call, pwm_config, pwm_set_polarity, pwm_enable, pwm_disable, pinVars,
              Typed, TypeOK
<1>4. \A d \in Channels : \A m : PinsDone(d, m) => PinsDone(d, m)'
  BY <1>1, <1>3 DEF PinsDone
<1>5. \A d \in Channels : d # ch => op'[d] = op[d] /\ (d \in enabled' => d \in enabled)
  BY DEF Call, pwm_config, pwm_set_polarity, pwm_enable, pwm_disable, Enter, Typed, TypeOK
<1>6. CASE pwm_enable(ch) \/ pwm_disable(ch)
  <2>1. todo'[ch] = Pins[ch]
    BY <1>2, <1>6 DEF pwm_enable, pwm_disable, Typed, TypeOK
  <2>2. \A m : PinsDone(ch, m)' BY <2>1 DEF PinsDone
  <2> QED BY <1>4, <1>5, <2>2 DEF PinLoop
<1>7. CASE ~(pwm_enable(ch) \/ pwm_disable(ch))
  <2>1. UNCHANGED enabled /\ op'[ch] # "disable"
    BY <1>7 DEF Call, pwm_config, pwm_set_polarity, Enter, Typed, TypeOK
  <2> QED BY <1>4, <1>5, <2>1 DEF PinLoop
<1> QED BY <1>6, <1>7

(* A turn of the loop moves one pin of its own channel from "to visit" to  *)
(* "being visited" or from there to "done"; the other channel's pins, as   *)
(* the lists are disjoint, are left alone.                                 *)
LEMMA PinLoopDriver ==
  ASSUME Typed, Flags, PinLoop, NEW ch \in Channels, Driver(ch)
  PROVE  PinLoop'
<1> SUFFICES ASSUME ~EarlyCalls PROVE PinLoop' BY DEF PinLoop
<1>0. UNCHANGED enabled BY DriverFrame
<1>1. CASE gpio_request(ch)
  <2>1. PICK q \in todo[ch] : /\ pin' = [pin EXCEPT ![ch] = q]
                              /\ todo' = [todo EXCEPT ![ch] = @ \ {q}]
    BY <1>1 DEF gpio_request
  <2>2. pin[ch] = NULL /\ UNCHANGED <<mux, op>>
    BY <1>1 DEF gpio_request, callVars
  <2>3. ASSUME NEW d \in Channels, NEW m, PinsDone(d, m) PROVE PinsDone(d, m)'
    BY <2>1, <2>2, <2>3, ChannelFacts DEF PinsDone, Typed, TypeOK
  <2> QED BY <1>0, <2>2, <2>3 DEF PinLoop
<1>2. CASE pin_config_set(ch)
  <2>1. /\ pin[ch] \in Pins[ch]
        /\ op[ch] \in {"enable", "disable"}
        /\ pin' = [pin EXCEPT ![ch] = NULL]
        /\ UNCHANGED <<todo, op>>
    BY <1>2 DEF pin_config_set, Typed, CallShape, callVars
  <2>2. ASSUME NEW d \in Channels, d # ch, NEW m, PinsDone(d, m) PROVE PinsDone(d, m)'
    <3>1. \A p \in Pins[d] : mux'[p] = mux[p]
      BY <1>2, <2>1, <2>2, SunxiAssumption, ChannelFacts DEF pin_config_set, Typed, TypeOK
    <3> QED BY <2>1, <2>2, <3>1 DEF PinsDone, Typed, TypeOK
  <2>3. ASSUME PinsDone(ch, MuxFor(op[ch])) PROVE PinsDone(ch, MuxFor(op[ch]))'
    <3>1. MuxFor(op[ch])' = MuxFor(op[ch]) BY <2>1 DEF MuxFor
    <3>2. SUFFICES ASSUME NEW p \in Pins[ch] \ AxpPins
                   PROVE  p \in todo'[ch] \/ p = pin'[ch] \/ mux'[p] = MuxFor(op[ch])
      BY <3>1 DEF PinsDone
    <3>3. p \in AllPins BY ChannelFacts
    <3>4. CASE p = pin[ch]
      BY <1>2, <3>2, <3>3, <3>4 DEF pin_config_set, Typed, TypeOK
    <3>5. CASE p # pin[ch]
      BY <1>2, <2>1, <2>3, <3>2, <3>3, <3>5 DEF pin_config_set, PinsDone, Typed, TypeOK
    <3> QED BY <3>4, <3>5
  <2>4. CASE op[ch] = "enable"
    BY <1>0, <2>1, <2>2, <2>3, <2>4 DEF PinLoop, Flags, MuxFor
  <2>5. CASE op[ch] = "disable"
    BY <1>0, <2>1, <2>2, <2>3, <2>5 DEF PinLoop, Flags, MuxFor
  <2> QED BY <2>1, <2>4, <2>5
<1>3. CASE ~gpio_request(ch) /\ ~pin_config_set(ch)
  <2>1. UNCHANGED <<mux, todo, pin>> /\ \A d \in Channels : op'[d] \in {op[d], "none"}
    BY <1>3 DEF Driver, sunxi_pwm_read_reg, sunxi_pwm_config, sunxi_pwm_set_polarity,
                sunxi_pwm_enable, sunxi_pwm_disable, Return, pinVars, Typed, TypeOK
  <2> QED BY <1>0, <2>1 DEF PinLoop, PinsDone
<1> QED BY <1>1, <1>2, <1>3

LEMMA PinLoopNext == Typed /\ Flags /\ PinLoop /\ [Next]_vars => PinLoop'
<1>1. ASSUME PinLoop, UNCHANGED vars PROVE PinLoop'
  BY <1>1 DEF PinLoop, PinsDone, vars, pinVars, callVars
<1> QED BY <1>1, PinLoopEnvironment, PinLoopCall, PinLoopDriver DEF Next

LEMMA PinsInvariant == Spec => [](Calls /\ PinLoop)
<1>1. Init => PinLoop BY DEF Init, PinLoop
<1>2. Calls /\ PinLoop /\ [Next]_vars => PinLoop'
  BY PinLoopNext DEF Calls
<1> QED BY <1>1, <1>2, CallsInvariant, PTL DEF Spec

(* When consumers come after the pin lists are read, pwm_disable() returns *)
(* with the output cut off at every pin of the channel's list that is not  *)
(* the power chip's (core.c:446, pwm-sunxi.c:209-224), for lists of any    *)
(* length and whatever happens while the loop over them sleeps.            *)
THEOREM DisableStopsOutput ==
  ASSUME ~EarlyCalls
  PROVE  Spec => DisableStops
<1>1. ASSUME Calls, PinLoop, [Next]_vars, NEW ch \in Channels,
             op[ch] = "disable", op'[ch] = "none",
             NEW p \in Pins[ch] \ AxpPins
      PROVE  mux'[p] = "disabled"
  <2>1. Typed /\ Flags BY <1>1 DEF Calls
  <2>2. sunxi_pwm_disable(ch)
    <3>1. ~Environment /\ ~UNCHANGED vars
      BY <1>1, EnvironmentFrame DEF callVars, vars
    <3>2. PICK d \in Channels : Call(d) \/ Driver(d) BY <1>1, <3>1 DEF Next
    <3>3. ~Call(d)
      BY <1>1, <2>1 DEF Call, pwm_config, pwm_set_polarity, pwm_enable, pwm_disable,
                        CanCall, Enter, Typed, TypeOK
    <3> QED
      BY <1>1, <2>1, <3>2, <3>3
      DEF Driver, gpio_request, pin_config_set, sunxi_pwm_read_reg, sunxi_pwm_config,
          sunxi_pwm_set_polarity, sunxi_pwm_enable, sunxi_pwm_disable, Return, callVars,
          Typed, TypeOK
  <2>3. todo[ch] = {} /\ pin[ch] = NULL /\ mux' = mux
    BY <2>1, <2>2 DEF sunxi_pwm_disable, Typed, CallShape, Return, pinVars
  <2> QED BY <1>1, <2>3, ChannelFacts DEF PinLoop, PinsDone
<1>2. Calls /\ PinLoop /\ [Next]_vars =>
        [\A ch \in Channels :
           op[ch] = "disable" /\ op'[ch] = "none" =>
             \A p \in Pins[ch] \ AxpPins : mux'[p] = "disabled"]_vars
  BY <1>1
<1> QED BY PinsInvariant, <1>2, PTL DEF Spec, DisableStops

-----------------------------------------------------------------------------
(* The registers: what a write to the shared control register preserves.   *)

(* Without preemption every write to the control register starts from what *)
(* is in it, and changes one field of the channel whose call it is.        *)
LEMMA CtrlWrite ==
  ASSUME Calls, ~Preempt, NEW ch \in Channels, Driver(ch)
  PROVE  \/ ctrl' = ctrl
         \/ op[ch] = "config" /\ arg[ch].bypass /\ ch = 0 /\ ctrl' = ctrl \union {BypassBit}
         \/ /\ op[ch] = "config" /\ ~arg[ch].bypass
            /\ ctrl' = (ctrl \ PrescalerBits(ch)) \union arg[ch].code
         \/ op[ch] = "normal" /\ ctrl' = ctrl \union {PolarityBit(ch)}
         \/ op[ch] = "inversed" /\ ctrl' = ctrl \ {PolarityBit(ch)}
         \/ op[ch] = "enable" /\ ctrl' = ctrl \union EnableBits(ch)
<1>1. temp[ch] # NULL => temp[ch] = ctrl BY DEF Calls, Held
<1>2. CASE \/ gpio_request(ch) \/ pin_config_set(ch) \/ sunxi_pwm_read_reg(ch)
           \/ sunxi_pwm_disable(ch)
  BY <1>2 DEF gpio_request, pin_config_set, sunxi_pwm_read_reg, sunxi_pwm_disable, hardware
<1>3. CASE sunxi_pwm_config(ch)
  BY <1>1, <1>3 DEF sunxi_pwm_config, ConfigBits
<1>4. CASE sunxi_pwm_set_polarity(ch)
  BY <1>1, <1>4 DEF sunxi_pwm_set_polarity
<1>5. CASE sunxi_pwm_enable(ch)
  BY <1>1, <1>5 DEF sunxi_pwm_enable, EnableMask
<1> QED BY <1>2, <1>3, <1>4, <1>5 DEF Driver

(* No write takes an enable bit away, and none but a change of polarity of *)
(* the channel itself touches its polarity bit.                            *)
LEMMA CtrlKeeps ==
  ASSUME Calls, ~Preempt, NEW ch \in Channels, Driver(ch), NEW d \in Channels
  PROVE  /\ EnableBits(d) \subseteq ctrl => EnableBits(d) \subseteq ctrl'
         /\ op[d] \notin {"normal", "inversed"} =>
              (PolarityBit(d) \in ctrl <=> PolarityBit(d) \in ctrl')
<1>1. ch \in {0, 1} /\ d \in {0, 1} BY ChannelFacts
<1>2. op[ch] = "config" => arg[ch].code \subseteq 0 .. 3
  BY RequestFacts DEF Calls, Typed, CallShape
<1>3. /\ EnableBits(d) \intersect PrescalerBits(ch) = {}
      /\ EnableBits(d) \intersect {PolarityBit(ch), BypassBit} = {}
      /\ PolarityBit(d) \notin PrescalerBits(ch) /\ PolarityBit(d) \notin EnableBits(ch)
      /\ PolarityBit(d) # BypassBit /\ PolarityBit(d) \notin 0 .. 3
      /\ d # ch => PolarityBit(d) # PolarityBit(ch)
  BY <1>1, FieldsApart
<1> QED BY <1>2, <1>3, CtrlWrite

(* A suspend and the resume after it lose nothing of the two registers.    *)
LEMMA EnvironmentKeeps ==
  ASSUME Typed, Environment
  PROVE  UNCHANGED <<KeptCtrl, KeptPeriod>>
<1>1. CASE sunxi_pwm_suspend
  BY <1>1 DEF sunxi_pwm_suspend, KeptCtrl, KeptPeriod, Runnable
<1>2. CASE sunxi_pwm_resume
  BY <1>2 DEF sunxi_pwm_resume, RestoredCtrl, KeptCtrl, KeptPeriod
<1>3. CASE ~sunxi_pwm_suspend /\ ~sunxi_pwm_resume
  <2>1. UNCHANGED <<hardware, record_reg, power>>
    BY <1>3 DEF Environment, pwm_module_init, pwm_module_exit, sunxi_pwm_get_sys_config,
                OtherRequest, OtherFree
  <2> QED BY <2>1 DEF KeptCtrl, KeptPeriod, hardware
<1> QED BY <1>1, <1>2, <1>3

LEMMA DriverAwake ==
  ASSUME NEW ch \in Channels, Driver(ch)
  PROVE  /\ power = "on" /\ power' = "on"
         /\ KeptCtrl = ctrl /\ KeptCtrl' = ctrl'
         /\ KeptPeriod = period /\ KeptPeriod' = period'
<1>1. power = "on"
  BY DEF Driver, gpio_request, pin_config_set, sunxi_pwm_read_reg, sunxi_pwm_config,
         sunxi_pwm_set_polarity, sunxi_pwm_enable, sunxi_pwm_disable, Runnable
<1> QED BY <1>1, DriverFrame DEF KeptCtrl, KeptPeriod

LEMMA RunningNext == Calls /\ Running /\ [Next]_vars => Running'
<1> SUFFICES ASSUME Calls, Running, [Next]_vars, ~Preempt PROVE Running' BY DEF Running
<1>0. Typed /\ enabled \subseteq Channels BY DEF Calls, Typed, TypeOK
<1>1. CASE Environment
  <2>1. enabled' \subseteq enabled
    BY <1>1 DEF Environment, pwm_module_init, pwm_module_exit, sunxi_pwm_get_sys_config,
                sunxi_pwm_suspend, sunxi_pwm_resume, OtherRequest, OtherFree
  <2> QED BY <1>0, <1>1, <2>1, EnvironmentFrame, EnvironmentKeeps DEF Running, callVars
<1>2. ASSUME NEW ch \in Channels, Call(ch) PROVE Running'
  <2>1. UNCHANGED KeptCtrl BY <1>2, CallFrame DEF KeptCtrl, hardware
  <2>2. \A d \in enabled' : op'[d] # "enable" => d \in enabled /\ op[d] # "enable"
    BY <1>0, <1>2 DEF Call, pwm_config, pwm_set_polarity, pwm_enable, pwm_disable, CanCall,
                      Enter, Typed, TypeOK
  <2> QED BY <2>1, <2>2 DEF Running
<1>3. ASSUME NEW ch \in Channels, Driver(ch) PROVE Running'
  <2>1. UNCHANGED enabled BY <1>3, DriverFrame
  <2>2. SUFFICES ASSUME NEW d \in enabled, op'[d] # "enable"
                 PROVE  EnableBits(d) \subseteq ctrl'
    BY <1>3, <2>1, DriverAwake DEF Running
  <2>3. CASE op[d] # "enable"
    BY <1>0, <1>3, <2>2, <2>3, CtrlKeeps, DriverAwake DEF Running
  <2>4. CASE op[d] = "enable"
    <3>1. sunxi_pwm_enable(d)
      BY <1>0, <1>3, <2>2, <2>4
      DEF Driver, gpio_request, pin_config_set, sunxi_pwm_read_reg, sunxi_pwm_config,
          sunxi_pwm_set_polarity, sunxi_pwm_enable, sunxi_pwm_disable, Return, callVars,
          Typed, TypeOK
    <3> QED BY <3>1 DEF sunxi_pwm_enable, EnableMask
  <2> QED BY <2>3, <2>4
<1>4. CASE UNCHANGED vars
  BY <1>4 DEF Running, KeptCtrl, vars, hardware, callVars
<1> QED BY <1>1, <1>2, <1>3, <1>4 DEF Next

(* Without preemption, and with consumers that come after the pin lists    *)
(* are read, an enabled channel runs and reaches its pins.                 *)
THEOREM EnabledChannelsRun ==
  ASSUME ~Preempt, ~EarlyCalls
  PROVE  Spec => []EnabledRuns
<1>1. Init => Running BY DEF Init, Running
<1>2. Calls /\ PinLoop /\ Running => EnabledRuns
  <2> SUFFICES ASSUME Calls, PinLoop, Running, power = "on",
                      NEW ch \in enabled, op[ch] = "none"
               PROVE  /\ EnableBits(ch) \subseteq ctrl
                      /\ \A p \in Pins[ch] \ AxpPins : mux[p] = "pwm"
    BY DEF EnabledRuns
  <2>1. ch \in Channels BY DEF Calls, Typed, TypeOK
  <2>2. EnableBits(ch) \subseteq ctrl BY DEF Running, KeptCtrl
  <2>3. todo[ch] = {} /\ pin[ch] = NULL /\ PinsDone(ch, "pwm")
    BY <2>1 DEF Calls, Typed, CallShape, PinLoop
  <2> QED BY <2>1, <2>2, <2>3, ChannelFacts DEF PinsDone
<1> QED BY <1>1, <1>2, PinsInvariant, RunningNext, PTL DEF Spec

(* Without preemption the polarity of an enabled channel never changes,    *)
(* whatever either channel's caller does.                                  *)
THEOREM PolarityFixed == ASSUME ~Preempt PROVE Spec => PolarityFixedWhileEnabled
<1>1. ASSUME Calls, [Next]_vars, NEW ch \in Channels,
             power = "on", power' = "on", ch \in enabled
      PROVE  PolarityBit(ch) \in ctrl <=> PolarityBit(ch) \in ctrl'
  <2>1. op[ch] \notin {"normal", "inversed"} BY <1>1 DEF Calls, Flags
  <2>2. CASE Environment
    BY <1>1, <2>2, EnvironmentKeeps DEF Calls, KeptCtrl
  <2>3. ASSUME NEW d \in Channels, Call(d) PROVE ctrl' = ctrl
    BY <2>3, CallFrame DEF hardware
  <2>4. ASSUME NEW d \in Channels, Driver(d)
        PROVE  PolarityBit(ch) \in ctrl <=> PolarityBit(ch) \in ctrl'
    BY <1>1, <2>1, <2>4, CtrlKeeps
  <2>5. CASE UNCHANGED vars BY <2>5 DEF vars, hardware
  <2> QED BY <1>1, <2>2, <2>3, <2>4, <2>5 DEF Next
<1>2. Calls /\ [Next]_vars =>
        [\A ch \in Channels :
           power = "on" /\ power' = "on" /\ ch \in enabled =>
             (PolarityBit(ch) \in ctrl <=> PolarityBit(ch) \in ctrl')]_vars
  BY <1>1
<1> QED BY CallsInvariant, <1>2, PTL DEF Spec, PolarityFixedWhileEnabled

-----------------------------------------------------------------------------
(* The cycle: what the last pwm_config() of a channel left in force.       *)

(* A write that does not configure keeps the period registers, the bypass  *)
(* of channel 0 and the prescaler code of channel 0.                       *)
LEMMA CycleFrame ==
  ASSUME Calls, NEW ch \in Channels, Driver(ch), ~sunxi_pwm_config(ch)
  PROVE  /\ UNCHANGED <<period, asked>>
         /\ ~Preempt => /\ BypassBit \in ctrl => BypassBit \in ctrl'
                        /\ ctrl' \intersect 0 .. 3 = ctrl \intersect 0 .. 3
<1>1. UNCHANGED <<period, asked>>
  BY DEF Driver, gpio_request, pin_config_set, sunxi_pwm_read_reg, sunxi_pwm_set_polarity,
         sunxi_pwm_enable, sunxi_pwm_disable, hardware
<1>2. ASSUME ~Preempt
      PROVE  /\ BypassBit \in ctrl => BypassBit \in ctrl'
             /\ ctrl' \intersect 0 .. 3 = ctrl \intersect 0 .. 3
  <2>1. ch \in {0, 1} BY ChannelFacts
  <2>2. \/ ctrl' = ctrl
        \/ ctrl' = ctrl \union {PolarityBit(ch)}
        \/ ctrl' = ctrl \ {PolarityBit(ch)}
        \/ ctrl' = ctrl \union EnableBits(ch)
    <3>1. op[ch] # "config" \/ ctrl' = ctrl
      BY DEF Driver, gpio_request, pin_config_set, sunxi_pwm_read_reg,
             sunxi_pwm_set_polarity, sunxi_pwm_enable, sunxi_pwm_disable, hardware
    <3> QED BY <1>2, <3>1, CtrlWrite
  <2>3. /\ PolarityBit(ch) # BypassBit /\ PolarityBit(ch) \notin 0 .. 3
        /\ EnableBits(ch) \intersect 0 .. 3 = {}
    BY <2>1, FieldsApart
  <2> QED BY <2>2, <2>3
<1> QED BY <1>1, <1>2

(* pwm_config itself: its own period register, and of the control register *)
(* the bypass of channel 0 or the code in bits 0 to 3.                     *)
LEMMA CycleWrite ==
  ASSUME Calls, NEW ch \in Channels, sunxi_pwm_config(ch)
  PROVE  LET r == arg[ch] IN
         /\ r \in Requests
         /\ asked' = [asked EXCEPT ![ch] = r]
         /\ period' = IF r.bypass THEN period ELSE [period EXCEPT ![ch] = r]
         /\ ~Preempt /\ r.bypass /\ ch = 0 => BypassBit \in ctrl'
         /\ ~Preempt /\ ch # 0 /\ BypassBit \in ctrl => BypassBit \in ctrl'
         /\ ~Preempt /\ ~r.bypass /\ ch = 0 => ctrl' \intersect 0 .. 3 = r.code
<1> DEFINE r == arg[ch]
<1>1. r \in Requests BY DEF Calls, Typed, CallShape, sunxi_pwm_config
<1>2. r.code \subseteq 0 .. 3 /\ r.bypass \in BOOLEAN BY <1>1, RequestFacts
<1>3. Driver(ch) /\ op[ch] = "config" /\ ch \in {0, 1}
  BY ChannelFacts DEF Driver, sunxi_pwm_config
<1>4. /\ asked' = [asked EXCEPT ![ch] = r]
      /\ period' = IF r.bypass THEN period ELSE [period EXCEPT ![ch] = r]
  BY <1>2 DEF sunxi_pwm_config
<1>5. ASSUME ~Preempt
      PROVE  /\ r.bypass /\ ch = 0 => BypassBit \in ctrl'
             /\ ch # 0 /\ BypassBit \in ctrl => BypassBit \in ctrl'
             /\ ~r.bypass /\ ch = 0 => ctrl' \intersect 0 .. 3 = r.code
  <2>1. \/ ctrl' = ctrl /\ (r.bypass => ch # 0) /\ r.bypass
        \/ r.bypass /\ ch = 0 /\ ctrl' = ctrl \union {BypassBit}
        \/ ~r.bypass /\ ctrl' = (ctrl \ PrescalerBits(ch)) \union r.code
    BY <1>2, <1>5 DEF sunxi_pwm_config, ConfigBits, Calls, Held
  <2>2. BypassBit \notin PrescalerBits(ch) BY <1>3, FieldsApart
  <2>3. PrescalerBits(0) = 0 .. 3 BY DEF PrescalerBits
  <2> QED BY <1>2, <2>1, <2>2, <2>3
<1> QED BY <1>1, <1>4, <1>5

LEMMA ConfiguredNext == Calls /\ Configured /\ [Next]_vars => Configured'
<1> SUFFICES ASSUME Calls, Configured, [Next]_vars PROVE Configured' OBVIOUS
<1>0. Typed BY DEF Calls
<1>1. CASE Environment
  BY <1>0, <1>1, EnvironmentFrame, EnvironmentKeeps DEF Configured
<1>2. ASSUME NEW ch \in Channels, Call(ch) PROVE Configured'
  BY <1>2, CallFrame DEF Configured, KeptCtrl, KeptPeriod, hardware
<1>3. ASSUME NEW ch \in Channels, Driver(ch), ~sunxi_pwm_config(ch) PROVE Configured'
  BY <1>3, CycleFrame, DriverAwake DEF Configured
<1>4. ASSUME NEW ch \in Channels, sunxi_pwm_config(ch) PROVE Configured'
  <2>1. Driver(ch) BY <1>4 DEF Driver
  <2>2. /\ KeptCtrl = ctrl /\ KeptCtrl' = ctrl'
        /\ KeptPeriod = period /\ KeptPeriod' = period'
    BY <2>1, DriverAwake
  <2>3. /\ asked \in [Channels -> Requests \union {NULL}]
        /\ period \in [Channels -> Requests \union {NULL}]
    BY <1>0 DEF Typed, TypeOK
  <2>4. arg[ch] \in Requests BY <1>4, CycleWrite
  <2>5. SUFFICES ASSUME NEW d \in Channels, asked'[d] # NULL
                 PROVE  LET r == asked'[d] IN
                        /\ ~Preempt /\ r.bypass /\ d = 0 => BypassBit \in ctrl'
                        /\ ~r.bypass => period'[d] = r
                        /\ /\ ~Preempt /\ ~r.bypass /\ d = 0
                           /\ \A c \in Channels \ {d} : asked'[c] = NULL
                           => ctrl' \intersect 0 .. 3 = r.code
    BY <2>2 DEF Configured
  <2>6. CASE d = ch
    BY <1>4, <2>3, <2>4, <2>6, CycleWrite
  <2>7. CASE d # ch
    <3>1. asked'[ch] # NULL /\ asked'[d] = asked[d]
      BY <1>4, <2>3, <2>4, <2>7, CycleWrite, RequestFacts
    <3>2. period'[d] = period[d]
      BY <1>4, <2>3, <2>7, CycleWrite
    <3>3. ~Preempt /\ d = 0 /\ BypassBit \in ctrl => BypassBit \in ctrl'
      BY <1>4, <2>7, CycleWrite
    <3> QED BY <2>2, <2>5, <2>7, <3>1, <3>2, <3>3 DEF Configured
  <2> QED BY <2>6, <2>7
<1>5. CASE UNCHANGED vars
  BY <1>5 DEF Configured, KeptCtrl, KeptPeriod, vars, hardware
<1> QED BY <1>1, <1>2, <1>3, <1>4, <1>5 DEF Next

(* Without preemption the cycle of a channel stays as its last             *)
(* pwm_config() left it: the period register always, the bypass of channel *)
(* 0 always, the prescaler code of channel 0 until channel 1 is configured.*)
THEOREM CycleIsKept == ASSUME ~Preempt PROVE Spec => []CycleKept
<1>1. Init => Configured BY DEF Init, Configured
<1>2. Calls /\ Configured => CycleKept
  <2> SUFFICES ASSUME Calls, Configured, power = "on", NEW ch \in Channels, asked[ch] # NULL
               PROVE  LET r == asked[ch] IN
                      /\ r.bypass /\ ch = 0 => Bypassed(ch)
                      /\ ~r.bypass => period[ch] = r
                      /\ /\ ~r.bypass /\ ch = 0
                         /\ \A d \in Channels \ {ch} : asked[d] = NULL
                         => CodeBits(ch) = r.code
    BY DEF CycleKept
  <2>1. CodeBits(0) = ctrl \intersect 0 .. 3
    <3>1. CodeBits(0) = {b - 0 : b \in ctrl \intersect 0 .. 3}
      BY DEF CodeBits, PrescalerBits
    <3> QED BY <3>1
  <2> QED BY <2>1 DEF Configured, KeptCtrl, KeptPeriod, Bypassed
<1> QED BY <1>1, <1>2, CallsInvariant, ConfiguredNext, PTL DEF Spec

(* All of it together: the inductive invariant of the driver.              *)
THEOREM SunxiInvariant == Spec => []SunxiInv
<1>1. Init => Running /\ Configured /\ NoGpioLeak
  BY SunxiAssumption DEF Init, Running, Configured, NoGpioLeak
<1>2. Calls /\ PinLoop /\ Running /\ Configured /\ NoGpioLeak /\ [Next]_vars
        => (Running /\ Configured /\ NoGpioLeak)'
  BY RunningNext, ConfiguredNext, GpioNext DEF Calls
<1>3. Calls /\ PinLoop /\ Running /\ Configured /\ NoGpioLeak => SunxiInv
  BY DEF Calls, Typed, SunxiInv
<1> QED BY <1>1, <1>2, <1>3, PinsInvariant, PTL DEF Spec
=============================================================================
