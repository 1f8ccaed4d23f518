------------------------------ MODULE MiscLife ------------------------------
(***************************************************************************)
(* The small modules that register a misc device, each under the name of   *)
(* its device: "exp" (src/gc2023/gc2023.c), "IRMotionDet" (led/mt_gpio.c), *)
(* "myled" (led/led.c), "mygpio" (gpio/gpio.c), "mypwm" (module/pwm/pwm.c),*)
(* "misc_led" (chgled/chgled.c) and "mis_pwm" (pwm.old/pwm.c): loading and *)
(* unloading with every failure on the way, the files and attributes they  *)
(* offer while they come and go, and the pins they share.                  *)
(*                                                                         *)
(* A module's init and exit are sequences of steps; between two of them,   *)
(* and between two steps of a call, other tasks run.  An open file holds a *)
(* reference on the module; a store to an attribute holds the attribute.   *)
(***************************************************************************)
EXTENDS Integers, Sequences, FiniteSets

CONSTANTS
  Tasks,        \* user tasks, each with at most one open file
  Pins,         \* the GPIO pins followed here
  ZeroPin,      \* pin 0, where a port that was never read from sys_config points
  Pin36,        \* pin 36, named in mypwm's pwm_init
  PwmPins,      \* the pins sys_config lists for channel 0
  AxpPins,      \* the pins of the AXP chip
  Boards,       \* bound: the modules used together, by which tasks, and the
                \* pins of MATA_GPIO's port_0, port_1, ... in sys_config
  Named,        \* bound: the pins that are named to mygpio
  Numbers,      \* bound: numbers written to attributes
  NULL

Drivers == {"exp", "IRMotionDet", "myled", "mygpio", "mypwm", "misc_led", "mis_pwm"}

(* What ends a pin's name: "/", as the code looks for, or "|", as in       *)
(* src/gpio/test/gpio_test.c.  A name that the end of the text ends is     *)
(* taken like one before "/", with the level that memory holds there.      *)
Separators == {"/", "|"}

ASSUME MiscAssumption ==
  /\ {ZeroPin, Pin36} \union PwmPins \union AxpPins \union Named \subseteq Pins
  /\ IsFiniteSet(Pins)
  /\ \A b \in Boards : b.active \subseteq Drivers /\ b.tasks \subseteq Tasks /\ b.script \in Seq(Pins)
  /\ Numbers \subseteq Nat
  /\ NULL \notin Tasks \union Pins \union Drivers
  /\ NULL \notin {"auto", "stale", "sensor", "dangling"}
  /\ NULL # [op |-> "exp"]

VARIABLES
  board,        \* the board of this behaviour
  mem,          \* mem[d]: "out", "loading", "in", "leaving", or "dead" when
                \* the task that loads it died in its init function
  todo,         \* todo[d]: the steps of init or exit still to be taken
  live,         \* live[d]: what the module has registered: "misc", "group",
                \* "driver", "input", "timer"
  left,         \* left[d]: what was registered when its memory was freed
  failed,       \* history: the modules whose init has returned an error
  stuck,        \* the modules with an attribute held by a task that died
  down,         \* the kernel has panicked or followed a stale pointer
  fd,           \* fd[t]: the device t has open; "stale" if its module was
                \* freed under it
  call,         \* call[t]: the call t is in
  pins,         \* pins[p]: who requested it, its function, its output latch
  pwm0,         \* channel 0: prescaler, period register, enable bits
  static,       \* the static variables of the modules
  wrote,        \* history: wrote[p], the level of the last write to mygpio
                \* that named p, if nothing else has touched p since
  alone         \* history: the writers to mygpio whose pin no other touched

life == <<mem, todo, live, left, failed, stuck>>
io   == <<fd, call>>
gpio == <<pins, wrote, alone>>
vars == <<board, life, down, io, gpio, pwm0, static>>

-----------------------------------------------------------------------------
(* The init and exit functions.                                            *)

InitSteps(d) ==
  CASE d = "exp"         -> <<"misc", "driver">>
    [] d = "IRMotionDet" -> <<"misc", "group", "input", "script", "request", "output",
                              "register">>
    [] d = "myled"       -> <<"ports", "misc">>
    [] d = "mygpio"      -> <<"misc">>
    [] d = "mypwm"       -> <<"sys_config", "pin36", "config", "enable", "misc">>
    [] d \in {"misc_led", "mis_pwm"} -> <<"misc", "group">>

(* Fault: the exit functions of the misc devices only print.               *)
ExitSteps_NothingDone(d) == <<>>

ExitSteps(d) ==
  CASE d = "exp"         -> <<"driver", "misc">>
    [] d = "IRMotionDet" -> <<"group", "misc", "input", "free">>
    [] d \in {"misc_led", "mis_pwm"} -> <<"group", "misc">>
    [] OTHER             -> <<"misc">>

(* The static variables as a freshly loaded module finds them.             *)
Fresh ==
  [ glb_sd |-> NULL, client_lost |-> FALSE,
    input |-> NULL, feedback_port |-> ZeroPin,
    led_port_cfg |-> [i \in 0 .. 9 |-> ZeroPin], i |-> 0,
    list |-> {}, ahead |-> {}, func_status |-> 0, time_delay |-> 0 ]

OwnFields(d) ==
  CASE d = "exp"         -> {"glb_sd", "client_lost"}
    [] d = "IRMotionDet" -> {"input", "feedback_port"}
    [] d = "myled"       -> {"led_port_cfg", "i"}
    [] d = "mypwm"       -> {"list", "ahead"}
    [] d = "mis_pwm"     -> {"func_status", "time_delay"}
    [] OTHER             -> {}

Kinds == {"misc", "group", "driver", "input", "timer"}

Calls ==
  [op : {"exp", "stale"}] \union
  [op : {"read", "write"}, asked : Named, pin : Pins \union {NULL}, high : BOOLEAN,
   at : {"direction", "value"}] \union
  [op : {"store"}, dev : Drivers, attr : {"bright", "func", "ctl"}, n : Nat]

PinStates ==
  [owner : Drivers \union {NULL, "auto"}, func : {"boot", "in", "out", "pwm"}, high : BOOLEAN]

EntireCycles == 0 .. 65536
ActiveCycles == 0 .. 65535

Pwm0Regs == [code : 0 .. 15, entire : EntireCycles, active : ActiveCycles, on : BOOLEAN]

Statics ==
  [ glb_sd : {NULL, "sensor", "dangling"}, client_lost : BOOLEAN,
    input : {NULL, "allocated", "registered", "freed"}, feedback_port : Pins,
    led_port_cfg : [0 .. 9 -> Pins], i : 0 .. 10, list : SUBSET Pins,
    ahead : SUBSET Pins, func_status : Nat, time_delay : {0, 5} ]

TypeOK ==
  /\ board \in Boards
  /\ mem \in [Drivers -> {"out", "loading", "in", "leaving", "dead"}]
  /\ \A d \in Drivers :
       \E n \in 0 .. 7 : todo[d] \in {SubSeq(InitSteps(d), n + 1, Len(InitSteps(d))),
                                      SubSeq(ExitSteps(d), n + 1, Len(ExitSteps(d)))}
  /\ live \in [Drivers -> SUBSET Kinds] /\ left \in [Drivers -> SUBSET Kinds]
  /\ failed \subseteq Drivers /\ stuck \subseteq Drivers /\ down \in BOOLEAN
  /\ fd \in [Tasks -> Drivers \union {NULL, "stale"}]
  /\ call \in [Tasks -> Calls \union {NULL}]
  /\ pins \in [Pins -> PinStates] /\ pwm0 \in Pwm0Regs /\ static \in Statics
  /\ wrote \in [Pins -> BOOLEAN \union {NULL}] /\ alone \subseteq Tasks

Init ==
  /\ board \in Boards
  /\ mem = [d \in Drivers |-> "out"] /\ todo = [d \in Drivers |-> <<>>]
  /\ live = [d \in Drivers |-> {}] /\ left = [d \in Drivers |-> {}]
  /\ failed = {} /\ stuck = {} /\ down = FALSE
  /\ fd = [t \in Tasks |-> NULL] /\ call = [t \in Tasks |-> NULL]
  /\ pins = [p \in Pins |-> [owner |-> NULL, func |-> "boot", high |-> FALSE]]
  /\ pwm0 = [code |-> 0, entire |-> 0, active |-> 0, on |-> FALSE]
  /\ static = Fresh
  /\ wrote = [p \in Pins |-> NULL] /\ alone = {}

InCall(t, ops) == call[t] # NULL /\ call[t].op \in ops

-----------------------------------------------------------------------------
(* Loading and unloading, as kernel/module.c does it.                      *)

At(d, phase, step) ==
  /\ mem[d] = phase /\ todo[d] # <<>> /\ Head(todo[d]) = step
  /\ UNCHANGED board

Done(d) == todo' = [todo EXCEPT ![d] = Tail(@)]

(* The open files of a module hold references on it, through fops.owner.   *)
(* Fault: the file operations name no owner.                               *)
Refs_NoOwner(d) == {}

Refs(d) == {t \in Tasks : fd[t] = d}

insmod(d) ==
  /\ d \in board.active /\ mem[d] = "out"
  /\ mem' = [mem EXCEPT ![d] = "loading"]
  /\ todo' = [todo EXCEPT ![d] = InitSteps(d)]
  /\ static' = [f \in DOMAIN static |-> IF f \in OwnFields(d) THEN Fresh[f] ELSE static[f]]
  /\ UNCHANGED <<board, live, left, failed, stuck, down, io, gpio, pwm0>>

init_returns(d) ==
  /\ mem[d] = "loading" /\ todo[d] = <<>>
  /\ mem' = [mem EXCEPT ![d] = "in"]
  /\ UNCHANGED <<board, todo, live, left, failed, stuck, down, io, gpio, pwm0, static>>

(* Init returns an error: the module is freed with what it has registered, *)
(* and under those who opened its device meanwhile.                        *)
Abort(d) ==
  /\ mem' = [mem EXCEPT ![d] = "out"] /\ todo' = [todo EXCEPT ![d] = <<>>]
  /\ left' = [left EXCEPT ![d] = @ \union live[d]] /\ live' = [live EXCEPT ![d] = {}]
  /\ failed' = failed \union {d}
  /\ fd' = [t \in Tasks |-> IF fd[t] = d THEN "stale" ELSE fd[t]]
  /\ UNCHANGED <<stuck, call>>

rmmod(d) ==
  /\ mem[d] = "in" /\ Refs(d) = {}
  /\ mem' = [mem EXCEPT ![d] = "leaving"]
  /\ todo' = [todo EXCEPT ![d] = ExitSteps(d)]
  /\ UNCHANGED <<board, live, left, failed, stuck, down, io, gpio, pwm0, static>>

exit_returns(d) ==
  /\ mem[d] = "leaving" /\ todo[d] = <<>>
  /\ mem' = [mem EXCEPT ![d] = "out"]
  /\ left' = [left EXCEPT ![d] = @ \union live[d]] /\ live' = [live EXCEPT ![d] = {}]
  /\ UNCHANGED <<board, todo, failed, stuck, down, io, gpio, pwm0, static>>

(* Whoever walks misc_list, reads the name of an input device that is left *)
(* or calls through a file of a freed module follows a stale pointer, and  *)
(* what happens from then on is not known.                                 *)
use_after_free ==
  /\ \/ \E d \in board.active : left[d] \intersect {"misc", "input"} # {}
     \/ \E t \in Tasks : fd[t] = "stale"
  /\ down' = TRUE
  /\ UNCHANGED <<board, life, io, gpio, pwm0, static>>

-----------------------------------------------------------------------------
(* The steps that register and unregister.                                 *)

Gain(d, kind) == live' = [live EXCEPT ![d] = @ \union {kind}]
Lose(d, kind) == live' = [live EXCEPT ![d] = @ \ {kind}]

(* The modules that return the error of a failed misc_register(); the      *)
(* others drop it.                                                         *)
ChecksRegister == {"IRMotionDet", "mis_pwm"}

(* A name that is still taken is refused, like an exhausted memory.        *)
misc_register(d) ==
  /\ At(d, "loading", "misc")
  /\ \/ /\ "misc" \notin left[d]
        /\ Gain(d, "misc") /\ Done(d)
        /\ UNCHANGED <<mem, left, failed, stuck, io>>
     \/ /\ d \in ChecksRegister
        /\ Abort(d)
     \/ /\ d \notin ChecksRegister
        /\ Done(d)
        /\ UNCHANGED <<mem, live, left, failed, stuck, io>>
  /\ UNCHANGED <<down, gpio, pwm0, static>>

(* chgled_init has no return statement: what sysfs_create_group() returned *)
(* is still in the register.  Without a device, chgled dereferences what   *)
(* misc_register() left in this_device.                                    *)
sysfs_create_group(d) ==
  /\ At(d, "loading", "group")
  /\ \/ /\ "misc" \in live[d]
        /\ Gain(d, "group") /\ Done(d)
        /\ UNCHANGED <<mem, left, failed, stuck, io>>
     \/ /\ "misc" \in live[d] /\ d = "IRMotionDet"
        /\ Done(d)
        /\ UNCHANGED <<mem, live, left, failed, stuck, io>>
     \/ /\ "misc" \in live[d] /\ d # "IRMotionDet"
        /\ Abort(d)
     \/ /\ "misc" \notin live[d]
        /\ mem' = [mem EXCEPT ![d] = "dead"]
        /\ UNCHANGED <<todo, live, left, failed, stuck, io>>
  /\ UNCHANGED <<down, gpio, pwm0, static>>

cci_dev_init_helper ==
  /\ At("exp", "loading", "driver")
  /\ \/ /\ Gain("exp", "driver") /\ Done("exp")
        /\ UNCHANGED <<mem, left, failed, stuck, io>>
     \/ Abort("exp")
  /\ UNCHANGED <<down, gpio, pwm0, static>>

(* The I2C device of the sensor is there at load, or comes later.          *)
sensor_probe ==
  /\ "driver" \in live["exp"] /\ static.glb_sd # "sensor"
  /\ static' = [static EXCEPT !.glb_sd = "sensor"]
  /\ UNCHANGED <<board, life, down, io, gpio, pwm0>>

(* sensor_info is freed; glb_sd keeps pointing to it, and so do the calls  *)
(* that have read it.                                                      *)
Freed ==
  /\ call' = [t \in Tasks |-> IF call[t] = [op |-> "exp"] THEN [op |-> "stale"] ELSE call[t]]
  /\ UNCHANGED <<board, mem, left, failed, stuck, down, fd, gpio, pwm0>>

(* The module that created the I2C device takes it away.                   *)
sensor_remove ==
  /\ "driver" \in live["exp"] /\ static.glb_sd = "sensor"
  /\ static' = [static EXCEPT !.glb_sd = "dangling", !.client_lost = TRUE]
  /\ Freed
  /\ UNCHANGED <<todo, live>>

cci_dev_exit_helper ==
  /\ At("exp", "leaving", "driver")
  /\ Lose("exp", "driver") /\ Done("exp")
  /\ \/ /\ static.glb_sd = "sensor"
        /\ static' = [static EXCEPT !.glb_sd = "dangling"]
        /\ Freed
     \/ /\ static.glb_sd # "sensor"
        /\ UNCHANGED <<mem, left, failed, stuck, down, io, gpio, pwm0, static>>

(* Of a device whose registration failed there is nothing to delete.       *)
misc_deregister(d) ==
  /\ At(d, "leaving", "misc")
  /\ Lose(d, "misc") /\ Done(d)
  /\ UNCHANGED <<mem, left, failed, stuck, down, io, gpio, pwm0, static>>

(* The stores under way have ended; those of a dead task never do.         *)
Drained(d) ==
  /\ d \notin stuck
  /\ \A t \in Tasks : ~(InCall(t, {"store"}) /\ call[t].dev = d)

(* A file is taken out of the directory, and then the stores to it are     *)
(* waited for; a group's files go together here.  Until then they take     *)
(* stores.                                                                 *)
sysfs_remove_group(d) ==
  /\ At(d, "leaving", "group")
  /\ \/ "group" \in live[d] /\ Lose(d, "group") /\ UNCHANGED todo
     \/ "group" \notin live[d] /\ Drained(d) /\ Done(d) /\ UNCHANGED live
  /\ UNCHANGED <<mem, left, failed, stuck, down, io, gpio, pwm0, static>>

-----------------------------------------------------------------------------
(* gpiolib.  Setting the direction of a pin that nobody has requested      *)
(* requests it; neither a direction nor a value asks who has.              *)

Requested(s, p, who) == [s EXCEPT ![p].owner = IF @ = NULL THEN who ELSE @]

Input(s, p) == [Requested(s, p, "auto") EXCEPT ![p].func = "in"]

(* Fault: the latch is set and the pin is left as it is.                   *)
Output_NoFunction(s, p, h) == [Requested(s, p, "auto") EXCEPT ![p].high = h]

Output(s, p, h) == [Requested(s, p, "auto") EXCEPT ![p].func = "out", ![p].high = h]

Value(s, p, h) == [s EXCEPT ![p].high = h]

(* History: t, or a module, has touched the pins P.                        *)
Aims(t, P) == InCall(t, {"write"}) /\ call[t].asked \in P

Touched(P, t) ==
  /\ wrote' = [p \in Pins |-> IF p \in P THEN NULL ELSE wrote[p]]
  /\ alone' = {u \in alone : u = t \/ ~Aims(u, P)}

Wrote(t, p, h) ==
  /\ wrote' = [wrote EXCEPT ![p] = IF t \in alone THEN h ELSE NULL]
  /\ alone' = {u \in alone : u # t /\ ~Aims(u, {p})}

-----------------------------------------------------------------------------
(* led_init.  The keys are port_0 to port_9: the character after "9" is    *)
(* ":", and no port_: is in sys_config.                                    *)

(* Fault: the number is printed into the key, which then may be port_10.   *)
PortExists_TwoDigits(i) == i < Len(board.script)

PortExists(i) == i < Len(board.script) /\ i <= 9

script_get_ports ==
  /\ At("myled", "loading", "ports")
  /\ \/ /\ PortExists(static.i)
        /\ static' = [static EXCEPT !.led_port_cfg[static.i] = board.script[static.i + 1], !.i = @ + 1]
        /\ pins' = Output(pins, board.script[static.i + 1], FALSE)
        /\ Touched({board.script[static.i + 1]}, NULL)
        /\ UNCHANGED todo
     \/ /\ ~PortExists(static.i)
        /\ Done("myled")
        /\ UNCHANGED <<static, gpio>>
  /\ UNCHANGED <<mem, live, left, failed, stuck, down, io, pwm0>>

-----------------------------------------------------------------------------
(* feedback_gpio_init and feedback_gpio_uninit of IRMotionDet, whose       *)
(* results are dropped: an error only skips what comes after it.           *)

Ir == "IRMotionDet"

Skip == todo' = [todo EXCEPT ![Ir] = <<>>]

input_allocate_device ==
  /\ At(Ir, "loading", "input")
  /\ \/ static' = [static EXCEPT !.input = "allocated"] /\ Done(Ir)
     \/ UNCHANGED static /\ Skip
  /\ UNCHANGED <<mem, live, left, failed, stuck, down, io, gpio, pwm0>>

script_get_item ==
  /\ At(Ir, "loading", "script")
  /\ \/ /\ board.script # <<>>
        /\ static' = [static EXCEPT !.feedback_port = board.script[1]] /\ Done(Ir)
     \/ /\ board.script = <<>>
        /\ static' = [static EXCEPT !.input = "freed"] /\ Skip
  /\ UNCHANGED <<mem, live, left, failed, stuck, down, io, gpio, pwm0>>

gpio_request ==
  LET p == static.feedback_port IN
  /\ At(Ir, "loading", "request")
  /\ \/ pins[p].owner = NULL /\ pins' = Requested(pins, p, Ir) /\ Done(Ir)
     \/ pins[p].owner # NULL /\ UNCHANGED pins /\ Skip
  /\ UNCHANGED <<mem, live, left, failed, stuck, down, io, wrote, alone, pwm0, static>>

(* An input first, then an output at low, which is where it stays.         *)
feedback_direction ==
  LET p == static.feedback_port IN
  /\ At(Ir, "loading", "output")
  /\ pins' = Output(Input(pins, p), p, FALSE) /\ Touched({p}, NULL) /\ Done(Ir)
  /\ UNCHANGED <<mem, live, left, failed, stuck, down, io, pwm0, static>>

(* gpio_free does not ask who has requested the pin.                       *)
gpio_free(p) == pins' = [pins EXCEPT ![p].owner = NULL]

input_register_device ==
  /\ At(Ir, "loading", "register") /\ Done(Ir)
  /\ \/ /\ static' = [static EXCEPT !.input = "registered"] /\ Gain(Ir, "input")
        /\ UNCHANGED pins
     \/ /\ gpio_free(static.feedback_port)
        /\ UNCHANGED <<static, live>>
  /\ UNCHANGED <<mem, left, failed, stuck, down, io, wrote, alone, pwm0>>

(* A registered device only loses a reference and stays registered; one    *)
(* that init has freed already is freed again.                             *)
input_free_device ==
  /\ At(Ir, "leaving", "input") /\ Done(Ir)
  /\ \/ static.input # "freed" /\ UNCHANGED down
     \/ static.input = "freed" /\ down' \in BOOLEAN
  /\ UNCHANGED <<mem, live, left, failed, stuck, io, gpio, pwm0, static>>

feedback_gpio_free ==
  /\ At(Ir, "leaving", "free") /\ Done(Ir)
  /\ gpio_free(static.feedback_port)
  /\ UNCHANGED <<mem, live, left, failed, stuck, down, io, wrote, alone, pwm0, static>>

-----------------------------------------------------------------------------
(* pwm_init of mypwm; its pwm_config() of no device is refused.            *)

Pwm == "mypwm"

sunxi_pwm_get_sys_config ==
  /\ At(Pwm, "loading", "sys_config") /\ Done(Pwm)
  /\ static' = [static EXCEPT !.list = PwmPins, !.ahead = PwmPins]
  /\ UNCHANGED <<mem, live, left, failed, stuck, down, io, gpio, pwm0>>

gpio_direction_output_36 ==
  /\ At(Pwm, "loading", "pin36") /\ Done(Pwm)
  /\ pins' = Output(pins, Pin36, TRUE) /\ Touched({Pin36}, NULL)
  /\ UNCHANGED <<mem, live, left, failed, stuck, down, io, pwm0, static>>

(* The cycle is that of 1 kHz on the undivided clock whatever the period   *)
(* says, and fits the register at once; duty and period give the share.    *)
duty_ns == 1000
period_ns == 193747
entire_cycles == (24000000 \div 1000) \div 1
active_cycles == (duty_ns * entire_cycles + period_ns \div 2) \div period_ns

sunxi_pwm_config ==
  /\ At(Pwm, "loading", "config") /\ Done(Pwm)
  /\ pwm0' = [pwm0 EXCEPT !.code = 15, !.entire = entire_cycles - 1, !.active = active_cycles]
  /\ UNCHANGED <<mem, live, left, failed, stuck, down, io, gpio, static>>

(* Pin by pin the list gets its PWM function, but for pins of the AXP chip,*)
(* and is freed, whoever has requested it; pin_config_set() may sleep.     *)
PwmPin(s) == [s EXCEPT !.func = "pwm", !.owner = NULL]
AxpPin(s) == [s EXCEPT !.owner = NULL]

pin_config_set(p) ==
  /\ At(Pwm, "loading", "enable") /\ p \in static.ahead
  /\ pins' = [pins EXCEPT ![p] = IF p \in AxpPins THEN AxpPin(@) ELSE PwmPin(@)]
  /\ Touched({p}, NULL)
  /\ static' = [static EXCEPT !.ahead = @ \ {p}]
  /\ UNCHANGED <<life, down, io, pwm0>>

sunxi_pwm_enable ==
  /\ At(Pwm, "loading", "enable") /\ static.ahead = {} /\ Done(Pwm)
  /\ pwm0' = [pwm0 EXCEPT !.on = TRUE]
  /\ UNCHANGED <<mem, live, left, failed, stuck, down, io, gpio, static>>

-----------------------------------------------------------------------------
(* Files.  misc_open finds the devices that have file operations.          *)

misc_open(t, d) ==
  /\ fd[t] = NULL /\ call[t] = NULL
  /\ d \in {"exp", "myled", "mygpio", "mypwm"} /\ "misc" \in live[d]
  /\ mem[d] \in {"loading", "in"}                  \* else the module is going
  /\ fd' = [fd EXCEPT ![t] = d]
  /\ UNCHANGED <<board, life, down, call, gpio, pwm0, static>>

close(t) ==
  /\ fd[t] \in Drivers /\ call[t] = NULL
  /\ fd' = [fd EXCEPT ![t] = NULL]
  /\ UNCHANGED <<board, life, down, call, gpio, pwm0, static>>

CanCall(t, d) == fd[t] = d /\ call[t] = NULL /\ UNCHANGED board

(* A task that dies in a call has its file closed for it.                  *)
Die(t) ==
  /\ fd' = [fd EXCEPT ![t] = NULL]
  /\ call' = [call EXCEPT ![t] = NULL]

(* A write to /dev/exp reads glb_sd once and then sleeps in transfers; it  *)
(* dies of one that is NULL still.                                         *)
matata_exposure_write(t) ==
  /\ CanCall(t, "exp")
  /\ \/ /\ static.glb_sd = NULL
        /\ Die(t)
     \/ /\ static.glb_sd # NULL
        /\ call' = [call EXCEPT ![t] =
                      [op |-> IF static.glb_sd = "sensor" THEN "exp" ELSE "stale"]]
        /\ UNCHANGED fd
  /\ UNCHANGED <<life, down, gpio, pwm0, static>>

matata_exposure_return(t) ==
  /\ InCall(t, {"exp", "stale"})
  /\ down' \in IF call[t].op = "stale" THEN BOOLEAN ELSE {FALSE}
  /\ call' = [call EXCEPT ![t] = NULL]
  /\ UNCHANGED <<board, life, fd, gpio, pwm0, static>>

(* led_read, led_write, and pwm_read, pwm_write of mypwm, whose ports are  *)
(* never read from sys_config and so are all pin 0.                        *)
SetPort(p, h) ==
  /\ pins' = Value(pins, p, h) /\ Touched({p}, NULL)
  /\ UNCHANGED <<life, down, io, pwm0, static>>

led_read(t) == CanCall(t, "myled") /\ SetPort(static.led_port_cfg[0], FALSE)

(* The index is a byte, and nobody compares it with the ten ports (see     *)
(* src/led/app/led_app.c:23).  Beyond them lies the number of some pin, or *)
(* of none: the task dies, the kernel goes astray, or nothing happens.     *)
PortBeyond(t) ==
  \/ \E p \in Pins, h \in BOOLEAN : SetPort(p, h)
  \/ Die(t) /\ UNCHANGED <<life, down, gpio, pwm0, static>>
  \/ down' \in BOOLEAN /\ UNCHANGED <<life, io, gpio, pwm0, static>>

led_write(t) ==
  /\ CanCall(t, "myled")
  /\ \/ \E i \in 0 .. 9, h \in BOOLEAN : SetPort(static.led_port_cfg[i], h)
     \/ PortBeyond(t)

pwm_read(t) == CanCall(t, Pwm) /\ SetPort(ZeroPin, FALSE)

pwm_write(t) ==
  /\ CanCall(t, Pwm)
  /\ (\E h \in BOOLEAN : SetPort(ZeroPin, h)) \/ PortBeyond(t)

-----------------------------------------------------------------------------
(* gpio_read and gpio_write of mygpio.                                     *)

(* A name that goes up to "/" or the end of the text is found; one that a  *)
(* "|" and a level follow is that of no pin, and the search ends at 500.   *)
Found(p, sep) == IF sep = "|" THEN NULL ELSE p

gpio_read(t) ==
  /\ CanCall(t, "mygpio")
  /\ \E p \in Named, sep \in Separators :
       call' = [call EXCEPT ![t] = [op |-> "read", asked |-> p, pin |-> Found(p, sep),
                                    high |-> FALSE, at |-> "direction"]]
  /\ UNCHANGED <<life, down, fd, gpio, pwm0, static>>

(* The level is the character after the separator.                         *)
gpio_write(t) ==
  /\ CanCall(t, "mygpio")
  /\ \E p \in Named, sep \in Separators, h \in BOOLEAN :
       call' = [call EXCEPT ![t] = [op |-> "write", asked |-> p, pin |-> Found(p, sep),
                                    high |-> h, at |-> "direction"]]
  /\ alone' = alone \union {t}
  /\ UNCHANGED <<life, down, fd, pins, wrote, pwm0, static>>

InGpio(t, at) ==
  /\ InCall(t, {"read", "write"}) /\ call[t].at = at
  /\ UNCHANGED <<board, life, down, pwm0, static>>

(* A direction of pin 500 is refused.                                      *)
gpio_direction(t) ==
  LET c == call[t] IN
  /\ InGpio(t, "direction")
  /\ call' = [call EXCEPT ![t].at = "value"]
  /\ \/ /\ c.pin # NULL
        /\ pins' = IF c.op = "read" THEN Input(pins, c.pin) ELSE Output(pins, c.pin, c.high)
        /\ Touched({c.pin}, t)
     \/ /\ c.pin = NULL
        /\ UNCHANGED gpio
  /\ UNCHANGED fd

(* The value of pin 500 is that of no chip: the task dies of it, or of a   *)
(* chip that has pins up there.                                            *)
gpio_value(t) ==
  LET c == call[t] IN
  /\ InGpio(t, "value")
  /\ \/ /\ c.pin # NULL /\ c.op = "write"
        /\ pins' = Value(pins, c.pin, c.high)
        /\ Wrote(t, c.pin, c.high)
        /\ call' = [call EXCEPT ![t] = NULL] /\ UNCHANGED fd
     \/ /\ c.pin = NULL \/ c.op = "read"
        /\ call' = [call EXCEPT ![t] = NULL]
        /\ alone' = alone \ {t}
        /\ UNCHANGED <<pins, wrote, fd>>
     \/ /\ c.pin = NULL
        /\ Die(t)
        /\ alone' = alone \ {t}
        /\ UNCHANGED <<pins, wrote>>

-----------------------------------------------------------------------------
(* Attributes.                                                             *)

(* sysfs takes the attribute, unless it is being removed.  The numbers     *)
(* written to a "ctl" make no difference here.                             *)
Attributes(d) == IF d = "mis_pwm" THEN {"bright", "func"} ELSE {"ctl"}

sysfs_get_active(t, d) ==
  /\ fd[t] = NULL /\ call[t] = NULL
  /\ "group" \in live[d]
  /\ \E a \in Attributes(d), n \in Numbers :
       /\ a = "ctl" => n = 0
       /\ call' = [call EXCEPT ![t] = [op |-> "store", dev |-> d, attr |-> a, n |-> n]]
  /\ UNCHANGED <<board, life, down, fd, gpio, pwm0, static>>

InStore(t, d, attr) ==
  /\ InCall(t, {"store"}) /\ call[t].dev = d /\ call[t].attr = attr
  /\ UNCHANGED <<board, mem, todo, left, failed, down, gpio, pwm0>>

(* Fault: the attribute is taken again where it is to be given back.       *)
Returned_Kept(t) == call

Returned(t) == [call EXCEPT ![t] = NULL]

(* The task dies with the attribute held.                                  *)
DieHolding(t, d) == Die(t) /\ stuck' = stuck \union {d}

(* IRMotionDet keeps a number that no code under way reads, and chgled's   *)
(* set_func only prints.                                                   *)
ctl_store(t) ==
  /\ InStore(t, Ir, "ctl") \/ InStore(t, "misc_led", "ctl")
  /\ call' = Returned(t)
  /\ UNCHANGED <<live, stuck, fd, static>>

(* set_pwm of pwm.old reads led_pwm_info->dev, and led_pwm_info is never   *)
(* set: every level of brightness kills who sets it.                       *)
Levels_pwm_store == 0 .. 31

pwm_store(t) ==
  /\ InStore(t, "mis_pwm", "bright")
  /\ \/ call[t].n \in Levels_pwm_store /\ DieHolding(t, "mis_pwm")
     \/ call[t].n \notin Levels_pwm_store /\ call' = Returned(t) /\ UNCHANGED <<stuck, fd>>
  /\ UNCHANGED <<live, static>>

(* LOW_BRIGHT, HIGHT_BRIGHT, MIDIUM_BRIGHT and ON_OFF set a brightness, and*)
(* with switch_delay assigned behind it switch_timer never runs.           *)
Brightness == 0 .. 3
ADJEST_BRGHT == 4

NewDelay(n) ==
  IF n \in Brightness THEN 0 ELSE IF n = ADJEST_BRGHT THEN 5 ELSE static.time_delay

set_func(t) ==
  LET n == call[t].n IN
  /\ InStore(t, "mis_pwm", "func")
  /\ static' = [static EXCEPT !.func_status = n, !.time_delay = NewDelay(n)]
  /\ \/ /\ n \in Brightness
        /\ Lose("mis_pwm", "timer") /\ DieHolding(t, "mis_pwm")
     \/ /\ n \notin Brightness
        /\ IF NewDelay(n) # 0 THEN Gain("mis_pwm", "timer") ELSE UNCHANGED live
        /\ call' = Returned(t)
        /\ UNCHANGED <<stuck, fd>>

(* The levels for which led_timer_func calls set_pwm(); the first tick     *)
(* comes to level 1.                                                       *)
Levels_led_timer == 0 .. 31
FirstLevel == 1

(* A set_pwm() in a timer panics the kernel, and so does a tick after the  *)
(* module has been freed.                                                  *)
led_timer_func ==
  /\ "timer" \in live["mis_pwm"] \union left["mis_pwm"]
  /\ FirstLevel \in Levels_led_timer
  /\ down' = TRUE
  /\ UNCHANGED <<board, life, io, gpio, pwm0, static>>

-----------------------------------------------------------------------------

Load(d) ==
  \/ misc_register(d) \/ sysfs_create_group(d) \/ init_returns(d)
  \/ d = "exp" /\ cci_dev_init_helper
  \/ d = "myled" /\ script_get_ports
  \/ d = Ir /\ ( \/ input_allocate_device \/ script_get_item \/ gpio_request
                 \/ feedback_direction \/ input_register_device )
  \/ d = Pwm /\ ( \/ sunxi_pwm_get_sys_config \/ gpio_direction_output_36
                  \/ sunxi_pwm_config \/ sunxi_pwm_enable
                  \/ \E p \in Pins : pin_config_set(p) )

Unload(d) ==
  \/ misc_deregister(d) \/ sysfs_remove_group(d) \/ exit_returns(d)
  \/ d = "exp" /\ cci_dev_exit_helper
  \/ d = Ir /\ (input_free_device \/ feedback_gpio_free)

Begin(t) ==
  \/ \E d \in board.active : misc_open(t, d) \/ sysfs_get_active(t, d)
  \/ close(t)
  \/ matata_exposure_write(t) \/ led_read(t) \/ led_write(t) \/ pwm_read(t) \/ pwm_write(t)
  \/ gpio_read(t) \/ gpio_write(t)

Continue(t) ==
  \/ matata_exposure_return(t)
  \/ gpio_direction(t) \/ gpio_value(t)
  \/ ctl_store(t) \/ pwm_store(t) \/ set_func(t)

ModuleStep(d) ==
  ~down /\ \/ mem[d] = "loading" /\ Load(d)
           \/ mem[d] = "leaving" /\ Unload(d)

CallStep(t) == ~down /\ call[t] # NULL /\ Continue(t)

Next ==
  \/ \E d \in board.active : ModuleStep(d) \/ (~down /\ (insmod(d) \/ rmmod(d)))
  \/ \E t \in board.tasks : CallStep(t) \/ (~down /\ Begin(t))
  \/ ~down /\ (sensor_probe \/ sensor_remove \/ led_timer_func \/ use_after_free)

(* The kernel runs the task inside an init or exit function, and a task    *)
(* inside a call.  Nobody is obliged to load, open, store or close.        *)
Fairness ==
  /\ \A d \in Drivers : WF_vars(ModuleStep(d))
  /\ \A t \in Tasks : WF_vars(CallStep(t))

Spec == Init /\ [][Next]_vars /\ Fairness

-----------------------------------------------------------------------------
(* Correctness                                                             *)

(* Nothing a module has registered, and no pin it has requested, survives  *)
(* its memory, but for what the code cannot give back: the misc device of  *)
(* an init that failed later (gc2023.c:1491-1494, pwm.old/pwm.c:552-558),  *)
(* the input device that IRMotionDet only frees (mt_gpio.c:147), and the   *)
(* timer that pwm.old's exit does not delete (pwm.old/pwm.c:561-565).      *)
LeftBehind(d) ==
  (IF d \in failed THEN {"misc"} ELSE {}) \union
  (IF d = "IRMotionDet" THEN {"input"} ELSE {}) \union
  (IF d = "mis_pwm" THEN {"timer"} ELSE {})

LeavesNothing ==
  \A d \in Drivers :
    /\ left[d] \subseteq LeftBehind(d)
    /\ mem[d] = "out" => live[d] = {} /\ \A p \in Pins : pins[p].owner # d

(* A task inside a driver's function has the module in memory, through its *)
(* open file or the attribute it holds (gc2023.c:1346, mt_gpio.c:179), and *)
(* a writer to /dev/exp has a sensor unless the I2C device was taken away  *)
(* (gc2023.c:1340, 1497-1503): unloading the driver waits for it.          *)
CallHasModule ==
  \A t \in Tasks :
    call[t] # NULL =>
      /\ call[t].op = "store" => mem[call[t].dev] # "out"
      /\ call[t].op = "exp" => mem["exp"] = "in" \/ mem["exp"] = "loading"
      /\ call[t].op = "stale" => static.client_lost
      /\ call[t].op \in {"read", "write"} => mem["mygpio"] # "out"

Drives(p, h) == pins[p].func = "out" /\ pins[p].high = h

(* A pin that was written through mygpio under its name, a "/" and a level *)
(* is an output at that level until some other call or init addresses it   *)
(* (gpio.c:58-82): what other modules and files do meanwhile, and the      *)
(* going of mygpio, leave it alone.                                        *)
PinAsWritten == \A p \in Pins : wrote[p] # NULL => Drives(p, wrote[p])

(* A write that nobody disturbs sets the pin it names, in the form of      *)
(* src/gpio/test/gpio_test.c:31-36 as well, with a "|" between name and    *)
(* level.  It does not hold: no pin is found under such a name.            *)
WriteSetsPin ==
  [][\A t \in alone :
       call[t] # NULL /\ call'[t] = NULL /\ fd'[t] = "mygpio" =>
         pins'[call[t].asked].func = "out" /\ pins'[call[t].asked].high = call[t].high]_vars

(* Loading and unloading end, however many stores and writes there are     *)
(* (chgled.c:99-112, mt_gpio.c:153-183), unless the loading task died, or a*)
(* task died with an attribute held, or the kernel went down.              *)
LoadsAndUnloadsEnd ==
  \A d \in Drivers :
    mem[d] \in {"loading", "leaving"} ~>
      mem[d] \in {"in", "out", "dead"} \/ d \in stuck \/ down
=============================================================================
