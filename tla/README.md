# Kernel drivers of the S3 module: specification, model checking, proofs

This directory holds TLA+ specifications of the repository's kernel code, the TLC
configurations that check them, and TLAPS proofs of what the configurations check. Line
numbers refer to the sources as they are in the repository.

## The system

The repository is a collection of out-of-tree modules for a Linux 3.4 kernel on an
Allwinner board (one ARMv7 core, not preemptible: the checked-in `pwm.ko` carries
`vermagic=3.4.39 mod_unload modversions ARMv7 p2v8`). That excludes `CONFIG_PREEMPT` and
SMP, not `CONFIG_PREEMPT_VOLUNTARY`, under which `mutex_lock` may give up the processor
before it takes the lock; such a kernel is `Preempt = TRUE` below.

| part | source | state it keeps | operations | modelled in |
|---|---|---|---|---|
| PWM framework | `module/pwm/core.c` | list, bitmap and radix tree of chips; flags of each device; lookup table; devres entries | chip add/remove, request, put, `pwm_get`, devm variants | `PwmCore`, `PwmPromise` |
| Allwinner PWM driver, control | `module/pwm/pwm-sunxi.c` | control, bypass and period registers, pin functions, GPIOs, saved registers | config, polarity, enable, disable, suspend, resume, load, unload | `SunxiPwm` |
| Allwinner PWM driver, arithmetic | `module/pwm/pwm-sunxi.c:101-162` | none | period and duty to register fields | `SunxiConfig` |
| LED PWM driver | `pwm/pwm.c` | two timers, mode and value per LED, shared range, handler statics, period registers | command through sysfs, timer handlers, load, unload | `LedTimer` |
| Image sensor driver | `gc2023/gc2023.c` | page select and registers, `sensor_info`, power, reset, `glb_sd` | exposure, gain, format, rate, init, reset, power, `/dev/exp`; probe, remove, load, unload | `Gc2023`; `MiscLife` |
| Older LED PWM driver | `pwm.old/pwm.c` | two attributes, a timer, a pointer that is never set | stores, tick, load, unload | `MiscLife` |
| Motion detector | `led/mt_gpio.c` (and a copy under `module/`) | a GPIO, an input device, an attribute | load with four error paths, unload, store | `MiscLife` |
| GPIO LED | `led/led.c` (and a copy) | ten ports | read, write, load, unload | `MiscLife` |
| GPIO access | `gpio/gpio.c` (and a copy) | none of its own; the pins | read, write, load, unload | `MiscLife` |
| Charge LED | `chgled/chgled.c` | an attribute that only prints | store, load, unload | `MiscLife` |
| Fixed-duty PWM driver | `module/pwm/pwm.c` | channel 0 and its pins | configure and enable at load, read, write, unload | `MiscLife` |

How they interact: a consumer calls the framework; the framework calls the Allwinner
driver's callbacks through `chip->ops` and keeps a reference on the driver's module for
each device that is requested; the driver core calls probe, remove, suspend and resume.
The LED driver and the Allwinner driver program the same PWM block and exclude each
other only by not being loaded together. The camera framework calls the sensor driver
through v4l2 operations, one at a time; `/dev/exp` calls the same functions with nothing
in between. The small drivers meet in the kernel's tables: misc devices on `misc_list`,
attributes that a store holds and an unload waits for, files that hold a reference on
their module, and pins that whoever names them may change or free.

What is hard in them: tables that must agree after partial failures, references on
modules against unbinding, sleeping calls on two channels that share a register, timer
ticks in the middle of a command, transfers of two tasks that share a page select,
modules that go while their files and attributes are in use or whose init fails
half-way, and arithmetic in 32 bits. `PROJECT.json` lists the hazards line by line with
the properties that watch them.

## The modules

**PwmCore** follows core.c. A critical section under `pwm_lock` is one step; `pwm_get`,
which holds `pwm_lookup_lock` through its scan and takes `pwm_lock` inside it for each
matching entry, is one step per entry. `Preempt` says whether a task may be switched out
between two critical sections: FALSE on the kernel the objects were built for, TRUE
elsewhere. `SysfsUnbind` says whether a driver may be unbound while its devices are
requested. `chip_driver_remove` is remove as the driver core sees it: the result of
`pwmchip_remove` is dropped and devres frees the chip's memory. A member of `Chips` is
the memory of one probe, `Name[c]` the device probed, so that a device can be probed
again, with a fresh chip at another base, while a freed chip of it is still on the list;
`list_add` puts the fresh one in front of it. Freed memory is idealised: a task that
reads it finds what was there, or something that makes its call fail, or dies with its
mutex held (`UseAfterFree`, `pc = "oops"`); that garbage passes every test and leads to
a wrong grant is left out. `radix_tree_insert` may fail for any subset of the numbers,
as its result is ignored. Left out: the device-tree lookup, which this board does not
use, debugfs output, and `chip_data`.

**PwmPromise** is what clients may rely on: a device is granted while its chip is
registered, to one holder at a time, and a chip whose devices are granted does not go.
`PwmCore!ImplementsPromise` is the refinement, with `present` the chips that are listed
and not freed, and `held` the handles. It holds where no driver is unbound while in use
(`SysfsUnbind = FALSE`): otherwise the finding at pwm-sunxi.c:273 breaks it, a chip with
granted devices going away.

**SunxiPwm** keeps the control register as the set of its one-bits. Each callback is its
pin loop (which may sleep in `pin_config_set`), the read of the register and the write.
The driver shifts by the global number of a device, `base + i`; its chip is the only one
of this kernel and asks for a dynamic base, so the numbers are the channels 0 and 1. (A
chip probed while a freed one holds these numbers gets others and shifts past its
fields, which is the aftermath of `core_unbind_busy` and not followed.) An init that
fails after `class_create` leaves the class, whose name every later init trips over
(`loaded = "spoilt"`); what earlier failures and the exit leave, a device number and a
character device that nobody can reach, changes nothing else. One caller per channel is
an assumption that `ExclusiveOwnership` of PwmCore discharges. `EarlyCalls` allows calls
before the pin lists are read, which pwm-sunxi.c:348-353 does after registering the
driver.

**SunxiConfig** is the arithmetic of `sunxi_pwm_config` in 32-bit words (kept as two
halves, because TLC's integers are 32 bits signed), swept over periods and duties.
`DutyAsAsked` compares products exactly: active cycles times period with duty times
cycle.

**LedTimer** has one action per assignment of a command, since a timer tick, in softirq
context, can interrupt it anywhere (the objects confirm that the compiler emits the
stores one by one), and one action for a handler, which nothing interrupts on this
build. At most one tick falls into a command: ticks are a jiffy (10 ms) apart. A command
is three ints, whatever `simple_strtoul` made of the text, and sums wrap as ints and
32-bit words do; a mode nobody made does nothing. `pwm_init` drops the results of
`misc_register` and `sysfs_create_group`: without the group (`group = FALSE`) no command
comes, without the device the loading task dies with the timers running (`loaded =
"stuck"`). `lasted` is history: for how many ticks the LED has been lit or dark. The
handlers share only `pwm_max`, which commands write, so following one LED's timer
(`Ticking`) loses nothing.

**Gc2023** has one step per transfer. A call is the sequence of its transfers and
assignments to `sensor_info`, which mix with those of a writer to `/dev/exp`. Each of
the three attempts of `sensor_write` is a step of its own, so that an attempt that
failed may have arrived and another may replay its value after transfers of the other
task; when the third has failed a table download stops, everything else goes on.
Exposures and gains of the ioctl are ints of any sign. A text written to `/dev/exp` that
is not four hexadecimal digits leaves bytes unset, and the exposure is any value up to
twenty bits then. `page` is what register 0xfe selects. The registers followed are the
exposure and the gain in page 0 and the three registers of pages 1 and 3 that have the
same addresses. `sensor_reset` clears them and takes no lock. `sure` and `mixed` are
history: what the calls that returned ensure.

**MiscLife** holds the seven modules that register a misc device. Init and exit of each
are sequences of steps (`InitSteps`, `ExitSteps`); the step at the head of `todo[d]` is
taken by the action of its name, which may fail where the code can meet a failure and
does then what the code does: returns the error (`Abort`), drops it, skips the rest, or
dies. mypwm's loop over its pins is a step per pin, as `pin_config_set` may sleep; pins
of the AXP chip keep their function there. `live` is what the module has registered,
`left` what was registered when its memory was freed; whoever reaches that, on
`misc_list` or the list of input devices, by a stale file or by a timer, takes the
kernel `down`. Of the kernel the model has what these steps lean on: `fops.owner` keeps
a module with open files (`Refs`), an attribute takes stores until it is removed, which
then waits for those under way (`Drained`; the files of a group go together here, while
the kernel removes one after the other), and gpiolib requests a pin whose direction is
set and never asks who requested a pin whose value is. A text written to mygpio is the
pin it names and what ends the name (`/` or `|`); a name that is not found addresses pin
500, which is of no chip (the task dies of it) or of one that has pins up there. Nobody
compares the index written to myled or mypwm with their ten ports, and led/app/led_app.c
passes any index from its command line: one beyond them finds in memory the number of
any pin or of none (`PortBeyond`). A text without a `/` in its first ten characters,
which gpio/app/gpio_app.c may send, leaves the copied name without an end and is that of
no pin either. `PortExists` takes it that sys_config has no key `port_:`, `:` being the
character after `9`; with one, led.c:65 would write past the array. `board` is chosen
once: the modules, tasks and sys_config ports of a behaviour.

`PwmCoreProofs`, `PwmGetProofs`, `SunxiPwmProofs`, `SunxiConfigProofs`,
`LedTimerProofs`, `Gc2023Proofs` and `MiscLifeProofs` hold the theorems, below.

`MC...` modules give the constants values. Operators marked `Fault:` are not used by any
specification: they are variants of a definition that a slip in the code could produce,
kept to show that the properties notice.

## What is checked

| run | what it shows | bounds |
|---|---|---|
| `core_framework` | type, registry, ownership, references, handles, no stale chip, release at detach, no fault in `pwm_get`, most specific lookup entry, the promise is kept | 2 chips (2 and 1 devices) in 2 modules, 2 consumers, 4 numbers, bases -1, 0, 1, 3, 4, a table with every kind of entry; not preemptible |
| `core_unbind` | calls return and detaches end on a preemptible kernel with drivers unbound in use and probed again | 2 chips of one device, one PWM each, 2 consumers |
| `core_unbind_busy` | finding: a chip unbound while requested stays listed in freed memory | 1 chip of 2 PWMs, 2 consumers |
| `sunxi_channels` | enabled channels run, disabled ones stop, polarity and cycle stay, GPIOs are given back | 2 channels, one with two pins (symmetric: no order of the pins is fixed), one with a pin of the power chip, a bypass and another request |
| `sunxi_prescaler` | finding: channel 1 overwrites the prescaler of channel 0 | 2 channels |
| `config_duty` | register fields fit; duty exact at the ends, monotone and to one percent; cycle to two percent | 36 periods at the thresholds of the code, 17 duties |
| `config_overflow` | finding: 32-bit overflow below 500 microseconds (and from 859 ms) | 7 periods |
| `led_modes` | breaths, fades, blinks at their rates, toggles, cycle length, no timer after unload | every mode alone, pairs of commands, ranges 50, 60, 120, a negative value, a mode and a value that are out of range; rates up to 70 ticks |
| `led_fade` | finding: a tick between mode and value draws a wrong brightness | one fade |
| `sensor` | format, exposure and gain are in the sensor after the calls; bus quiet while power switches; with resets | 4 calls, 3 failing attempts, 1 writer, 3 exposures (one negative), 3 gains, 2 windows |
| `misc_life` | loading and unloading leave nothing behind but what is listed below; calls keep their module; pins stay as mygpio wrote them; loading and unloading end | ten boards: exp, chgled, pwm.old and mygpio alone with 2 tasks; exp with chgled, IRMotionDet (with and without its port), myled and mypwm each with mygpio, and 1 task; myled with 11 ports in sys_config; 3 pins, one of them the AXP chip's; any number of loads |
| `gpio_test` | finding: a text in the form of the test program names no pin | mygpio, 2 tasks |

*Why the bounds are enough.* In PwmCore two consumers give every race on a device; two
chips in two modules give every relation between a chip and a module; four numbers leave
room for a hole that is too small, exactly right, and past the end. The theorems below
lift the safety properties to every size. Two channels are all the hardware has. LED
commands affect each other only through the value, the range and the counters, so pairs
of commands cover a change of mode; a larger value in a blink or a fade only lengthens
it. In the sensor four calls are power and three more: a download cut short and a call
into the page it left, or a call and a standby or a reset. Three failing attempts lose
one transfer, which is enough to cut a download, or have three transfers replayed. The
modules of `misc_life` that run on different boards share neither a pin nor a mechanism
besides `misc_list`; the boards pair those that do. Two tasks give every race of an open
file or a store with another one and with an unload, and the two writers that a pin
needs.

*Deadlock* is not checked where the system or its bounds stop: after an oops with a
mutex held (`core_unbind`, `core_unbind_busy`), at the end of a sweep (`config_*`), when
the calls are used up (`sensor`), and when the kernel is down (`misc_life`,
`gpio_test`).

### Fairness

`core_unbind` assumes weak fairness of each consumer's `Continue`: the scheduler runs a
task that is inside a call, and a mutex is handed on. It assumes nothing about new
calls, unbinding or unloading. `led_modes` assumes weak fairness of the timer handlers
(a pending timer fires at the next tick) and of the steps of a command under way. It
assumes no command ever comes. `misc_life` assumes weak fairness of the steps of an init
or exit function that runs and of a call under way, each in a task of its own which the
scheduler runs; loads, unloads, opens and stores may come for ever or never. A deleting
task that waits for a store is not starved, as no new store begins once an attribute is
out of its directory.

## Findings

Five runs show disagreements between the code and what its comments say, each with a
counterexample; see `findings` in `PROJECT.json`: the ignored `-EBUSY`
(pwm-sunxi.c:273), the unshifted prescaler code (:152), the overflow (:141), the tick
inside a fade command (pwm/pwm.c:172) and the bar in the texts of the test program
(gpio/gpio.c:64).

Further observations made while modelling, with no run of their own:

- `pwm_get` uses the chip after dropping `pwm_lock` (core.c:588); with `Preempt = TRUE`,
  `GetNeverFaults` fails. The build at hand is not exposed.
- `sunxi_pwm_config` never clears the bypass bit (pwm-sunxi.c:116), so `CycleKept`,
  which `sunxi_channels` checks, says nothing of it; nor of the bypass of channel 1,
  whose register at 0x10 a suspend does not save.
- A consumer that enables before the pin lists are read (:348-353) leaves its pins
  unset; `EnabledRuns` is checked with `EarlyCalls = FALSE`.
- `sunxi_pwm_disable` computes the cleared bits and never writes them (:225); only the
  pins stop the output, so a channel without a pin list goes on, and so does the output
  at a pin of the power chip. `DisableStops` speaks of the other pins of the list.
- Periods are rounded to whole hertz (:127): 340 ms become 500 ms.
- `pwm_put` leaves `PWMF_ENABLED` set (core.c:608).
- For LED ranges below 50 the breath reaches -1, which borrows from the length of the
  cycle (pwm/pwm.c:68); `led_modes` uses ranges from 50. A value above 65535, or a
  negative one, in mode 6, 7 or 8 changes the length of the cycle too: nothing bounds it
  (172).
- A negative exposure in `ISP_SET_EXP_GAIN` is the largest to `sensor_s_exp`, which
  takes it unsigned, and is reported as it was asked for (gc2023.c:530, 648-653);
  `ExposureAsAsked` says so.
- Mode 10, commented as a double flash, lights three times per period (pwm/pwm.c:81-87:
  the counter is zero for one tick).
- An exposure written to `/dev/exp` during a table download selects page 0 in the middle
  of page 1, whose registers 03 and 04 are then written as an exposure. `FormatKept`
  promises nothing for calls that met.
- After a download cut short, `sensor_s_gain` writes into whatever page is selected;
  `GainAsAsked` asks for a call that selected page 0 before.
- A format that is only tried, or whose download fails, is the window that
  `GET_CURRENT_WIN_CFG` reports from then on (gc2023.c:1079).
- `init_sensor` returns the error of its driver's registration and leaves `/dev/exp` on
  `misc_list` (gc2023.c:1491-1494); pwm.old does the same when its attributes cannot be
  made (pwm.old/pwm.c:552-558). `LeavesNothing` excepts both.
- chgled_init has no return statement (chgled.c:99-104): what is in the register, the
  result of `sysfs_create_group`, decides, and a failed one leaves `misc_led` on the
  list. When `misc_register` fails, its `this_device` is dereferenced.
- A write to `/dev/exp` before the sensor is probed dereferences `glb_sd`, which is
  NULL; one under way, or begun later, when the I2C device goes uses freed memory
  (gc2023.c:1340, 1417). Unloading the module alone is safe, since open files keep it.
- IRMotionDet frees an input device that is registered instead of unregistering it
  (mt_gpio.c:147), frees it twice when its port is missing (118, 147), and frees a GPIO
  it could not get (123, 148). Its pin is made an output, low, and stays one.
- pwm.old never sets `led_pwm_info`: every brightness from 0 to 31 dies of it in
  `set_pwm` (94, 97) with the attribute held, so that the module cannot be unloaded any
  more, and the first tick of its timer panics; exit does not delete the timer.
- mypwm configures 24000 clocks whatever its `period_ns` says
  (module/pwm/pwm.c:108-114), never reads its ports from sys_config, so that its file
  sets pin 0 (229, 235), and frees pins whoever requested them (166).
- mygpio turns a pin it is asked to read into an input (gpio.c:50).
- `sensor_s_parm` stores the rate before rejecting a zero numerator
  (gc2023.c:1181-1183); power-off writes POWER_EN twice where its comment announces PWDN
  (gc2023.c:794).

## What is proved

Each proof module extends the module it is about and proves for every value of the
constants what the runs check on small ones. Every theorem is listed with its property
in `PROJECT.json`; every safety invariant and action property of a passing run has one,
but for the rates of a blinking LED, which are one half of `Blinks`.
What a theorem assumes beyond the named assumption on the constants (`CoreAssumption`,
`SunxiAssumption`, ..., which TLC evaluates in each run) stands in its statement and in
the last column here.

| module | theorem: property | assumes |
|---|---|---|
| `PwmCoreProofs` | `TypeCorrect`: `TypeOK`; `RegistrySafe`: `RegistryConsistent`; `OwnershipSafe`: `ExclusiveOwnership`; `RefsSafe`: `RefsMatchRequests`; `HandlesSafe`: `NoDanglingHandle` | |
| | `NoStaleSafe`: `NoStaleChip`; `PromiseKept`: `ImplementsPromise` | `~SysfsUnbind` |
| `PwmGetProofs` | `DetachReleases`: `DetachedReleasesAll`; `LookupGrants`: `LookupPicksMostSpecific` | |
| | `GetIsSafe`: `GetNeverFaults` | `~Preempt`, `~SysfsUnbind` |
| `SunxiPwmProofs` | `SunxiTyped`: `TypeOK`; `NoGpioLeft`: `NoGpioLeak`; `SunxiInvariant` | |
| | `EnabledChannelsRun`: `EnabledRuns` | `~Preempt`, `~EarlyCalls` |
| | `PolarityFixed`: `PolarityFixedWhileEnabled`; `CycleIsKept`: `CycleKept` | `~Preempt` |
| | `DisableStopsOutput`: `DisableStops` | `~EarlyCalls` |
| `SunxiConfigProofs` | `CycleAlwaysFits`; `CycleComesOut`: `CycleAsAsked` | |
| | `FieldsAlwaysFit`: `FieldsFit`; `DutyComesOut`: `DutyAsAsked`; `MoreDutyNeverShorter`: `DutyMonotone` | `PeriodsFit` |
| `LedTimerProofs` | `LedTyped`: `TypeOK`; `NoTimerStays`: `NoTimerLeft` | |
| | `CycleStaysIntact`: `CycleIntact` | `RangesFit`, `ValuesFit` |
| | `BreathIsSmooth`: `BreathSmooth`; `ToggleAlwaysInverts`: `ToggleInverts` | `RangesFit` |
| `Gc2023Proofs` | `SensorTyped`: `TypeOK`; `SensorInvariant`; `FormatStays`: `FormatKept`; `SwitchingIsQuiet`: `QuietWhileSwitching`; `ExposureIsAsAsked`: `ExposureAsAsked`; `GainIsAsAsked`: `GainAsAsked` | |
| `MiscLifeProofs` | `MiscTyped`: `TypeOK`; `LifeInvariant`; `NothingLeft`: `LeavesNothing`; `CallsHaveModules`: `CallHasModule`; `PinStaysAsWritten`: `PinAsWritten` | |

Why the hypotheses are what they are. `~Preempt` is the kernel the objects were built
for; without it two callers mix between the read and the write of the shared control
register (pwm-sunxi.c:188), and `pwm_get` uses a chip that is gone (core.c:588).
`~SysfsUnbind` keeps out the finding at pwm-sunxi.c:273, `~EarlyCalls` the window at
348-353. `PeriodsFit` keeps out the overflow at 141: its periods, 42 ns to 423.011
microseconds and 500 microseconds to 858.989 ms, are those whose product with a full
duty fits 32 bits, and `config_overflow` shows what becomes of others. `RangesFit` is a
range of 50 to 64250 for each breath: below 50 the breath counts to -1 and borrows from
the length of the cycle, and above 64250 a fiftieth more does not fit 16 bits; the code
bounds neither. `ValuesFit` is values of 0 to 65535: others spill out of their half of
the register, and the code does not bound these either.

The arguments. Hardly any property is inductive alone; each module has a named
strengthening, in parts.

- `PwmCoreProofs`: that a request can hand out the device the tree leads to needs the
  tree to lead to registered chips; that a chip goes only when its devices are free
  needs the flag to be the ownership; that a module goes only when nothing is requested
  needs the count to be that of the requested devices. Their conjunction `CoreInv`
  (type, registry, ownership, count, and `Unloading`: a module that is going has no
  requested device) is inductive. No set of the constants need be finite: that the set
  of requested devices is, which the count needs, is part of it. The refinement follows
  action by action: `pwmchip_add` is `Register`, removal is `Unregister` or a stutter, a
  successful request is `Acquire`, a put `Release`, everything else a stutter.
- `PwmGetProofs` adds to `CoreInv` what a call under way knows: a consumer being
  detached holds only what devres is about to put (`Detaching`); without preemption the
  chip found is there until it is used (`ChipThere`); one scan at a time holds the
  lookup lock, and the best entry so far is the most specific of those it passed
  (`LockHeld`, `Scanned`).
- `SunxiPwmProofs`: `SunxiInv` relates a call to the flag core.c set before it
  (`Flags`), to the register value it read (`Held`), to the pins its loop has passed
  (`PinLoop`), and the registers, or the copies a suspend saved, to what the channels
  asked for (`Running`, `Configured`).
- `SunxiConfigProofs` is arithmetic: the words compute the numbers as long as those fit
  (`MulIs`, `AddIs`, `DivIs`); the frequency decides the prescaler (`PrescalerIs`); then
  products fit (`ShareFits`), and what division and scaling lose is bounded
  (`DutyClose`, `CycleClose`).
- `LedTimerProofs`: `LedInv` (type, what a command under way has read, no timer without
  the module) and, for `RangesFit`, `RangeInv`: every range asked for fits, the breaths
  stay inside it, and a breath that is shown is what the register holds; for
  `ValuesFit`, `ValueInv`: what modes 6, 7 and 8 write stays in its half.
- `Gc2023Proofs`: `SensorInv` says what may be left of a call (`Todo`, a sequence of
  steps of its kind), that `sensor_power` has the adapter to itself (`Locked`), that
  calls which meet know it (`Met`) and that a call withdraws from `sure` what it changes
  (`Withdrawn`). To it come three parts of one form: what a format, an exposure or a
  gain has written so far and what is left of it add up to the whole (`Loading`,
  `Exposing`, `Gaining`).
- `MiscLifeProofs`: `LifeInv` says of each module how far its init or exit is
  (`Running`), that only steps taken have registered anything and only steps to come
  will take it back (`Registered`), who owns the pins, what open files and calls hold on
  to (`Owned`, `Files`), and when there is a sensor (`Sensor`). `PinAsWritten` needs
  besides that a lone writer's pin is an output before its value is set (`Writing`).

Only model-checked: the liveness properties (`CallsReturn`, `DetachCompletes`,
`Breathes`, `FadeEnds`, `Blinks`, `LoadsAndUnloadsEnd`), which need fairness and
ENABLED, out of the prover's reach; and the five findings, which are counterexamples. No
module needs induction over data: the division by bytes in `SunxiConfig` has four steps
and is written out.

## Not modelled

- The device-tree lookup of core.c (`of_pwm_*`): this board has none, and it takes the
  same locks in the same order; debugfs output; `chip_data`.
- Code that nobody calls: polarity and disable of module/pwm/pwm.c, the request and
  config helpers and `switch_timer` of pwm.old, IRMotionDet's work item, `sensor_s_blk`,
  the exposure attributes of gc2023, whose group is not created.
- The image-tuning tables `gc2023_30fps.h` and `gc2023_60fps.h`, data for the ISP that
  no code here reads element by element; generated build files.
- The user programs (open, one write, close): what they write is input to the models.
- What garbage in a freed chip's memory may lead to beyond a failing call or a fault,
  and a chip of pwm-sunxi at another base than 0, both of which need a driver unbound
  while in use.

## Plan

All that the passing runs check of safety is proved. What could come next: that
`SunxiPwm`, whose callers are an assumption here, composes with `PwmCore`, whose
`ExclusiveOwnership` discharges it; and the exact set of periods whose product fits 32
bits, of which `PeriodsFit` is the half that matters.
