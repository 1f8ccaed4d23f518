------------------------------- MODULE Gc2023 -------------------------------
(***************************************************************************)
(* The image sensor driver of src/gc2023/gc2023.c, from the calls of the   *)
(* camera framework and of writers to /dev/exp down to single transfers on *)
(* the I2C bus.                                                            *)
(*                                                                         *)
(* The sensor's registers come in pages, and the register 0xfe of every    *)
(* page selects the page that transfers reach.  The framework makes one    *)
(* call at a time; nothing orders /dev/exp with it, so transfers of both   *)
(* mix, and so do the three attempts at a transfer.  A transfer may fail,  *)
(* whether or not its value has arrived.                                   *)
(***************************************************************************)
EXTENDS Integers, Sequences

CONSTANTS
  V4l2,        \* the camera framework, one call at a time
  Misc,        \* writers to /dev/exp
  Exps,        \* bound: the exposures asked for, ints, in sixteenths of a line
  Gains,       \* bound: the gains asked for, ints, in sixteenths
  Rates,       \* bound: frame rates asked for
  MaxLost,     \* bound: the attempts that fail although the sensor is on
  MaxCalls,    \* bound: the calls in a behaviour
  NULL

Kinds == {"exp", "gain", "exp_gain", "fmt"}

(* tries: the attempts at its next transfer that have failed.              *)
Calls == [kind : Kinds, lost : BOOLEAN, tries : 0 .. 2]

ASSUME SensorAssumption ==
  /\ Exps \subseteq Int /\ Gains \subseteq Int /\ Rates \subseteq Nat
  /\ V4l2 \notin Misc /\ MaxLost \in Nat /\ MaxCalls \in Nat
  /\ NULL \notin Calls /\ NULL \notin {"off", "standby", "on"}

VARIABLES
  power,       \* the rails and pins: "off", "standby", "on"
  switching,   \* the power s_power is switching to, or NULL
  held,        \* does the RESET pin hold the sensor in reset?
  bus,         \* the I2C adapter: "free", or "locked" by cci_lock
  page,        \* the sensor's page select
  regs,        \* regs[<<page, register>>], the registers followed here
  info,        \* struct sensor_info: exp, gain, tpf.denominator, current_wins
  call,        \* call[t]: what the task is in, or NULL
  todo,        \* todo[t]: what is left of it
  losses,      \* attempts that failed so far, the sensor on
  left,        \* calls still to come
  sure,        \* history: what the last calls ensure, see below
  mixed        \* history: has a call under way met another?

hw == <<power, switching, held, bus, page, regs>>
vars == <<hw, info, call, todo, losses, left, sure, mixed>>

Tasks == {V4l2} \union Misc

Windows == {30, 60}

(* Exposure and gain in page 0; in pages 1 and 3 the same addresses are    *)
(* registers that only the tables write.                                   *)
Slots == { <<0, 3>>, <<0, 4>>, <<0, 177>>, <<0, 178>>, <<0, 182>>, <<1, 3>>, <<1, 4>>, <<3, 3>> }

(* The longest exposure: the registers have sixteen bits of whole lines.   *)
ExpMax == 1024 * 1024 - 1

(* The gains in sixteenths, and what a register holds.                     *)
GainRange == 16 .. 1023

Bytes == 0 .. 255

(* What info->exp, an int, takes: sensor_s_exp_gain keeps a negative one.  *)
Noted == {x \in Int : x <= ExpMax}

TypeOK ==
  /\ power \in {"off", "standby", "on"}
  /\ switching \in {"off", "standby", "on", NULL}
  /\ held \in BOOLEAN /\ bus \in {"free", "locked"}
  /\ page \in 0 .. 3
  /\ regs \in [Slots -> Bytes]
  /\ info \in [exp : Noted, gain : {0} \union GainRange, fps : Nat,
               current_wins : Windows \union {NULL}]
  /\ call \in [Tasks -> Calls \union {NULL}]
  /\ \A t \in Tasks : call[t] = NULL => todo[t] = <<>>
  /\ losses \in 0 .. MaxLost /\ left \in 0 .. MaxCalls
  /\ sure \subseteq {"fmt", "page", "exp", "gain"}
  /\ mixed \in BOOLEAN

Cleared == [s \in Slots |-> 0]

(* From sensor_probe, with the sensor off.                                 *)
Init ==
  /\ power = "off" /\ switching = NULL /\ held = FALSE /\ bus = "free"
  /\ page = 0 /\ regs = Cleared
  /\ info = [exp |-> 0, gain |-> 0, fps |-> 0, current_wins |-> NULL]
  /\ call = [t \in Tasks |-> NULL] /\ todo = [t \in Tasks |-> <<>>]
  /\ losses = 0 /\ left = MaxCalls /\ sure = {} /\ mixed = FALSE

-----------------------------------------------------------------------------
(* The steps of a call: a transfer, or an assignment to sensor_info.       *)

Write(reg, val) == [op |-> "write", reg |-> reg, val |-> val % 256]

Note(field, val) == [op |-> "note", reg |-> field, val |-> val]

(* sensor_s_exp takes an unsigned int: a negative one is large.            *)
Clamped(e) == IF e < 0 \/ e > ExpMax THEN ExpMax ELSE IF e < 4 THEN 4 ELSE e

(* Fault: the page is taken to be selected already.                        *)
sensor_s_exp_NoPage(e) ==
  << Write(3, Clamped(e) \div 4096), Write(4, Clamped(e) \div 16),
     Note("exp", Clamped(e)) >>

sensor_s_exp(e) ==
  << Write(254, 0), Write(3, Clamped(e) \div 4096), Write(4, Clamped(e) \div 16),
     Note("exp", Clamped(e)) >>

Analog_Multiple ==
  <<1000, 1400, 2000, 2840, 4080, 5980, 8660, 12600, 17600, 25000, 35600, 52000>>

All_gain(g) == (g * 1000) \div 16

(* The highest of the first nine analog stages that does not exceed the    *)
(* gain, counted from 0.                                                   *)
Analog_Index(g) ==
  (CHOOSE i \in 1 .. 9 :
     /\ All_gain(g) >= Analog_Multiple[i]
     /\ \A j \in (i + 1) .. 9 : All_gain(g) < Analog_Multiple[j]) - 1

(* The rest of the gain, in sixty-fourths.                                 *)
Decimal(g) ==
  ((((All_gain(g) * 1000) \div Analog_Multiple[Analog_Index(g) + 1])) * 64) \div 1000

(* Fault: the stage after the one that was chosen is written.              *)
sensor_s_gain_NextStage(g) ==
  << Write(182, Analog_Index(g) + 1), Write(177, Decimal(g) \div 64),
     Write(178, 4 * Decimal(g)), Note("gain", g) >>

sensor_s_gain(g) ==
  << Write(182, Analog_Index(g)), Write(177, Decimal(g) \div 64), Write(178, 4 * Decimal(g)),
     Note("gain", g) >>

(* Fault: gains above the largest are taken as they are.                   *)
GainInRange_NoCeiling(g) == IF g < 16 THEN 16 ELSE g

GainInRange(g) == IF g < 16 THEN 16 ELSE IF g > 1023 THEN 1023 ELSE g

sensor_s_exp_gain(e, g) ==
  LET top == IF e > ExpMax THEN ExpMax ELSE e
  IN  sensor_s_exp(top) \o sensor_s_gain(GainInRange(g))
        \o <<Note("exp", top), Note("gain", GainInRange(g))>>

(* sensor_1080p30_regs, sensor_1080p60_regs: a reset, then page by page.   *)
Table(w) ==
  << Write(254, 128), Write(254, 0), Write(3, IF w = 30 THEN 3 ELSE 2),
     Write(4, IF w = 30 THEN 246 ELSE 165),
     Write(177, 1), Write(178, 0), Write(182, 0),
     Write(254, 1), Write(3, 2), Write(4, 3), Write(254, 2), Write(254, 1),
     Write(254, 3), Write(3, 154), Write(254, 0) >>

-----------------------------------------------------------------------------
(* The calls.                                                              *)

Idle(t) == call[t] = NULL

OneMoreCall == left > 0 /\ left' = left - 1

(* A call begins: what it is about to change is ensured no more.           *)
Begin(t, kind, steps, changes) ==
  /\ Idle(t) /\ OneMoreCall
  /\ call' = [call EXCEPT ![t] = [kind |-> kind, lost |-> FALSE, tries |-> 0]]
  /\ todo' = [todo EXCEPT ![t] = steps]
  /\ sure' = sure \ changes
  /\ mixed' = \E u \in Tasks \ {t} : ~Idle(u)
  /\ UNCHANGED <<hw, losses>>

(* The largest exposure that sensor_queryctrl offers.                      *)
CtrlMax == 65535 * 16

(* V4L2_CID_EXPOSURE and V4L2_CID_GAIN: -ERANGE outside sensor_queryctrl.  *)
sensor_s_ctrl ==
  /\ switching = NULL /\ UNCHANGED info
  /\ \/ \E e \in Exps : /\ e \in 0 .. CtrlMax
                        /\ Begin(V4l2, "exp", sensor_s_exp(e), {"exp"})
     \/ \E g \in Gains : /\ g \in 16 .. 32 * 16
                         /\ Begin(V4l2, "gain", sensor_s_gain(g), {"gain"})

(* ISP_SET_EXP_GAIN.                                                       *)
sensor_ioctl ==
  /\ switching = NULL /\ UNCHANGED info
  /\ \E e \in Exps, g \in Gains :
       Begin(V4l2, "exp_gain", sensor_s_exp_gain(e, g), {"exp", "gain"})

(* Text written to /dev/exp.  Four hexadecimal digits say up to 65535; of  *)
(* a shorter or another text some bytes are never set, and whatever they   *)
(* hold, bits of it up to the twentieth reach the value.                   *)
matata_exposure_write(t) ==
  /\ UNCHANGED info
  /\ \E e \in Exps : e \in 0 .. ExpMax /\ Begin(t, "exp", sensor_s_exp(e), {"exp"})

(* The window for a format at least as large as 1080p, or for a smaller    *)
(* one: the last of the list when none has the frame rate.                 *)
WindowFor(large) == IF large /\ info.fps \in Windows THEN info.fps ELSE 30

sensor_try_fmt ==
  /\ switching = NULL /\ Idle(V4l2) /\ OneMoreCall
  /\ \E large \in BOOLEAN : info' = [info EXCEPT !.current_wins = WindowFor(large)]
  /\ UNCHANGED <<hw, call, todo, losses, sure, mixed>>

sensor_s_fmt ==
  /\ switching = NULL
  /\ \E large \in BOOLEAN :
       LET w == WindowFor(large) IN
       /\ info' = [info EXCEPT !.current_wins = w]
       /\ Begin(V4l2, "fmt", Table(w), {"fmt", "page", "exp", "gain"})

(* The rate is stored, then the call fails if the numerator is zero.       *)
sensor_s_parm ==
  /\ switching = NULL /\ Idle(V4l2) /\ OneMoreCall
  /\ \E r \in Rates : info' = [info EXCEPT !.fps = r]
  /\ UNCHANGED <<hw, call, todo, losses, sure, mixed>>

(* With the sensor answering; sensor_default_regs is empty.                *)
sensor_init ==
  /\ power = "on" /\ ~held /\ switching = NULL /\ Idle(V4l2) /\ OneMoreCall
  /\ info' = [info EXCEPT !.gain = 0, !.fps = 30]
  /\ sure' = sure \ {"gain"}
  /\ UNCHANGED <<hw, call, todo, losses, mixed>>

-----------------------------------------------------------------------------
(* One step of a call.                                                     *)

(* The sensor takes a value.  Bit 7 of 0xfe resets it.                     *)
Take(w) ==
  IF w.reg = 254
  THEN /\ page' = w.val % 4
       /\ regs' = IF w.val >= 128 THEN Cleared ELSE regs
  ELSE /\ regs' = [s \in Slots |-> IF s = <<page, w.reg>> THEN w.val ELSE regs[s]]
       /\ UNCHANGED page

(* What is left after a lost transfer: sensor_write_array gives up, the    *)
(* others ignore what sensor_write returns.                                *)
After(t) == IF call[t].kind = "fmt" THEN <<>> ELSE Tail(todo[t])

Next_is(t, op) == todo[t] # <<>> /\ Head(todo[t]).op = op

Answers == power = "on" /\ ~held

(* An attempt fails; with the sensor answering, its value may have arrived *)
(* all the same.                                                           *)
AttemptFails(t) ==
  \/ ~Answers /\ UNCHANGED <<losses, page, regs>>
  \/ /\ Answers /\ losses < MaxLost
     /\ losses' = losses + 1
     /\ Take(Head(todo[t])) \/ UNCHANGED <<page, regs>>

(* One of the three attempts of sensor_write: it succeeds, it fails and    *)
(* another follows, or the third has failed.                               *)
sensor_write(t) ==
  /\ Next_is(t, "write") /\ bus = "free"
  /\ \/ /\ Answers
        /\ Take(Head(todo[t]))
        /\ todo' = [todo EXCEPT ![t] = Tail(@)]
        /\ call' = [call EXCEPT ![t].tries = 0]
        /\ UNCHANGED losses
     \/ /\ call[t].tries < 2
        /\ AttemptFails(t)
        /\ call' = [call EXCEPT ![t].tries = @ + 1]
        /\ UNCHANGED todo
     \/ /\ call[t].tries = 2
        /\ AttemptFails(t)
        /\ todo' = [todo EXCEPT ![t] = After(t)]
        /\ call' = [call EXCEPT ![t].lost = TRUE, ![t].tries = 0]
  /\ UNCHANGED <<power, switching, held, bus, info, left, sure, mixed>>

Assign(t) ==
  /\ Next_is(t, "note")
  /\ info' = [info EXCEPT ![Head(todo[t]).reg] = Head(todo[t]).val]
  /\ todo' = [todo EXCEPT ![t] = Tail(@)]
  /\ UNCHANGED <<hw, call, losses, left, sure, mixed>>

(* Fault: a download that was cut short reports success.                   *)
Succeeds_Always(t) == TRUE

(* Does the call return 0?  Only sensor_s_fmt can fail.                    *)
Succeeds(t) == call[t].kind = "fmt" => ~call[t].lost

(* What a call that returned 0 ensures: a format if it ran alone, and page *)
(* 0 in any case; an exposure if no transfer was lost and it ran alone; a  *)
(* gain, which no other task writes, if none was lost and page 0 is        *)
(* selected.                                                               *)
Ensured(t) ==
  CASE call[t].kind = "fmt" -> {"page"} \union (IF mixed THEN {} ELSE {"fmt"})
    [] call[t].kind # "fmt" /\ call[t].lost -> {}
    [] OTHER ->
         (IF call[t].kind \in {"exp", "exp_gain"} /\ ~mixed THEN {"exp"} ELSE {})
           \union (IF call[t].kind \in {"gain", "exp_gain"} /\ "page" \in sure
                   THEN {"gain"} ELSE {})

Return(t) ==
  /\ ~Idle(t) /\ todo[t] = <<>>
  /\ call' = [call EXCEPT ![t] = NULL]
  /\ mixed' = (mixed /\ \E u \in Tasks \ {t} : ~Idle(u))
  /\ \/ /\ Succeeds(t)
        /\ sure' = sure \union Ensured(t)
     \/ /\ ~Succeeds(t)
        /\ UNCHANGED sure
  /\ UNCHANGED <<hw, info, todo, losses, left>>

-----------------------------------------------------------------------------
(* sensor_power.  The framework pairs the transitions.                     *)

(* Fault: the adapter is left unlocked.                                    *)
cci_lock_Skipped == bus' = "free"

cci_lock == bus' = "locked"

Targets == CASE power = "off" -> {"on"} [] power = "on" -> {"off", "standby"}
             [] power = "standby" -> {"on", "off"}

sensor_power ==
  /\ Idle(V4l2) /\ switching = NULL /\ OneMoreCall
  /\ \E p \in Targets : switching' = p
  /\ cci_lock
  /\ UNCHANGED <<power, held, page, regs, info, call, todo, losses, sure, mixed>>

(* The pins and rails are switched, and the adapter is unlocked.  What was *)
(* in the registers survives a standby.  A call of another task meets the  *)
(* switching as it would meet a call.                                      *)
cci_unlock ==
  /\ switching # NULL
  /\ power' = switching /\ switching' = NULL /\ bus' = "free"
  /\ \/ /\ switching = "off" \/ power = "off"
        /\ regs' = Cleared /\ page' = 0 /\ held' = FALSE
        /\ sure' = IF switching = "on" THEN {"page"} ELSE {}
     \/ /\ switching # "off" /\ power # "off"
        /\ UNCHANGED <<held, regs, page, sure>>
  /\ mixed' = (mixed \/ \E t \in Tasks : ~Idle(t))
  /\ UNCHANGED <<info, call, todo, losses, left>>

(* sensor_reset drives the RESET pin and takes no lock: a transfer of      *)
(* /dev/exp may be under way.  With the power off the pin does nothing.    *)
sensor_reset ==
  /\ power # "off" /\ switching = NULL /\ Idle(V4l2) /\ OneMoreCall
  /\ held' \in BOOLEAN
  /\ \/ /\ held'
        /\ regs' = Cleared /\ page' = 0
        /\ sure' = {"page"}
        /\ mixed' = \E t \in Tasks : ~Idle(t)
     \/ /\ ~held'
        /\ UNCHANGED <<regs, page, sure, mixed>>
  /\ UNCHANGED <<power, switching, bus, info, call, todo, losses>>

Next ==
  \/ sensor_s_ctrl \/ sensor_ioctl \/ sensor_try_fmt \/ sensor_s_fmt
  \/ sensor_s_parm \/ sensor_init
  \/ \E t \in Misc : matata_exposure_write(t)
  \/ \E t \in Tasks : sensor_write(t) \/ Assign(t) \/ Return(t)
  \/ sensor_power \/ cci_unlock \/ sensor_reset

Spec == Init /\ [][Next]_vars

-----------------------------------------------------------------------------
(* Safety                                                                  *)

(* After sensor_s_fmt returned 0 with no writer to /dev/exp in its way,    *)
(* the registers that only the tables write (gc2023.c:227-260, 385-418)    *)
(* hold the table, and page 0 is selected, which sensor_s_gain relies on:  *)
(* no later call, complete or not, writes them by mistake.                 *)
FormatKept ==
  "fmt" \in sure =>
    /\ page = 0
    /\ regs[<<1, 3>>] = 2 /\ regs[<<1, 4>>] = 3 /\ regs[<<3, 3>>] = 154

(* What sensor_g_exp reports is what the exposure registers hold, to a     *)
(* line, if no transfer was lost and no other task was in the way          *)
(* (gc2023.c:525-554, 632-655), whatever page an earlier call left         *)
(* selected.  A negative exposure of ISP_SET_EXP_GAIN is reported as asked *)
(* (gc2023.c:653), and the registers hold the longest there is.            *)
ExposureAsAsked ==
  "exp" \in sure =>
    LET lasting == 16 * (256 * regs[<<0, 3>>] + regs[<<0, 4>>])
    IN  IF info.exp >= 0 THEN info.exp - lasting \in 0 .. 15 ELSE lasting = ExpMax - 15

(* What sensor_g_gain reports is the product of the analog stage and the   *)
(* digital gain in the registers, to two percent (gc2023.c:565-601),       *)
(* whatever writers to /dev/exp do meanwhile.                              *)
GainAsAsked ==
  "gain" \in sure =>
    LET set == (Analog_Multiple[regs[<<0, 182>>] + 1]
                  * (64 * regs[<<0, 177>>] + regs[<<0, 178>>] \div 4)) \div 4
        asked == 1000 * info.gain
    IN  50 * (asked - set) <= asked /\ 50 * (set - asked) <= asked

(* "make sure that no device can access i2c bus during sensor initial or   *)
(* power down" (gc2023.c:708): while sensor_power switches, no transfer    *)
(* reaches the sensor.                                                     *)
QuietWhileSwitching ==
  [][switching # NULL /\ switching' = switching => UNCHANGED <<page, regs>>]_vars
=============================================================================
