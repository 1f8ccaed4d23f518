--------------------------- MODULE MiscLifeProofs ---------------------------
(***************************************************************************)
(* Proofs about MiscLife: whatever the devices, tasks, pins, names and     *)
(* boards are, what a module leaves behind when its memory is freed, that  *)
(* a task inside a driver's function has the driver in memory, and that a  *)
(* pin written through mygpio stays as written.                            *)
(***************************************************************************)
EXTENDS MiscLife, TLAPS

StepNames ==
  {"misc", "group", "driver", "input", "script", "request", "output", "register", "ports",
   "sys_config", "pin36", "config", "enable", "free"}

(* q is what is left of s after its first n steps, which are Taken(s, n).  *)
Rest(q, s, n) ==
  /\ n \in 0 .. Len(s) /\ Len(q) = Len(s) - n
  /\ \A i \in 1 .. Len(q) : q[i] = s[n + i]

Taken(s, n) == {s[i] : i \in 1 .. n}

-----------------------------------------------------------------------------
(* The invariants.                                                         *)

(* How many steps of its init, or of its exit, a module has taken.         *)
Gone(d) == Len(InitSteps(d)) - Len(todo[d])
Over(d) == Len(ExitSteps(d)) - Len(todo[d])

(* The modules with attributes: only their init may die.                   *)
Grouped == {"IRMotionDet", "misc_led", "mis_pwm"}

Running ==
  /\ todo \in [Drivers -> Seq(StepNames)]
  /\ \A d \in Drivers :
       /\ mem[d] \in {"loading", "dead"} => Rest(todo[d], InitSteps(d), Gone(d))
       /\ mem[d] = "leaving" => Rest(todo[d], ExitSteps(d), Over(d))
       /\ mem[d] \in {"out", "in"} => todo[d] = <<>>
       /\ mem[d] = "dead" => d \in Grouped

(* A module has registered nothing but what the steps of its init that it  *)
(* has taken register, and what the steps of its exit still to come take   *)
(* back; to that the input device and the timer come.                      *)
Core == {"misc", "group", "driver"}

Extra(d) ==
  (IF d = "IRMotionDet" THEN {"input"} ELSE {}) \union (IF d = "mis_pwm" THEN {"timer"} ELSE {})

Registered ==
  \A d \in Drivers :
    /\ live[d] \subseteq Core \union Extra(d)
    /\ mem[d] = "out" => live[d] = {}
    /\ mem[d] = "loading" => live[d] \intersect Core \subseteq Taken(InitSteps(d), Gone(d))
    /\ mem[d] = "in" => live[d] \intersect Core \subseteq Taken(InitSteps(d), Len(InitSteps(d)))
    /\ mem[d] = "leaving" => live[d] \intersect Core \subseteq Taken(todo[d], Len(todo[d]))
    /\ left[d] \subseteq LeftBehind(d)

(* IRMotionDet alone requests a pin, the feedback port, in the fifth step  *)
(* of its init, and frees it in the last of its exit.                      *)
Owned ==
  \A p \in Pins :
    /\ pins[p].owner \in {NULL, "auto", Ir}
    /\ pins[p].owner = Ir =>
         /\ p = static.feedback_port /\ mem[Ir] \in {"loading", "in", "leaving"}
         /\ mem[Ir] = "loading" => Gone(Ir) >= 5
         /\ mem[Ir] = "leaving" => todo[Ir] # <<>>

(* A module whose attributes are taken or may be: they are offered, or exit*)
(* waits for the stores under way.                                         *)
Held(d) ==
  /\ mem[d] # "out"
  /\ "group" \in live[d] \/ (mem[d] = "leaving" /\ todo[d] # <<>> /\ Head(todo[d]) = "group")

Files ==
  \A t \in Tasks :
    /\ fd[t] \in Drivers => mem[fd[t]] \in {"loading", "in", "dead"}
    /\ InCall(t, {"exp", "stale"}) => fd[t] = "exp" /\ static.glb_sd # NULL
    /\ InCall(t, {"stale"}) => static.client_lost
    /\ InCall(t, {"read", "write"}) => fd[t] = "mygpio"
    /\ InCall(t, {"store"}) => Held(call[t].dev)

(* There is no sensor before the driver is registered, the last that init  *)
(* does; and none is gone while the driver is there, but for one that was  *)
(* taken away.                                                             *)
Sensor ==
  /\ static.glb_sd # NULL /\ mem["exp"] = "loading" => Gone("exp") = 2
  /\ static.glb_sd = "dangling" /\ mem["exp"] \in {"loading", "in"} => static.client_lost

(* A writer to mygpio whose pin nobody else has touched finds it an output.*)
Writing ==
  \A t \in Tasks :
    /\ InCall(t, {"read", "write"}) => call[t].pin \in {NULL, call[t].asked}
    /\ t \in alone /\ InCall(t, {"write"}) /\ call[t].at = "value" /\ call[t].pin # NULL =>
         pins[call[t].pin].func = "out"

LifeInv == TypeOK /\ Running /\ Registered /\ Owned /\ Files /\ Sensor

PinInv == TypeOK /\ Writing /\ PinAsWritten

-----------------------------------------------------------------------------
(* Sequences of steps.                                                     *)

LEMMA RestStart ==
  ASSUME NEW S, NEW s \in Seq(S)
  PROVE  Rest(s, s, 0) /\ Rest(<<>>, s, Len(s))
BY DEF Rest

LEMMA RestNext ==
  ASSUME NEW S, NEW q \in Seq(S), NEW s \in Seq(S), NEW n, Rest(q, s, n), q # <<>>
  PROVE  Head(q) = s[n + 1] /\ Rest(Tail(q), s, n + 1) /\ n + 1 \in 1 .. Len(s)
<1>1. Len(q) \in Nat \ {0} /\ n \in Nat /\ Len(s) \in Nat BY DEF Rest
<1>2. Head(q) = q[1] /\ Len(Tail(q)) = Len(q) - 1 BY <1>1
<1>3. ASSUME NEW i \in 1 .. Len(q) - 1 PROVE Tail(q)[i] = s[n + 1 + i]
  <2>1. Tail(q)[i] = q[i + 1] BY <1>1
  <2>2. q[i + 1] = s[n + (i + 1)] BY <1>1 DEF Rest
  <2>3. n + (i + 1) = n + 1 + i BY <1>1
  <2> QED BY <2>1, <2>2, <2>3
<1> QED BY <1>1, <1>2, <1>3 DEF Rest

LEMMA RestIsSuffix ==
  ASSUME NEW S, NEW q \in Seq(S), NEW s \in Seq(S), NEW n, Rest(q, s, n)
  PROVE  q = SubSeq(s, n + 1, Len(s))
<1> DEFINE r == SubSeq(s, n + 1, Len(s))
<1>1. Len(q) \in Nat /\ n \in 0 .. Len(s) /\ Len(s) \in Nat BY DEF Rest
<1>2. r \in Seq(S) /\ Len(r) = Len(s) - n BY <1>1
<1>3. ASSUME NEW i \in 1 .. Len(q) PROVE q[i] = r[i]
  <2>1. r[i] = s[n + i] BY <1>1 DEF Rest
  <2> QED BY <2>1 DEF Rest
<1> HIDE DEF r
<1>4. Len(q) = Len(r) BY <1>2 DEF Rest
<1>5. q = [i \in 1 .. Len(q) |-> q[i]] /\ r = [i \in 1 .. Len(r) |-> r[i]] BY <1>2
<1>6. [i \in 1 .. Len(q) |-> q[i]] = [i \in 1 .. Len(q) |-> r[i]] BY <1>3
<1>7. q = r BY <1>4, <1>5, <1>6
<1> QED BY <1>7 DEF r

(* Taking the first step of what is left.                                  *)
LEMMA TakenTail ==
  ASSUME NEW S, NEW q \in Seq(S), q # <<>>
  PROVE  Taken(q, Len(q)) = {Head(q)} \union Taken(Tail(q), Len(Tail(q)))
<1>1. Len(q) \in Nat \ {0} OBVIOUS
<1>2. Head(q) = q[1] /\ Len(Tail(q)) = Len(q) - 1 BY <1>1
<1>3. \A i \in 1 .. Len(q) - 1 : Tail(q)[i] = q[i + 1] BY <1>1
<1>4. ASSUME NEW x \in Taken(q, Len(q)) PROVE x \in {Head(q)} \union Taken(Tail(q), Len(Tail(q)))
  <2>1. PICK i \in 1 .. Len(q) : x = q[i] BY DEF Taken
  <2>2. CASE i = 1 BY <1>2, <2>1, <2>2
  <2>3. CASE i # 1
    <3>1. i - 1 \in 1 .. Len(q) - 1 /\ (i - 1) + 1 = i BY <1>1, <2>3
    <3>2. x = Tail(q)[i - 1] BY <1>3, <2>1, <3>1
    <3> QED BY <1>2, <3>1, <3>2 DEF Taken
  <2> QED BY <2>2, <2>3
<1>5. ASSUME NEW x \in Taken(Tail(q), Len(Tail(q))) PROVE x \in Taken(q, Len(q))
  <2>1. PICK i \in 1 .. Len(q) - 1 : x = Tail(q)[i] BY <1>2, <1>5 DEF Taken
  <2>2. i + 1 \in 1 .. Len(q) /\ x = q[i + 1] BY <1>1, <1>3, <2>1
  <2> QED BY <2>2 DEF Taken
<1>6. Head(q) \in Taken(q, Len(q)) BY <1>1, <1>2 DEF Taken
<1> QED BY <1>4, <1>5, <1>6

LEMMA TakenGrows ==
  ASSUME NEW s, NEW n \in Nat
  PROVE  Taken(s, n + 1) = Taken(s, n) \union {s[n + 1]} /\ Taken(s, 0) = {}
<1>1. 1 .. (n + 1) = (1 .. n) \union {n + 1} OBVIOUS
<1> QED BY <1>1 DEF Taken

LEMMA TakenMonotone ==
  ASSUME NEW s, NEW n \in Nat, NEW m \in Nat, n <= m
  PROVE  Taken(s, n) \subseteq Taken(s, m)
<1>1. 1 .. n \subseteq 1 .. m OBVIOUS
<1> QED BY <1>1 DEF Taken

-----------------------------------------------------------------------------
(* The steps of init and exit.                                             *)

LEMMA StepsTyped ==
  ASSUME NEW d \in Drivers
  PROVE  /\ InitSteps(d) \in Seq(StepNames) /\ Len(InitSteps(d)) \in 1 .. 7
         /\ ExitSteps(d) \in Seq(StepNames) /\ Len(ExitSteps(d)) \in 1 .. 7
<1>1. CASE d = "exp" BY <1>1 DEF InitSteps, ExitSteps, StepNames
<1>2. CASE d = "IRMotionDet" BY <1>2 DEF InitSteps, ExitSteps, StepNames
<1>3. CASE d = "myled" BY <1>3 DEF InitSteps, ExitSteps, StepNames
<1>4. CASE d = "mygpio" BY <1>4 DEF InitSteps, ExitSteps, StepNames
<1>5. CASE d = "mypwm" BY <1>5 DEF InitSteps, ExitSteps, StepNames
<1>6. CASE d = "misc_led" BY <1>6 DEF InitSteps, ExitSteps, StepNames
<1>7. CASE d = "mis_pwm" BY <1>7 DEF InitSteps, ExitSteps, StepNames
<1> QED BY <1>1, <1>2, <1>3, <1>4, <1>5, <1>6, <1>7 DEF Drivers

(* Where the steps of init that may fail, or that the invariants name, are.*)
LEMMA Positions ==
  ASSUME NEW d \in Drivers, NEW n \in Nat, n < Len(InitSteps(d))
  PROVE  LET s == InitSteps(d)
             h == s[n + 1]
         IN  /\ h = "misc" /\ d \in ChecksRegister => n = 0
             /\ h = "group" => n = 1 /\ s[1] = "misc" /\ d \in Grouped
             /\ h = "driver" => n = 1 /\ s[1] = "misc" /\ d = "exp"
             /\ d = Ir /\ h = "script" => n = 3
             /\ d = Ir /\ h = "request" => n = 4
<1>1. CASE d = "exp" BY <1>1 DEF InitSteps, ChecksRegister, Ir, Grouped
<1>2. CASE d = "IRMotionDet" BY <1>2 DEF InitSteps, ChecksRegister, Ir, Grouped
<1>3. CASE d = "myled" BY <1>3 DEF InitSteps, ChecksRegister, Ir, Grouped
<1>4. CASE d = "mygpio" BY <1>4 DEF InitSteps, ChecksRegister, Ir, Grouped
<1>5. CASE d = "mypwm" BY <1>5 DEF InitSteps, ChecksRegister, Ir, Grouped
<1>6. CASE d = "misc_led" BY <1>6 DEF InitSteps, ChecksRegister, Ir, Grouped
<1>7. CASE d = "mis_pwm" BY <1>7 DEF InitSteps, ChecksRegister, Ir, Grouped
<1> QED BY <1>1, <1>2, <1>3, <1>4, <1>5, <1>6, <1>7 DEF Drivers

(* Exit takes back what init registers.                                    *)
LEMMA TakenBack ==
  ASSUME NEW d \in Drivers
  PROVE  Core \intersect Taken(InitSteps(d), Len(InitSteps(d)))
           \subseteq Taken(ExitSteps(d), Len(ExitSteps(d)))
<1>1. CASE d = "exp" BY <1>1 DEF InitSteps, ExitSteps, Core, Taken
<1>2. CASE d = "IRMotionDet" BY <1>2 DEF InitSteps, ExitSteps, Core, Taken
<1>3. CASE d = "myled" BY <1>3 DEF InitSteps, ExitSteps, Core, Taken
<1>4. CASE d = "mygpio" BY <1>4 DEF InitSteps, ExitSteps, Core, Taken
<1>5. CASE d = "mypwm" BY <1>5 DEF InitSteps, ExitSteps, Core, Taken
<1>6. CASE d = "misc_led" BY <1>6 DEF InitSteps, ExitSteps, Core, Taken
<1>7. CASE d = "mis_pwm" BY <1>7 DEF InitSteps, ExitSteps, Core, Taken
<1> QED BY <1>1, <1>2, <1>3, <1>4, <1>5, <1>6, <1>7 DEF Drivers

(* IRMotionDet frees its pin in the last step of its exit.                 *)
LEMMA FreeIsLast ==
  Len(ExitSteps(Ir)) = 4 /\ ExitSteps(Ir)[4] = "free"
BY DEF ExitSteps, Ir

-----------------------------------------------------------------------------
(* What a step of a module does to its life.                               *)

Same(d) == UNCHANGED <<live[d], left[d]>>

Starts(d) ==
  mem[d] = "out" /\ mem'[d] = "loading" /\ todo'[d] = InitSteps(d) /\ Same(d)

Advances(d) ==
  /\ mem[d] = "loading" /\ mem'[d] = "loading"
  /\ todo[d] # <<>> /\ todo'[d] = Tail(todo[d]) /\ left'[d] = left[d]
  /\ live[d] \subseteq live'[d]
  /\ live'[d] \subseteq live[d] \union ({Head(todo[d])} \intersect Core)
                                \union (IF d = Ir THEN {"input"} ELSE {})

Skips(d) ==
  d = Ir /\ mem[d] = "loading" /\ mem'[d] = "loading" /\ todo'[d] = <<>> /\ Same(d)

Waits(d) == mem'[d] = mem[d] /\ todo'[d] = todo[d] /\ Same(d)

Dies(d) ==
  /\ mem[d] = "loading" /\ todo[d] # <<>> /\ Head(todo[d]) = "group"
  /\ mem'[d] = "dead" /\ todo'[d] = todo[d] /\ Same(d)

Aborts(d) ==
  /\ mem[d] = "loading" /\ todo[d] # <<>>
  /\ \/ Head(todo[d]) = "misc" /\ d \in ChecksRegister
     \/ Head(todo[d]) = "group" /\ d # Ir
     \/ Head(todo[d]) = "driver"
  /\ mem'[d] = "out" /\ todo'[d] = <<>>
  /\ left'[d] = left[d] \union live[d] /\ live'[d] = {} /\ d \in failed'

Loads(d) ==
  mem[d] = "loading" /\ todo[d] = <<>> /\ mem'[d] = "in" /\ todo'[d] = todo[d] /\ Same(d)

Leaves(d) == mem[d] = "in" /\ mem'[d] = "leaving" /\ todo'[d] = ExitSteps(d) /\ Same(d)

Retreats(d) ==
  /\ mem[d] = "leaving" /\ mem'[d] = "leaving"
  /\ todo[d] # <<>> /\ todo'[d] = Tail(todo[d]) /\ left'[d] = left[d]
  /\ live'[d] = live[d] \ ({Head(todo[d])} \intersect Core)

(* The attributes are taken out of the directory.                          *)
Closes(d) ==
  /\ mem[d] = "leaving" /\ mem'[d] = "leaving" /\ todo[d] # <<>> /\ Head(todo[d]) = "group"
  /\ todo'[d] = todo[d] /\ left'[d] = left[d] /\ live'[d] = live[d] \ {"group"}

Unloaded(d) ==
  /\ mem[d] = "leaving" /\ todo[d] = <<>> /\ mem'[d] = "out" /\ todo'[d] = todo[d]
  /\ left'[d] = left[d] \union live[d] /\ live'[d] = {}

LifeTyped ==
  /\ mem \in [Drivers -> {"out", "loading", "in", "leaving", "dead"}]
  /\ todo \in [Drivers -> Seq(StepNames)]
  /\ live \in [Drivers -> SUBSET Kinds] /\ left \in [Drivers -> SUBSET Kinds]
  /\ failed \subseteq Drivers

LifeStep(d) ==
  /\ LifeTyped' /\ failed \subseteq failed'
  /\ \A e \in Drivers \ {d} : Waits(e)
  /\ \/ Starts(d) \/ Advances(d) \/ Skips(d) \/ Waits(d) \/ Dies(d) \/ Aborts(d)
     \/ Loads(d) \/ Leaves(d) \/ Retreats(d) \/ Closes(d) \/ Unloaded(d)

Moves(d) == ModuleStep(d) \/ insmod(d) \/ rmmod(d)

LEMMA AbortLife ==
  ASSUME LifeTyped, NEW d \in Drivers, Abort(d), mem[d] = "loading", todo[d] # <<>>,
         \/ Head(todo[d]) = "misc" /\ d \in ChecksRegister
         \/ Head(todo[d]) = "group" /\ d # Ir
         \/ Head(todo[d]) = "driver"
  PROVE  LifeStep(d)
<1>1. /\ mem' = [mem EXCEPT ![d] = "out"] /\ todo' = [todo EXCEPT ![d] = <<>>]
      /\ left' = [left EXCEPT ![d] = left[d] \union live[d]]
      /\ live' = [live EXCEPT ![d] = {}] /\ failed' = failed \union {d}
  BY DEF Abort
<1>2. LifeTyped'
  <2>1. <<>> \in Seq(StepNames) OBVIOUS
  <2> QED BY <1>1, <2>1 DEF LifeTyped
<1>3. Aborts(d) BY <1>1 DEF Aborts, LifeTyped
<1>4. \A e \in Drivers \ {d} : Waits(e) BY <1>1 DEF Waits, Same, LifeTyped
<1>5. failed \subseteq failed' BY <1>1
<1> QED BY <1>2, <1>3, <1>4, <1>5 DEF LifeStep

(* One step of init that registers kind, or nothing.                       *)
LEMMA AdvanceLife ==
  ASSUME LifeTyped, NEW d \in Drivers, mem[d] = "loading", todo[d] # <<>>,
         Done(d), UNCHANGED <<mem, left, failed>>,
         \/ live' = live
         \/ \E k \in {Head(todo[d])} \intersect Core : Gain(d, k)
         \/ Gain(d, "input") /\ d = Ir
  PROVE  LifeStep(d)
<1>1. todo' = [todo EXCEPT ![d] = Tail(todo[d])] BY DEF Done
<1>2. Tail(todo[d]) \in Seq(StepNames) BY DEF LifeTyped
<1>3. \/ live' = live
      \/ \E k \in Kinds : /\ live' = [live EXCEPT ![d] = live[d] \union {k}]
                          /\ k \in {Head(todo[d])} \intersect Core \/ (k = "input" /\ d = Ir)
  BY DEF Gain, Kinds, Core
<1>4. LifeTyped'
  <2>1. todo' \in [Drivers -> Seq(StepNames)] BY <1>1, <1>2 DEF LifeTyped
  <2>2. \A k \in Kinds : live[d] \union {k} \in SUBSET Kinds BY DEF LifeTyped
  <2>3. \/ live' = live
        \/ \E K \in SUBSET Kinds : live' = [live EXCEPT ![d] = K]
    BY <1>3, <2>2
  <2>4. live' \in [Drivers -> SUBSET Kinds] BY <2>3 DEF LifeTyped
  <2> QED BY <2>1, <2>4 DEF LifeTyped
<1>5. Advances(d) BY <1>1, <1>3 DEF Advances, LifeTyped
<1>6. \A e \in Drivers \ {d} : Waits(e) BY <1>1, <1>3 DEF Waits, Same, LifeTyped
<1> QED BY <1>4, <1>5, <1>6 DEF LifeStep

(* One step of exit.                                                       *)
LEMMA RetreatLife ==
  ASSUME LifeTyped, NEW d \in Drivers, mem[d] = "leaving", todo[d] # <<>>,
         Done(d), UNCHANGED <<mem, left, failed>>,
         \/ live' = live /\ Head(todo[d]) \notin live[d] \intersect Core
         \/ Lose(d, Head(todo[d])) /\ Head(todo[d]) \in Core
  PROVE  LifeStep(d)
<1>1. todo' = [todo EXCEPT ![d] = Tail(todo[d])] BY DEF Done
<1>2. Tail(todo[d]) \in Seq(StepNames) BY DEF LifeTyped
<1>3. \/ live' = live /\ Head(todo[d]) \notin live[d] \intersect Core
      \/ live' = [live EXCEPT ![d] = live[d] \ {Head(todo[d])}] /\ Head(todo[d]) \in Core
  BY DEF Lose
<1>4. LifeTyped' BY <1>1, <1>2, <1>3 DEF LifeTyped
<1>5. Retreats(d) BY <1>1, <1>3 DEF Retreats, LifeTyped
<1>6. \A e \in Drivers \ {d} : Waits(e) BY <1>1, <1>3 DEF Waits, Same, LifeTyped
<1> QED BY <1>4, <1>5, <1>6 DEF LifeStep

LEMMA LoadLife ==
  ASSUME LifeTyped, NEW d \in Drivers, mem[d] = "loading", Load(d)
  PROVE  LifeStep(d)
<1> USE DEF At
<1>1. CASE misc_register(d)
  <2>1. todo[d] # <<>> /\ Head(todo[d]) = "misc" BY <1>1 DEF misc_register
  <2>2. CASE Gain(d, "misc") /\ Done(d) /\ UNCHANGED <<mem, left, failed>>
    <3>1. "misc" \in {Head(todo[d])} \intersect Core BY <2>1 DEF Core
    <3> QED BY <2>1, <2>2, <3>1, AdvanceLife
  <2>3. CASE d \in ChecksRegister /\ Abort(d) BY <2>1, <2>3, AbortLife
  <2>4. CASE Done(d) /\ UNCHANGED <<mem, left, failed, live>> BY <2>1, <2>4, AdvanceLife
  <2> QED BY <1>1, <2>2, <2>3, <2>4 DEF misc_register
<1>2. CASE sysfs_create_group(d)
  <2>1. todo[d] # <<>> /\ Head(todo[d]) = "group" BY <1>2 DEF sysfs_create_group
  <2>2. CASE Gain(d, "group") /\ Done(d) /\ UNCHANGED <<mem, left, failed>>
    <3>1. "group" \in {Head(todo[d])} \intersect Core BY <2>1 DEF Core
    <3> QED BY <2>1, <2>2, <3>1, AdvanceLife
  <2>3. CASE d # "IRMotionDet" /\ Abort(d) BY <2>1, <2>3, AbortLife DEF Ir
  <2>4. CASE Done(d) /\ UNCHANGED <<mem, left, failed, live>> BY <2>1, <2>4, AdvanceLife
  <2>5. CASE mem' = [mem EXCEPT ![d] = "dead"] /\ UNCHANGED <<todo, live, left, failed>>
    <3>1. LifeTyped' /\ Dies(d) BY <2>1, <2>5 DEF LifeTyped, Dies, Same
    <3>2. \A e \in Drivers \ {d} : Waits(e) BY <2>5 DEF LifeTyped, Waits, Same
    <3> QED BY <2>5, <3>1, <3>2 DEF LifeStep
  <2> QED BY <1>2, <2>2, <2>3, <2>4, <2>5 DEF sysfs_create_group
<1>3. CASE init_returns(d)
  <2>1. /\ todo[d] = <<>> /\ mem' = [mem EXCEPT ![d] = "in"]
        /\ UNCHANGED <<todo, live, left, failed>>
    BY <1>3 DEF init_returns
  <2>2. LifeTyped' /\ Loads(d) BY <2>1 DEF LifeTyped, Loads, Same
  <2>3. \A e \in Drivers \ {d} : Waits(e) BY <2>1 DEF LifeTyped, Waits, Same
  <2> QED BY <2>1, <2>2, <2>3 DEF LifeStep
<1>4. CASE d = "exp" /\ cci_dev_init_helper
  <2>1. todo[d] # <<>> /\ Head(todo[d]) = "driver" BY <1>4 DEF cci_dev_init_helper
  <2>2. CASE Gain(d, "driver") /\ Done(d) /\ UNCHANGED <<mem, left, failed>>
    <3>1. "driver" \in {Head(todo[d])} \intersect Core BY <2>1 DEF Core
    <3> QED BY <2>1, <2>2, <3>1, AdvanceLife
  <2>3. CASE Abort(d) BY <2>1, <2>3, AbortLife
  <2> QED BY <1>4, <2>2, <2>3 DEF cci_dev_init_helper
<1>5. CASE d = "myled" /\ script_get_ports
  <2>1. todo[d] # <<>> /\ UNCHANGED <<mem, live, left, failed>> BY <1>5 DEF script_get_ports
  <2>2. CASE UNCHANGED todo
    <3>1. LifeTyped' /\ \A e \in Drivers : Waits(e) BY <2>1, <2>2 DEF LifeTyped, Waits, Same
    <3> QED BY <2>1, <3>1 DEF LifeStep
  <2>3. CASE Done(d) BY <2>1, <2>3, AdvanceLife
  <2> QED BY <1>5, <2>2, <2>3 DEF script_get_ports
<1>6. CASE d = Ir /\ (input_allocate_device \/ script_get_item \/ gpio_request)
  <2>1. todo[d] # <<>> /\ UNCHANGED <<mem, live, left, failed>>
    BY <1>6 DEF input_allocate_device, script_get_item, gpio_request
  <2>2. CASE Skip
    <3>1. todo' = [todo EXCEPT ![d] = <<>>] /\ <<>> \in Seq(StepNames) BY <1>6, <2>2 DEF Skip
    <3>2. LifeTyped' /\ Skips(d) BY <1>6, <2>1, <3>1 DEF LifeTyped, Skips, Same
    <3>3. \A e \in Drivers \ {d} : Waits(e) BY <2>1, <3>1 DEF LifeTyped, Waits, Same
    <3> QED BY <2>1, <3>2, <3>3 DEF LifeStep
  <2>3. CASE Done(d) BY <2>1, <2>3, AdvanceLife
  <2> QED BY <1>6, <2>2, <2>3 DEF input_allocate_device, script_get_item, gpio_request
<1>7. CASE d = Ir /\ (feedback_direction \/ input_register_device)
  <2>1. /\ todo[d] # <<>> /\ Done(d) /\ UNCHANGED <<mem, left, failed>>
        /\ live' = live \/ Gain(d, "input")
    BY <1>7 DEF feedback_direction, input_register_device
  <2> QED BY <1>7, <2>1, AdvanceLife
<1>8. CASE /\ d = Pwm
           /\ \/ sunxi_pwm_get_sys_config \/ gpio_direction_output_36
              \/ sunxi_pwm_config \/ sunxi_pwm_enable
  <2>1. todo[d] # <<>> /\ Done(d) /\ UNCHANGED <<mem, live, left, failed>>
    BY <1>8 DEF sunxi_pwm_get_sys_config, gpio_direction_output_36, sunxi_pwm_config,
                sunxi_pwm_enable
  <2> QED BY <2>1, AdvanceLife
<1>9. CASE \E p \in Pins : pin_config_set(p)
  <2>1. UNCHANGED <<mem, todo, live, left, failed>> BY <1>9 DEF pin_config_set, life
  <2>2. LifeTyped' /\ \A e \in Drivers : Waits(e) BY <2>1 DEF LifeTyped, Waits, Same
  <2> QED BY <2>1, <2>2 DEF LifeStep
<1> QED BY <1>1, <1>2, <1>3, <1>4, <1>5, <1>6, <1>7, <1>8, <1>9 DEF Load

LEMMA UnloadLife ==
  ASSUME LifeTyped, NEW d \in Drivers, mem[d] = "leaving", Unload(d)
  PROVE  LifeStep(d)
<1> USE DEF At
<1>1. CASE misc_deregister(d) \/ (d = "exp" /\ cci_dev_exit_helper)
  <2>1. /\ todo[d] # <<>> /\ Lose(d, Head(todo[d])) /\ Done(d)
        /\ UNCHANGED <<mem, left, failed>> /\ Head(todo[d]) \in Core
    BY <1>1 DEF misc_deregister, cci_dev_exit_helper, Freed, Core
  <2> QED BY <2>1, RetreatLife
<1>2. CASE exit_returns(d)
  <2>1. /\ todo[d] = <<>> /\ mem' = [mem EXCEPT ![d] = "out"]
        /\ left' = [left EXCEPT ![d] = left[d] \union live[d]]
        /\ live' = [live EXCEPT ![d] = {}] /\ UNCHANGED <<todo, failed>>
    BY <1>2 DEF exit_returns
  <2>2. LifeTyped' /\ Unloaded(d) BY <2>1 DEF LifeTyped, Unloaded, Same
  <2>3. \A e \in Drivers \ {d} : Waits(e) BY <2>1 DEF LifeTyped, Waits, Same
  <2> QED BY <2>1, <2>2, <2>3 DEF LifeStep
<1>3. CASE d = Ir /\ (input_free_device \/ feedback_gpio_free)
  <2>1. /\ todo[d] # <<>> /\ Done(d) /\ UNCHANGED <<mem, live, left, failed>>
        /\ Head(todo[d]) \notin Core
    BY <1>3 DEF input_free_device, feedback_gpio_free, Core
  <2> QED BY <2>1, RetreatLife
<1>4. CASE sysfs_remove_group(d)
  <2>1. UNCHANGED <<mem, left, failed>> /\ todo[d] # <<>> /\ Head(todo[d]) = "group"
    BY <1>4 DEF sysfs_remove_group
  <2>2. CASE "group" \notin live[d] /\ Done(d) /\ live' = live
    BY <2>1, <2>2, RetreatLife
  <2>3. CASE Lose(d, "group") /\ todo' = todo
    <3>1. live' = [live EXCEPT ![d] = live[d] \ {"group"}] BY <2>3 DEF Lose
    <3>2. LifeTyped' BY <2>1, <2>3, <3>1 DEF LifeTyped
    <3>3. Closes(d) BY <2>1, <2>3, <3>1 DEF Closes, LifeTyped
    <3>4. \A e \in Drivers \ {d} : Waits(e) BY <2>1, <2>3, <3>1 DEF Waits, Same, LifeTyped
    <3> QED BY <2>1, <3>2, <3>3, <3>4 DEF LifeStep
  <2> QED BY <1>4, <2>2, <2>3 DEF sysfs_remove_group
<1> QED BY <1>1, <1>2, <1>3, <1>4 DEF Unload

LEMMA ModuleSteps ==
  ASSUME LifeTyped, NEW d \in Drivers, Moves(d)
  PROVE  LifeStep(d)
<1>1. CASE insmod(d)
  <2>1. /\ mem[d] = "out" /\ mem' = [mem EXCEPT ![d] = "loading"]
        /\ todo' = [todo EXCEPT ![d] = InitSteps(d)] /\ UNCHANGED <<live, left, failed>>
    BY <1>1 DEF insmod, life
  <2>2. InitSteps(d) \in Seq(StepNames) BY StepsTyped
  <2>3. LifeTyped' /\ Starts(d) BY <2>1, <2>2 DEF LifeTyped, Starts, Same
  <2>4. \A e \in Drivers \ {d} : Waits(e) BY <2>1 DEF LifeTyped, Waits, Same
  <2> QED BY <2>1, <2>3, <2>4 DEF LifeStep
<1>2. CASE rmmod(d)
  <2>1. /\ mem[d] = "in" /\ mem' = [mem EXCEPT ![d] = "leaving"]
        /\ todo' = [todo EXCEPT ![d] = ExitSteps(d)] /\ UNCHANGED <<live, left, failed>>
    BY <1>2 DEF rmmod, life
  <2>2. ExitSteps(d) \in Seq(StepNames) BY StepsTyped
  <2>3. LifeTyped' /\ Leaves(d) BY <2>1, <2>2 DEF LifeTyped, Leaves, Same
  <2>4. \A e \in Drivers \ {d} : Waits(e) BY <2>1 DEF LifeTyped, Waits, Same
  <2> QED BY <2>1, <2>3, <2>4 DEF LifeStep
<1> QED BY <1>1, <1>2, LoadLife, UnloadLife DEF Moves, ModuleStep

-----------------------------------------------------------------------------
(* Running and Registered are kept.                                        *)

RunningOf(d) ==
  /\ mem[d] \in {"loading", "dead"} => Rest(todo[d], InitSteps(d), Gone(d))
  /\ mem[d] = "leaving" => Rest(todo[d], ExitSteps(d), Over(d))
  /\ mem[d] \in {"out", "in"} => todo[d] = <<>>
  /\ mem[d] = "dead" => d \in Grouped

RegisteredOf(d) ==
  /\ live[d] \subseteq Core \union Extra(d)
  /\ mem[d] = "out" => live[d] = {}
  /\ mem[d] = "loading" => live[d] \intersect Core \subseteq Taken(InitSteps(d), Gone(d))
  /\ mem[d] = "in" => live[d] \intersect Core \subseteq Taken(InitSteps(d), Len(InitSteps(d)))
  /\ mem[d] = "leaving" => live[d] \intersect Core \subseteq Taken(todo[d], Len(todo[d]))
  /\ left[d] \subseteq LeftBehind(d)

(* One more step of init, and one more of exit.                            *)
LEMMA NextOfInit ==
  ASSUME LifeTyped, NEW d \in Drivers, RunningOf(d), mem[d] \in {"loading", "dead"},
         todo[d] # <<>>
  PROVE  /\ Gone(d) \in 0 .. Len(InitSteps(d)) - 1 /\ Head(todo[d]) = InitSteps(d)[Gone(d) + 1]
         /\ Rest(Tail(todo[d]), InitSteps(d), Gone(d) + 1)
         /\ Len(InitSteps(d)) - Len(Tail(todo[d])) = Gone(d) + 1
<1>1. InitSteps(d) \in Seq(StepNames) /\ Len(InitSteps(d)) \in Nat BY StepsTyped
<1>2. todo[d] \in Seq(StepNames) BY DEF LifeTyped
<1>3. Rest(todo[d], InitSteps(d), Gone(d)) BY DEF RunningOf
<1>4. /\ Head(todo[d]) = InitSteps(d)[Gone(d) + 1]
      /\ Rest(Tail(todo[d]), InitSteps(d), Gone(d) + 1)
      /\ Gone(d) + 1 \in 1 .. Len(InitSteps(d))
  BY <1>1, <1>2, <1>3, RestNext
<1>5. Len(Tail(todo[d])) = Len(todo[d]) - 1 /\ Len(todo[d]) \in Nat BY <1>2
<1>6. Gone(d) = Len(InitSteps(d)) - Len(todo[d]) BY DEF Gone
<1>7. Gone(d) \in Int BY <1>1, <1>5, <1>6
<1>8. Gone(d) \in 0 .. Len(InitSteps(d)) - 1 BY <1>1, <1>4, <1>7
<1>9. \A a, b \in Nat : a - (b - 1) = (a - b) + 1 OBVIOUS
<1>10. Len(InitSteps(d)) - Len(Tail(todo[d])) = Gone(d) + 1 BY <1>1, <1>5, <1>6, <1>9
<1> QED BY <1>4, <1>8, <1>10

LEMMA NextOfExit ==
  ASSUME LifeTyped, NEW d \in Drivers, RunningOf(d), mem[d] = "leaving", todo[d] # <<>>
  PROVE  /\ Over(d) \in 0 .. Len(ExitSteps(d)) - 1 /\ Head(todo[d]) = ExitSteps(d)[Over(d) + 1]
         /\ Rest(Tail(todo[d]), ExitSteps(d), Over(d) + 1)
         /\ Len(ExitSteps(d)) - Len(Tail(todo[d])) = Over(d) + 1
<1>1. ExitSteps(d) \in Seq(StepNames) /\ Len(ExitSteps(d)) \in Nat BY StepsTyped
<1>2. todo[d] \in Seq(StepNames) BY DEF LifeTyped
<1>3. Rest(todo[d], ExitSteps(d), Over(d)) BY DEF RunningOf
<1>4. /\ Head(todo[d]) = ExitSteps(d)[Over(d) + 1]
      /\ Rest(Tail(todo[d]), ExitSteps(d), Over(d) + 1)
      /\ Over(d) + 1 \in 1 .. Len(ExitSteps(d))
  BY <1>1, <1>2, <1>3, RestNext
<1>5. Len(Tail(todo[d])) = Len(todo[d]) - 1 /\ Len(todo[d]) \in Nat BY <1>2
<1>6. Over(d) = Len(ExitSteps(d)) - Len(todo[d]) BY DEF Over
<1>7. Over(d) \in Int BY <1>1, <1>5, <1>6
<1>8. Over(d) \in 0 .. Len(ExitSteps(d)) - 1 BY <1>1, <1>4, <1>7
<1>9. \A a, b \in Nat : a - (b - 1) = (a - b) + 1 OBVIOUS
<1>10. Len(ExitSteps(d)) - Len(Tail(todo[d])) = Over(d) + 1 BY <1>1, <1>5, <1>6, <1>9
<1> QED BY <1>4, <1>8, <1>10

LEMMA RunningKept ==
  ASSUME LifeTyped, Running, NEW d \in Drivers, LifeStep(d)
  PROVE  Running'
<1>1. todo' \in [Drivers -> Seq(StepNames)] BY DEF LifeStep, LifeTyped
<1>2. \A e \in Drivers : RunningOf(e) BY DEF Running, RunningOf
<1>3. ASSUME NEW e \in Drivers, Waits(e) PROVE RunningOf(e)'
  BY <1>2, <1>3 DEF RunningOf, Waits, Gone, Over
<1>4. RunningOf(d)'
  <2>1. InitSteps(d) \in Seq(StepNames) /\ ExitSteps(d) \in Seq(StepNames)
        /\ Len(InitSteps(d)) \in Nat /\ Len(ExitSteps(d)) \in Nat
    BY StepsTyped
  <2>2. CASE Starts(d) BY <2>1, <2>2, RestStart DEF Starts, RunningOf, Gone
  <2>3. CASE Advances(d)
    BY <1>2, <2>3, NextOfInit DEF Advances, RunningOf, Gone
  <2>4. CASE Skips(d)
    <3>1. Len(todo'[d]) = 0 /\ todo'[d] = <<>> /\ mem'[d] = "loading" BY <2>4 DEF Skips
    <3>2. Rest(<<>>, InitSteps(d), Len(InitSteps(d))) BY <2>1, RestStart
    <3>3. Gone(d)' = Len(InitSteps(d)) BY <2>1, <3>1 DEF Gone
    <3> QED BY <3>1, <3>2, <3>3 DEF RunningOf
  <2>5. CASE Waits(d) BY <1>3, <2>5
  <2>6. CASE Dies(d)
    <3>1. d \in Grouped
      <4>1. /\ Gone(d) \in 0 .. Len(InitSteps(d)) - 1
            /\ InitSteps(d)[Gone(d) + 1] = "group"
        BY <1>2, <2>6, NextOfInit DEF Dies
      <4>2. Gone(d) \in Nat /\ Gone(d) < Len(InitSteps(d)) BY <2>1, <4>1
      <4> QED BY <4>1, <4>2, Positions
    <3> QED BY <1>2, <2>6, <3>1 DEF Dies, RunningOf, Gone
  <2>7. CASE Aborts(d) BY <2>7 DEF Aborts, RunningOf
  <2>8. CASE Loads(d) BY <2>8 DEF Loads, RunningOf
  <2>9. CASE Leaves(d) BY <2>1, <2>9, RestStart DEF Leaves, RunningOf, Over
  <2>10. CASE Retreats(d)
    BY <1>2, <2>10, NextOfExit DEF Retreats, RunningOf, Over
  <2>11. CASE Unloaded(d) BY <2>11 DEF Unloaded, RunningOf
  <2>12. CASE Closes(d) BY <1>2, <2>12 DEF Closes, RunningOf, Over
  <2> QED BY <2>2, <2>3, <2>4, <2>5, <2>6, <2>7, <2>8, <2>9, <2>10, <2>11, <2>12 DEF LifeStep
<1>5. \A e \in Drivers : RunningOf(e)' BY <1>3, <1>4 DEF LifeStep
<1> QED BY <1>1, <1>5 DEF Running, RunningOf

(* What a module that fails to load has registered by then.                *)
LEMMA AbortsEarly ==
  ASSUME LifeTyped, NEW d \in Drivers, RunningOf(d), RegisteredOf(d), Aborts(d)
  PROVE  /\ live[d] \intersect Core \subseteq {"misc"}
         /\ d = "exp" \/ d \in Grouped
         /\ d = "exp" => Gone(d) = 1
<1>1. /\ Gone(d) \in 0 .. Len(InitSteps(d)) - 1
      /\ Head(todo[d]) = InitSteps(d)[Gone(d) + 1]
  BY NextOfInit DEF Aborts
<1>2. Gone(d) \in Nat /\ Gone(d) < Len(InitSteps(d)) BY <1>1, StepsTyped
<1>3. live[d] \intersect Core \subseteq Taken(InitSteps(d), Gone(d)) BY DEF RegisteredOf, Aborts
<1>4. CASE Head(todo[d]) = "misc" /\ d \in ChecksRegister
  <2>1. Gone(d) = 0 BY <1>1, <1>2, <1>4, Positions
  <2>2. Taken(InitSteps(d), 0) = {} BY DEF Taken
  <2>3. d \in Grouped /\ d # "exp" BY <1>4 DEF ChecksRegister, Grouped
  <2> QED BY <1>3, <2>1, <2>2, <2>3
<1>5. CASE Head(todo[d]) = "group" \/ Head(todo[d]) = "driver"
  <2>1. Gone(d) = 1 /\ InitSteps(d)[1] = "misc" /\ (d \in Grouped \/ d = "exp")
    BY <1>1, <1>2, <1>5, Positions
  <2>2. Taken(InitSteps(d), 1) = {"misc"}
    <3>1. \A i \in 1 .. 1 : i = 1 OBVIOUS
    <3> QED BY <2>1, <3>1 DEF Taken
  <2> QED BY <1>3, <2>1, <2>2
<1> QED BY <1>4, <1>5 DEF Aborts

LEMMA RegisteredKept ==
  ASSUME LifeTyped, Running, Registered, NEW d \in Drivers, LifeStep(d)
  PROVE  Registered'
<1>1. \A e \in Drivers : RunningOf(e) BY DEF Running, RunningOf
<1>2. \A e \in Drivers : RegisteredOf(e) BY DEF Registered, RegisteredOf
<1>3. \A e \in Drivers : LeftBehind(e) \subseteq LeftBehind(e)' BY DEF LifeStep, LeftBehind
<1>4. ASSUME NEW e \in Drivers, Waits(e) PROVE RegisteredOf(e)'
  BY <1>2, <1>3, <1>4 DEF RegisteredOf, Waits, Same, Gone
<1>5. RegisteredOf(d)'
  <2>1. /\ InitSteps(d) \in Seq(StepNames) /\ ExitSteps(d) \in Seq(StepNames)
        /\ Len(InitSteps(d)) \in Nat /\ Len(ExitSteps(d)) \in Nat /\ todo[d] \in Seq(StepNames)
    BY StepsTyped DEF LifeTyped
  <2>2. CASE Starts(d) BY <1>2, <1>3, <2>2 DEF Starts, Same, RegisteredOf
  <2>3. CASE Advances(d)
    <3>1. /\ Gone(d) \in Nat /\ Gone(d)' = Gone(d) + 1
          /\ Head(todo[d]) = InitSteps(d)[Gone(d) + 1]
      <4>1. mem[d] = "loading" /\ todo[d] # <<>> /\ todo'[d] = Tail(todo[d])
        BY <2>3 DEF Advances
      <4>2. /\ Gone(d) \in 0 .. Len(InitSteps(d)) - 1
            /\ Head(todo[d]) = InitSteps(d)[Gone(d) + 1]
            /\ Len(InitSteps(d)) - Len(Tail(todo[d])) = Gone(d) + 1
        BY <1>1, <4>1, NextOfInit
      <4>3. Gone(d)' = Gone(d) + 1 BY <4>1, <4>2 DEF Gone
      <4> QED BY <2>1, <4>2, <4>3
    <3>2. Taken(InitSteps(d), Gone(d) + 1) =
            Taken(InitSteps(d), Gone(d)) \union {InitSteps(d)[Gone(d) + 1]}
      BY <3>1, TakenGrows
    <3>3. live'[d] \intersect Core \subseteq (live[d] \intersect Core) \union {Head(todo[d])}
      BY <2>3 DEF Advances, Core
    <3>4. live'[d] \intersect Core \subseteq Taken(InitSteps(d), Gone(d)')
      BY <1>2, <2>3, <3>1, <3>2, <3>3 DEF RegisteredOf, Advances
    <3>5. live'[d] \subseteq Core \union Extra(d)
      BY <1>2, <2>3 DEF RegisteredOf, Advances, Extra, Ir
    <3>6. left'[d] \subseteq LeftBehind(d)' BY <1>2, <1>3, <2>3 DEF RegisteredOf, Advances
    <3> QED BY <2>3, <3>4, <3>5, <3>6 DEF RegisteredOf, Advances, Gone
  <2>4. CASE Skips(d)
    <3>1. Gone(d)' = Len(InitSteps(d)) BY <2>1, <2>4 DEF Skips, Gone
    <3>2. Gone(d) \in Nat /\ Gone(d) <= Len(InitSteps(d))
      BY <1>1, <2>1, <2>4 DEF Skips, RunningOf, Rest
    <3>3. Taken(InitSteps(d), Gone(d)) \subseteq Taken(InitSteps(d), Gone(d)')
      BY <2>1, <3>1, <3>2, TakenMonotone
    <3> QED BY <1>2, <1>3, <2>4, <3>3 DEF RegisteredOf, Skips, Same, Gone
  <2>5. CASE Waits(d) BY <1>4, <2>5
  <2>6. CASE Dies(d) BY <1>2, <1>3, <2>6 DEF RegisteredOf, Dies, Same
  <2>7. CASE Aborts(d)
    <3>1. live[d] \subseteq {"misc"} \union Extra(d)
      BY <1>1, <1>2, <2>7, AbortsEarly DEF RegisteredOf
    <3>2. {"misc"} \union Extra(d) \subseteq LeftBehind(d)'
      BY <2>7 DEF Aborts, LeftBehind, Extra
    <3> QED BY <1>2, <1>3, <2>7, <3>1, <3>2 DEF RegisteredOf, Aborts
  <2>8. CASE Loads(d)
    <3>1. Gone(d) = Len(InitSteps(d)) BY <2>1, <2>8 DEF Loads, Gone
    <3> QED BY <1>2, <1>3, <2>8, <3>1 DEF RegisteredOf, Loads, Same
  <2>9. CASE Leaves(d)
    BY <1>2, <1>3, <2>9, TakenBack DEF RegisteredOf, Leaves, Same
  <2>10. CASE Retreats(d)
    <3>1. Taken(todo[d], Len(todo[d])) =
            {Head(todo[d])} \union Taken(todo'[d], Len(todo'[d]))
      BY <2>1, <2>10, TakenTail DEF Retreats
    <3>2. live'[d] \subseteq live[d] /\ left'[d] = left[d] /\ mem'[d] = "leaving"
      BY <2>10 DEF Retreats
    <3>3. live[d] \intersect Core \subseteq Taken(todo[d], Len(todo[d]))
      BY <1>2, <2>10 DEF RegisteredOf, Retreats
    <3>4. live'[d] \intersect Core \subseteq Taken(todo'[d], Len(todo'[d]))
      BY <2>10, <3>1, <3>3 DEF Retreats
    <3> QED BY <1>2, <1>3, <3>2, <3>4 DEF RegisteredOf
  <2>11. CASE Unloaded(d)
    <3>1. Taken(todo[d], Len(todo[d])) = {} BY <2>11 DEF Unloaded, Taken
    <3>2. live[d] \subseteq Extra(d) BY <1>2, <2>11, <3>1 DEF Unloaded, RegisteredOf
    <3>3. Extra(d) \subseteq LeftBehind(d)' BY DEF Extra, LeftBehind
    <3> QED BY <1>2, <1>3, <2>11, <3>2, <3>3 DEF Unloaded, RegisteredOf
  <2>12. CASE Closes(d) BY <1>2, <1>3, <2>12 DEF Closes, RegisteredOf
  <2> QED BY <2>2, <2>3, <2>4, <2>5, <2>6, <2>7, <2>8, <2>9, <2>10, <2>11, <2>12 DEF LifeStep
<1>6. \A e \in Drivers : RegisteredOf(e)' BY <1>4, <1>5 DEF LifeStep
<1> QED BY <1>6 DEF Registered, RegisteredOf

(* The steps still to be taken are those that are left of init or exit.    *)
LEMMA TodoTyped ==
  ASSUME LifeTyped, Running, NEW d \in Drivers
  PROVE  \E n \in 0 .. 7 : todo[d] \in {SubSeq(InitSteps(d), n + 1, Len(InitSteps(d))),
                                        SubSeq(ExitSteps(d), n + 1, Len(ExitSteps(d)))}
<1>1. /\ InitSteps(d) \in Seq(StepNames) /\ Len(InitSteps(d)) \in 1 .. 7
      /\ ExitSteps(d) \in Seq(StepNames) /\ Len(ExitSteps(d)) \in 1 .. 7
      /\ todo[d] \in Seq(StepNames)
  BY StepsTyped DEF LifeTyped
<1>2. CASE mem[d] \in {"loading", "dead"}
  <2>1. Rest(todo[d], InitSteps(d), Gone(d)) BY <1>2 DEF Running
  <2>2. todo[d] = SubSeq(InitSteps(d), Gone(d) + 1, Len(InitSteps(d)))
    BY <1>1, <2>1, RestIsSuffix
  <2>3. Gone(d) \in 0 .. Len(InitSteps(d)) BY <2>1 DEF Rest
  <2>4. \A m \in 1 .. 7 : \A n \in 0 .. m : n \in 0 .. 7 OBVIOUS
  <2>5. Gone(d) \in 0 .. 7 BY <1>1, <2>3, <2>4
  <2> QED BY <2>2, <2>5
<1>3. CASE mem[d] = "leaving"
  <2>1. Rest(todo[d], ExitSteps(d), Over(d)) BY <1>3 DEF Running
  <2>2. todo[d] = SubSeq(ExitSteps(d), Over(d) + 1, Len(ExitSteps(d)))
    BY <1>1, <2>1, RestIsSuffix
  <2>3. Over(d) \in 0 .. Len(ExitSteps(d)) BY <2>1 DEF Rest
  <2>4. \A m \in 1 .. 7 : \A n \in 0 .. m : n \in 0 .. 7 OBVIOUS
  <2>5. Over(d) \in 0 .. 7 BY <1>1, <2>3, <2>4
  <2> QED BY <2>2, <2>5
<1>4. CASE mem[d] \in {"out", "in"}
  <2>1. todo[d] = <<>> BY <1>4 DEF Running
  <2>2. Rest(<<>>, InitSteps(d), Len(InitSteps(d))) BY <1>1, RestStart
  <2>3. <<>> \in Seq(StepNames) OBVIOUS
  <2>4. <<>> = SubSeq(InitSteps(d), Len(InitSteps(d)) + 1, Len(InitSteps(d)))
    BY <1>1, <2>2, <2>3, RestIsSuffix
  <2>5. Len(InitSteps(d)) \in 0 .. 7 BY <1>1
  <2> QED BY <2>1, <2>4, <2>5
<1> QED BY <1>2, <1>3, <1>4 DEF LifeTyped

-----------------------------------------------------------------------------
(* The pins, the calls and the static variables stay within their types.   *)

DataTyped ==
  /\ board \in Boards /\ stuck \subseteq Drivers /\ down \in BOOLEAN
  /\ fd \in [Tasks -> Drivers \union {NULL, "stale"}] /\ call \in [Tasks -> Calls \union {NULL}]
  /\ pins \in [Pins -> PinStates] /\ pwm0 \in Pwm0Regs /\ static \in Statics
  /\ wrote \in [Pins -> BOOLEAN \union {NULL}] /\ alone \subseteq Tasks

LEMMA TypesSplit ==
  /\ TypeOK /\ Running => LifeTyped /\ DataTyped
  /\ LifeTyped /\ DataTyped /\ Running => TypeOK
<1>1. TypeOK /\ Running => LifeTyped BY DEF TypeOK, Running, LifeTyped
<1>2. TypeOK => DataTyped BY DEF TypeOK, DataTyped
<1>3. ASSUME LifeTyped, DataTyped, Running PROVE TypeOK
  <2>1. \A d \in Drivers :
         \E n \in 0 .. 7 : todo[d] \in {SubSeq(InitSteps(d), n + 1, Len(InitSteps(d))),
                                        SubSeq(ExitSteps(d), n + 1, Len(ExitSteps(d)))}
    BY <1>3, TodoTyped
  <2> QED BY <1>3, <2>1 DEF TypeOK, LifeTyped, DataTyped
<1> QED BY <1>1, <1>2, <1>3

(* No operation on a pin hands it to a driver, and none but gpio_request   *)
(* is given one.                                                           *)
Handed(s, r) == \A q \in Pins : r[q].owner \in {s[q].owner, NULL, "auto"}

OnlyPin(p, s, r) == \A q \in Pins \ {p} : r[q] = s[q]

LEMMA PinOps ==
  ASSUME NEW s \in [Pins -> PinStates], NEW p \in Pins, NEW h \in BOOLEAN
  PROVE  /\ Input(s, p) \in [Pins -> PinStates] /\ Handed(s, Input(s, p))
         /\ OnlyPin(p, s, Input(s, p))
         /\ Output(s, p, h) \in [Pins -> PinStates] /\ Handed(s, Output(s, p, h))
         /\ OnlyPin(p, s, Output(s, p, h))
         /\ Output(s, p, h)[p].func = "out" /\ Output(s, p, h)[p].high = h
         /\ Value(s, p, h) \in [Pins -> PinStates] /\ Handed(s, Value(s, p, h))
         /\ OnlyPin(p, s, Value(s, p, h))
         /\ Value(s, p, h)[p].func = s[p].func /\ Value(s, p, h)[p].high = h
<1> DEFINE r == Requested(s, p, "auto")
<1>1. r \in [Pins -> PinStates] /\ Handed(s, r) /\ OnlyPin(p, s, r)
  BY DEF PinStates, Requested, Handed, OnlyPin
<1>2. Value(s, p, h) = [s EXCEPT ![p].high = h] BY DEF Value
<1>3. Input(s, p) = [r EXCEPT ![p].func = "in"] BY DEF Input
<1>4. Output(s, p, h) = [r EXCEPT ![p] = [owner |-> r[p].owner, func |-> "out", high |-> h]]
  BY <1>1 DEF Output, PinStates
<1> HIDE DEF r
<1>5. /\ Value(s, p, h) \in [Pins -> PinStates] /\ Handed(s, Value(s, p, h))
      /\ OnlyPin(p, s, Value(s, p, h))
      /\ Value(s, p, h)[p].func = s[p].func /\ Value(s, p, h)[p].high = h
  BY <1>2 DEF PinStates, Handed, OnlyPin
<1>6. /\ Input(s, p) \in [Pins -> PinStates] /\ Handed(r, Input(s, p)) /\ OnlyPin(p, r, Input(s, p))
  BY <1>1, <1>3 DEF PinStates, Handed, OnlyPin
<1>7. /\ Output(s, p, h) \in [Pins -> PinStates] /\ Handed(r, Output(s, p, h))
      /\ OnlyPin(p, r, Output(s, p, h))
      /\ Output(s, p, h)[p].func = "out" /\ Output(s, p, h)[p].high = h
  BY <1>1, <1>4 DEF PinStates, Handed, OnlyPin
<1>8. ASSUME NEW u, Handed(r, u), OnlyPin(p, r, u) PROVE Handed(s, u) /\ OnlyPin(p, s, u)
  BY <1>1, <1>8 DEF Handed, OnlyPin
<1> QED BY <1>5, <1>6, <1>7, <1>8

LEMMA FreePin ==
  ASSUME NEW p \in Pins, pins \in [Pins -> PinStates], gpio_free(p)
  PROVE  /\ pins' \in [Pins -> PinStates] /\ Handed(pins, pins') /\ pins'[p].owner = NULL
         /\ \A q \in Pins : pins'[q].func = pins[q].func /\ pins'[q].high = pins[q].high
BY DEF PinStates, Handed, gpio_free

LEMMA ConfiguredPin ==
  ASSUME NEW p \in Pins, pins \in [Pins -> PinStates], pin_config_set(p)
  PROVE  /\ pins' \in [Pins -> PinStates] /\ Handed(pins, pins') /\ OnlyPin(p, pins, pins')
<1>1. \/ pins' = [pins EXCEPT ![p] = AxpPin(pins[p])]
      \/ pins' = [pins EXCEPT ![p] = PwmPin(pins[p])]
  BY DEF pin_config_set
<1>2. ASSUME NEW s \in PinStates
      PROVE  /\ AxpPin(s) \in PinStates /\ AxpPin(s).owner = NULL
             /\ PwmPin(s) \in PinStates /\ PwmPin(s).owner = NULL
  BY DEF AxpPin, PwmPin, PinStates
<1> QED BY <1>1, <1>2 DEF Handed, OnlyPin

(* The calls under way.                                                    *)
LEMMA CallTypes ==
  ASSUME NEW c \in Calls
  PROVE  /\ c.op \in {"read", "write"} =>
              /\ c.asked \in Named /\ c.pin \in Pins \union {NULL} /\ c.high \in BOOLEAN
              /\ [c EXCEPT !.at = "value"] \in Calls
         /\ c.op = "store" => c.dev \in Drivers /\ c.n \in Nat
         /\ c.op = "exp" => c = [op |-> "exp"]
         /\ c.op \in {"exp", "stale", "read", "write", "store"}
<1>1. CASE c \in [op : {"exp", "stale"}] BY <1>1
<1>2. CASE c \in [op : {"read", "write"}, asked : Named, pin : Pins \union {NULL},
                  high : BOOLEAN, at : {"direction", "value"}]
  <2>1. [c EXCEPT !.at = "value"] \in
          [op : {"read", "write"}, asked : Named, pin : Pins \union {NULL},
           high : BOOLEAN, at : {"direction", "value"}]
    BY <1>2
  <2> QED BY <1>2, <2>1 DEF Calls
<1>3. CASE c \in [op : {"store"}, dev : Drivers, attr : {"bright", "func", "ctl"}, n : Nat]
  BY <1>3
<1> QED BY <1>1, <1>2, <1>3 DEF Calls

LEMMA StoreDevice ==
  ASSUME DataTyped, NEW t \in Tasks, InCall(t, {"store"})
  PROVE  call[t].dev \in Drivers
<1>1. call[t] \in Calls /\ call[t].op = "store" BY DEF InCall, DataTyped
<1> QED BY <1>1, CallTypes

LEMMA BoardTypes ==
  ASSUME board \in Boards
  PROVE  /\ board.active \subseteq Drivers /\ board.tasks \subseteq Tasks
         /\ board.script \in Seq(Pins)
BY MiscAssumption

LEMMA TouchedTyped ==
  ASSUME wrote \in [Pins -> BOOLEAN \union {NULL}], alone \subseteq Tasks,
         NEW P, NEW t, Touched(P, t)
  PROVE  wrote' \in [Pins -> BOOLEAN \union {NULL}] /\ alone' \subseteq Tasks
BY DEF Touched

LEMMA MixStatics ==
  ASSUME NEW a \in Statics, NEW b \in Statics, NEW O
  PROVE  [f \in DOMAIN a |-> IF f \in O THEN b[f] ELSE a[f]] \in Statics
<1> DEFINE r == [f \in DOMAIN a |-> IF f \in O THEN b[f] ELSE a[f]]
<1>1. DOMAIN a = {"glb_sd", "client_lost", "input", "feedback_port", "led_port_cfg", "i", "list",
                  "ahead", "func_status", "time_delay"}
  BY DEF Statics
<1>2. r = [ glb_sd |-> r.glb_sd, client_lost |-> r.client_lost, input |-> r.input,
            feedback_port |-> r.feedback_port, led_port_cfg |-> r.led_port_cfg, i |-> r.i,
            list |-> r.list, ahead |-> r.ahead, func_status |-> r.func_status,
            time_delay |-> r.time_delay ]
  BY <1>1
<1>3. \A f \in DOMAIN a : r[f] \in {a[f], b[f]} OBVIOUS
<1> HIDE DEF r
<1>4. r \in Statics BY <1>1, <1>2, <1>3 DEF Statics
<1> QED BY <1>4 DEF r

LEMMA FreshTyped == Fresh \in Statics
<1>1. ZeroPin \in Pins BY MiscAssumption
<1>2. [i \in 0 .. 9 |-> ZeroPin] \in [0 .. 9 -> Pins] BY <1>1
<1> QED BY <1>1, <1>2 DEF Fresh, Statics

(* A module that fails to load takes its open files with it.               *)
LEMMA AbortFiles ==
  ASSUME fd \in [Tasks -> Drivers \union {NULL, "stale"}], NEW d \in Drivers, Abort(d)
  PROVE  /\ fd' \in [Tasks -> Drivers \union {NULL, "stale"}] /\ stuck' = stuck /\ call' = call
         /\ \A t \in Tasks : fd'[t] = IF fd[t] = d THEN "stale" ELSE fd[t]
BY DEF Abort

LEMMA LoadTyped ==
  ASSUME DataTyped, NEW d \in Drivers, Load(d)
  PROVE  DataTyped'
<1> USE DEF At
<1>1. CASE misc_register(d) \/ sysfs_create_group(d) \/ init_returns(d)
           \/ (d = "exp" /\ cci_dev_init_helper)
  <2>1. UNCHANGED <<board, down, pins, wrote, alone, pwm0, static>>
    BY <1>1 DEF misc_register, sysfs_create_group, init_returns, cci_dev_init_helper, gpio
  <2>2. Abort(d) \/ UNCHANGED <<stuck, fd, call>>
    BY <1>1 DEF misc_register, sysfs_create_group, init_returns, cci_dev_init_helper, io
  <2>3. /\ fd' \in [Tasks -> Drivers \union {NULL, "stale"}] /\ stuck' = stuck /\ call' = call
    BY <2>2, AbortFiles DEF DataTyped
  <2> QED BY <2>1, <2>3 DEF DataTyped
<1>2. CASE d = "myled" /\ script_get_ports
  <2>1. UNCHANGED <<board, stuck, down, fd, call, pwm0>> BY <1>2 DEF script_get_ports, io
  <2>2. CASE UNCHANGED <<static, gpio>> BY <2>1, <2>2 DEF DataTyped, gpio
  <2>3. CASE /\ PortExists(static.i)
             /\ static' = [static EXCEPT !.led_port_cfg[static.i] = board.script[static.i + 1],
                                         !.i = static.i + 1]
             /\ pins' = Output(pins, board.script[static.i + 1], FALSE)
             /\ Touched({board.script[static.i + 1]}, NULL)
    <3> DEFINE p == board.script[static.i + 1]
    <3>1. static.i \in 0 .. 9 /\ p \in Pins
      <4>1. board.script \in Seq(Pins) BY BoardTypes DEF DataTyped
      <4>2. static.i \in 0 .. 10 BY DEF DataTyped, Statics
      <4> QED BY <2>3, <4>1, <4>2 DEF PortExists
    <3> HIDE DEF p
    <3>2. static' = [static EXCEPT !.led_port_cfg = [static.led_port_cfg EXCEPT ![static.i] = p],
                                   !.i = static.i + 1]
      BY <2>3, <3>1 DEF p, DataTyped, Statics
    <3>3. [static.led_port_cfg EXCEPT ![static.i] = p] \in [0 .. 9 -> Pins]
          /\ static.i + 1 \in 0 .. 10
      BY <3>1 DEF DataTyped, Statics
    <3>4. static' \in Statics BY <3>2, <3>3 DEF DataTyped, Statics
    <3>5. pins' \in [Pins -> PinStates] BY <2>3, <3>1, PinOps DEF DataTyped, p
    <3>6. wrote' \in [Pins -> BOOLEAN \union {NULL}] /\ alone' \subseteq Tasks
      BY <2>3, TouchedTyped DEF DataTyped
    <3> QED BY <2>1, <3>4, <3>5, <3>6 DEF DataTyped
  <2> QED BY <1>2, <2>2, <2>3 DEF script_get_ports
<1>3. CASE input_allocate_device \/ script_get_item \/ sunxi_pwm_get_sys_config
  <2>1. UNCHANGED <<board, stuck, down, io, gpio, pwm0>>
    BY <1>3 DEF input_allocate_device, script_get_item, sunxi_pwm_get_sys_config
  <2>2. board.script \in Seq(Pins) /\ PwmPins \subseteq Pins
    BY BoardTypes, MiscAssumption DEF DataTyped
  <2>3. board.script # <<>> => board.script[1] \in Pins BY <2>2
  <2>4. \/ static' = static \/ static' = [static EXCEPT !.input = "allocated"]
        \/ static' = [static EXCEPT !.input = "freed"]
        \/ static' = [static EXCEPT !.feedback_port = board.script[1]] /\ board.script # <<>>
        \/ static' = [static EXCEPT !.list = PwmPins, !.ahead = PwmPins]
    BY <1>3 DEF input_allocate_device, script_get_item, sunxi_pwm_get_sys_config
  <2>5. static' \in Statics
    <3>1. CASE \/ static' = static \/ static' = [static EXCEPT !.input = "allocated"]
               \/ static' = [static EXCEPT !.input = "freed"]
      BY <3>1 DEF DataTyped, Statics
    <3>2. CASE \E q \in Pins : static' = [static EXCEPT !.feedback_port = q]
      BY <3>2 DEF DataTyped, Statics
    <3>3. CASE static' = [static EXCEPT !.list = PwmPins, !.ahead = PwmPins]
      BY <2>2, <3>3 DEF DataTyped, Statics
    <3> QED BY <2>3, <2>4, <3>1, <3>2, <3>3
  <2> QED BY <2>1, <2>5 DEF DataTyped, io, gpio
<1>4. CASE gpio_request
  <2>1. UNCHANGED <<board, stuck, down, fd, call, wrote, alone, pwm0, static>>
    BY <1>4 DEF gpio_request, io
  <2>2. pins' = pins \/ pins' = Requested(pins, static.feedback_port, Ir)
    BY <1>4 DEF gpio_request
  <2>3. static.feedback_port \in Pins /\ Ir \in Drivers BY DEF DataTyped, Statics, Ir, Drivers
  <2>4. pins' \in [Pins -> PinStates] BY <2>2, <2>3 DEF DataTyped, Requested, PinStates
  <2> QED BY <2>1, <2>4 DEF DataTyped
<1>5. CASE feedback_direction \/ gpio_direction_output_36
  <2>1. UNCHANGED <<board, stuck, down, fd, call, pwm0, static>>
    BY <1>5 DEF feedback_direction, gpio_direction_output_36, io
  <2>2. static.feedback_port \in Pins /\ Pin36 \in Pins /\ pins \in [Pins -> PinStates]
    BY MiscAssumption DEF DataTyped, Statics
  <2>3. \/ pins' = Output(Input(pins, static.feedback_port), static.feedback_port, FALSE)
        \/ pins' = Output(pins, Pin36, TRUE)
    BY <1>5 DEF feedback_direction, gpio_direction_output_36
  <2>4. Input(pins, static.feedback_port) \in [Pins -> PinStates] BY <2>2, PinOps
  <2>5. pins' \in [Pins -> PinStates]
    <3>1. FALSE \in BOOLEAN /\ TRUE \in BOOLEAN OBVIOUS
    <3>2. CASE pins' = Output(Input(pins, static.feedback_port), static.feedback_port, FALSE)
      BY <2>2, <2>4, <3>1, <3>2, PinOps
    <3>3. CASE pins' = Output(pins, Pin36, TRUE) BY <2>2, <3>1, <3>3, PinOps
    <3> QED BY <2>3, <3>2, <3>3
  <2>6. wrote' \in [Pins -> BOOLEAN \union {NULL}] /\ alone' \subseteq Tasks
    BY <1>5, TouchedTyped DEF DataTyped, feedback_direction, gpio_direction_output_36
  <2> QED BY <2>1, <2>5, <2>6 DEF DataTyped
<1>6. CASE input_register_device
  <2>1. UNCHANGED <<board, stuck, down, fd, call, wrote, alone, pwm0>>
    BY <1>6 DEF input_register_device, io
  <2>2. static.feedback_port \in Pins BY DEF DataTyped, Statics
  <2>3. pins' = pins \/ gpio_free(static.feedback_port) BY <1>6 DEF input_register_device
  <2>4. pins' \in [Pins -> PinStates] BY <2>2, <2>3, FreePin DEF DataTyped
  <2>5. static' = static \/ static' = [static EXCEPT !.input = "registered"]
    BY <1>6 DEF input_register_device
  <2>6. static' \in Statics BY <2>5 DEF DataTyped, Statics
  <2> QED BY <2>1, <2>4, <2>6 DEF DataTyped
<1>7. CASE sunxi_pwm_config
  <2>1. UNCHANGED <<board, stuck, down, io, gpio, static>> BY <1>7 DEF sunxi_pwm_config
  <2>2. pwm0' = [pwm0 EXCEPT !.code = 15, !.entire = entire_cycles - 1, !.active = active_cycles]
    BY <1>7 DEF sunxi_pwm_config
  <2>3. entire_cycles = 24000 BY DEF entire_cycles
  <2>4. active_cycles = 124 BY <2>3 DEF active_cycles, duty_ns, period_ns
  <2>5. entire_cycles - 1 \in EntireCycles /\ active_cycles \in ActiveCycles
    BY <2>3, <2>4, SMT DEF EntireCycles, ActiveCycles
  <2>6. pwm0' \in Pwm0Regs
    <3>1. pwm0' = [code |-> 15, entire |-> entire_cycles - 1, active |-> active_cycles,
                   on |-> pwm0.on]
      BY <2>2 DEF DataTyped, Pwm0Regs
    <3>2. 15 \in 0 .. 15 /\ pwm0.on \in BOOLEAN BY DEF DataTyped, Pwm0Regs
    <3> QED BY <2>5, <3>1, <3>2 DEF Pwm0Regs
  <2> QED BY <2>1, <2>6 DEF DataTyped, io, gpio
<1>8. CASE sunxi_pwm_enable
  <2>1. UNCHANGED <<board, stuck, down, io, gpio, static>> BY <1>8 DEF sunxi_pwm_enable
  <2>2. pwm0' = [pwm0 EXCEPT !.on = TRUE] BY <1>8 DEF sunxi_pwm_enable
  <2>3. pwm0' \in Pwm0Regs BY <2>2 DEF DataTyped, Pwm0Regs
  <2> QED BY <2>1, <2>3 DEF DataTyped, io, gpio
<1>9. CASE \E p \in Pins : pin_config_set(p)
  <2>1. PICK p \in Pins : pin_config_set(p) BY <1>9
  <2>2. UNCHANGED <<board, stuck, down, io, pwm0>> BY <2>1 DEF pin_config_set, life
  <2>3. pins' \in [Pins -> PinStates] BY <2>1, ConfiguredPin DEF DataTyped
  <2>4. static' = [static EXCEPT !.ahead = static.ahead \ {p}] BY <2>1 DEF pin_config_set
  <2>5. static' \in Statics BY <2>4 DEF DataTyped, Statics
  <2>6. wrote' \in [Pins -> BOOLEAN \union {NULL}] /\ alone' \subseteq Tasks
    BY <2>1, TouchedTyped DEF DataTyped, pin_config_set
  <2> QED BY <2>2, <2>3, <2>5, <2>6 DEF DataTyped, io
<1> QED BY <1>1, <1>2, <1>3, <1>4, <1>5, <1>6, <1>7, <1>8, <1>9 DEF Load

LEMMA UnloadTyped ==
  ASSUME DataTyped, NEW d \in Drivers, Unload(d)
  PROVE  DataTyped'
<1> USE DEF At
<1>1. CASE misc_deregister(d) \/ sysfs_remove_group(d) \/ exit_returns(d)
  <2>1. UNCHANGED <<board, stuck, down, io, gpio, pwm0, static>>
    BY <1>1 DEF misc_deregister, sysfs_remove_group, exit_returns
  <2> QED BY <2>1 DEF DataTyped, io, gpio
<1>2. CASE cci_dev_exit_helper
  <2>1. CASE UNCHANGED <<stuck, down, io, gpio, pwm0, static>>
    BY <1>2, <2>1 DEF DataTyped, io, gpio, cci_dev_exit_helper
  <2>2. CASE static' = [static EXCEPT !.glb_sd = "dangling"] /\ Freed
    <3>1. static' \in Statics BY <2>2 DEF DataTyped, Statics
    <3>2. [op |-> "stale"] \in Calls BY DEF Calls
    <3>3. call' \in [Tasks -> Calls \union {NULL}] BY <2>2, <3>2 DEF Freed, DataTyped
    <3> QED BY <2>2, <3>1, <3>3 DEF DataTyped, Freed, gpio
  <2> QED BY <1>2, <2>1, <2>2 DEF cci_dev_exit_helper
<1>3. CASE input_free_device
  <2>1. UNCHANGED <<board, stuck, io, gpio, pwm0, static>> /\ down' \in BOOLEAN
    BY <1>3 DEF input_free_device, DataTyped
  <2> QED BY <2>1 DEF DataTyped, io, gpio
<1>4. CASE feedback_gpio_free
  <2>1. UNCHANGED <<board, stuck, down, io, wrote, alone, pwm0, static>>
    BY <1>4 DEF feedback_gpio_free
  <2>2. static.feedback_port \in Pins BY DEF DataTyped, Statics
  <2>3. pins' \in [Pins -> PinStates] BY <1>4, <2>2, FreePin DEF DataTyped, feedback_gpio_free
  <2> QED BY <2>1, <2>3 DEF DataTyped, io
<1> QED BY <1>1, <1>2, <1>3, <1>4 DEF Unload

LEMMA MoveTyped ==
  ASSUME DataTyped, NEW d \in Drivers, Moves(d)
  PROVE  DataTyped'
<1>1. CASE insmod(d)
  <2>1. UNCHANGED <<board, stuck, down, io, gpio, pwm0>> BY <1>1 DEF insmod
  <2>2. static' \in Statics BY <1>1, MixStatics, FreshTyped DEF insmod, DataTyped
  <2> QED BY <2>1, <2>2 DEF DataTyped, io, gpio
<1>2. CASE rmmod(d) BY <1>2 DEF rmmod, DataTyped, io, gpio
<1> QED BY <1>1, <1>2, LoadTyped, UnloadTyped DEF Moves, ModuleStep

(* The steps of tasks, of the sensor's device, of the timer and of memory. *)
TaskStep(t) == CallStep(t) \/ (~down /\ Begin(t))

OtherStep == sensor_probe \/ sensor_remove \/ led_timer_func \/ use_after_free

LEMMA PinWrites ==
  ASSUME DataTyped, NEW p \in Pins, NEW h \in BOOLEAN, SetPort(p, h), UNCHANGED board
  PROVE  DataTyped'
<1>1. pins' \in [Pins -> PinStates] BY PinOps DEF DataTyped, SetPort
<1>2. wrote' \in [Pins -> BOOLEAN \union {NULL}] /\ alone' \subseteq Tasks
  BY TouchedTyped DEF DataTyped, SetPort
<1>3. UNCHANGED <<stuck, down, fd, call, pwm0, static>> BY DEF SetPort, life, io
<1> QED BY <1>1, <1>2, <1>3 DEF DataTyped

(* What the calls that set a port do is among what one does that looks     *)
(* beyond the ports.                                                       *)
PortCalls(t) == led_read(t) \/ led_write(t) \/ pwm_read(t) \/ pwm_write(t)

LEMMA PortWrites ==
  ASSUME DataTyped, NEW t \in Tasks, PortCalls(t)
  PROVE  board' = board /\ call[t] = NULL /\ PortBeyond(t)
<1>1. board' = board /\ call[t] = NULL
  BY DEF PortCalls, led_read, led_write, pwm_read, pwm_write, CanCall
<1>2. ZeroPin \in Pins /\ \A i \in 0 .. 9 : static.led_port_cfg[i] \in Pins
  BY MiscAssumption DEF DataTyped, Statics
<1>3. ASSUME NEW p \in Pins, NEW h \in BOOLEAN, SetPort(p, h) PROVE PortBeyond(t)
  BY <1>3 DEF PortBeyond
<1>4. static.led_port_cfg[0] \in Pins /\ FALSE \in BOOLEAN BY <1>2
<1>5. PortBeyond(t) \/ \E p \in Pins, h \in BOOLEAN : SetPort(p, h)
  BY <1>2, <1>4 DEF PortCalls, led_read, led_write, pwm_read, pwm_write
<1> QED BY <1>1, <1>3, <1>5

LEMMA BeginTyped ==
  ASSUME DataTyped, NEW t \in Tasks, Begin(t)
  PROVE  DataTyped'
<1> USE DEF CanCall
<1>1. CASE (\E d \in board.active : misc_open(t, d)) \/ close(t)
  <2>1. UNCHANGED <<board, stuck, down, call, gpio, pwm0, static>>
    BY <1>1 DEF misc_open, close, life
  <2>2. \E x \in Drivers \union {NULL} : fd' = [fd EXCEPT ![t] = x]
    BY <1>1, BoardTypes DEF misc_open, close, DataTyped
  <2> QED BY <2>1, <2>2 DEF DataTyped, gpio
<1>2. CASE \E d \in board.active : sysfs_get_active(t, d)
  <2>1. PICK d \in Drivers : sysfs_get_active(t, d) BY <1>2, BoardTypes DEF DataTyped
  <2>2. UNCHANGED <<board, stuck, down, fd, gpio, pwm0, static>>
    BY <2>1 DEF sysfs_get_active, life
  <2>3. PICK a \in Attributes(d), n \in Numbers :
          call' = [call EXCEPT ![t] = [op |-> "store", dev |-> d, attr |-> a, n |-> n]]
    BY <2>1 DEF sysfs_get_active
  <2>4. n \in Nat /\ a \in {"bright", "func", "ctl"} BY MiscAssumption DEF Attributes
  <2>5. [op |-> "store", dev |-> d, attr |-> a, n |-> n] \in Calls BY <2>4 DEF Calls
  <2> QED BY <2>2, <2>3, <2>5 DEF DataTyped, gpio
<1>3. CASE matata_exposure_write(t)
  <2>1. UNCHANGED <<board, stuck, down, gpio, pwm0, static>>
    BY <1>3 DEF matata_exposure_write, life
  <2>2. CASE Die(t) BY <2>1, <2>2 DEF Die, DataTyped, gpio
  <2>3. CASE /\ call' = [call EXCEPT ![t] =
                            [op |-> IF static.glb_sd = "sensor" THEN "exp" ELSE "stale"]]
             /\ UNCHANGED fd
    <3>1. [op |-> IF static.glb_sd = "sensor" THEN "exp" ELSE "stale"] \in Calls BY DEF Calls
    <3> QED BY <2>1, <2>3, <3>1 DEF DataTyped, gpio
  <2> QED BY <1>3, <2>2, <2>3 DEF matata_exposure_write
<1>4. CASE PortCalls(t)
  <2>1. UNCHANGED board /\ PortBeyond(t) BY <1>4, PortWrites
  <2>2. CASE \E p \in Pins, h \in BOOLEAN : SetPort(p, h) BY <2>1, <2>2, PinWrites
  <2>3. CASE Die(t) /\ UNCHANGED <<life, down, gpio, pwm0, static>>
    BY <2>1, <2>3 DEF Die, life, gpio, DataTyped
  <2>4. CASE down' \in BOOLEAN /\ UNCHANGED <<life, io, gpio, pwm0, static>>
    BY <2>1, <2>4 DEF io, life, gpio, DataTyped
  <2> QED BY <2>1, <2>2, <2>3, <2>4 DEF PortBeyond
<1>5. CASE gpio_read(t) \/ gpio_write(t)
  <2>1. UNCHANGED <<board, stuck, down, fd, pins, wrote, pwm0, static>>
    BY <1>5 DEF gpio_read, gpio_write, life, gpio
  <2>2. alone' \subseteq Tasks BY <1>5 DEF gpio_read, gpio_write, gpio, DataTyped
  <2>3. PICK o \in {"read", "write"}, p \in Named, sep \in Separators, h \in BOOLEAN :
          call' = [call EXCEPT ![t] = [op |-> o, asked |-> p, pin |-> Found(p, sep),
                                       high |-> h, at |-> "direction"]]
    BY <1>5 DEF gpio_read, gpio_write
  <2>4. p \in Pins BY MiscAssumption
  <2>5. [op |-> o, asked |-> p, pin |-> Found(p, sep), high |-> h, at |-> "direction"] \in Calls
    BY <2>4 DEF Found, Calls
  <2> QED BY <2>1, <2>2, <2>3, <2>5 DEF DataTyped
<1> QED BY <1>1, <1>2, <1>3, <1>4, <1>5 DEF Begin, PortCalls

LEMMA ContinueTyped ==
  ASSUME DataTyped, NEW t \in Tasks, call[t] # NULL, Continue(t)
  PROVE  DataTyped'
<1> USE DEF InCall
<1>1. call[t] \in Calls BY DEF DataTyped
<1>2. [call EXCEPT ![t] = NULL] \in [Tasks -> Calls \union {NULL}] BY DEF DataTyped
<1>3. CASE matata_exposure_return(t)
  <2>1. UNCHANGED <<board, stuck, fd, gpio, pwm0, static>> /\ down' \in BOOLEAN
        /\ call' = [call EXCEPT ![t] = NULL]
    BY <1>3 DEF matata_exposure_return, life
  <2> QED BY <1>2, <2>1 DEF DataTyped, gpio
<1>4. CASE gpio_direction(t)
  <2>1. UNCHANGED <<board, stuck, down, fd, pwm0, static>> BY <1>4 DEF gpio_direction, InGpio, life
  <2>2. call' = [call EXCEPT ![t] = [call[t] EXCEPT !.at = "value"]] BY <1>4 DEF gpio_direction
  <2>3. call[t].op \in {"read", "write"} BY <1>4 DEF gpio_direction, InGpio
  <2>4. [call[t] EXCEPT !.at = "value"] \in Calls BY <1>1, <2>3, CallTypes
  <2>5. call' \in [Tasks -> Calls \union {NULL}] BY <2>2, <2>4 DEF DataTyped
  <2>6. CASE UNCHANGED gpio BY <2>1, <2>5, <2>6 DEF DataTyped, gpio
  <2>7. CASE /\ call[t].pin # NULL
             /\ \/ pins' = Input(pins, call[t].pin)
                \/ pins' = Output(pins, call[t].pin, call[t].high)
             /\ Touched({call[t].pin}, t)
    <3>1. call[t].pin \in Pins /\ call[t].high \in BOOLEAN BY <1>1, <2>3, <2>7, CallTypes
    <3>2. pins' \in [Pins -> PinStates] BY <2>7, <3>1, PinOps DEF DataTyped
    <3>3. wrote' \in [Pins -> BOOLEAN \union {NULL}] /\ alone' \subseteq Tasks
      BY <2>7, TouchedTyped DEF DataTyped
    <3> QED BY <2>1, <2>5, <3>2, <3>3 DEF DataTyped
  <2> QED BY <1>4, <2>6, <2>7 DEF gpio_direction
<1>5. CASE gpio_value(t)
  <2>1. UNCHANGED <<board, stuck, down, pwm0, static>> BY <1>5 DEF gpio_value, InGpio, life
  <2>2. call[t].op \in {"read", "write"} BY <1>5 DEF gpio_value, InGpio
  <2>3. CASE /\ call[t].pin # NULL /\ pins' = Value(pins, call[t].pin, call[t].high)
             /\ Wrote(t, call[t].pin, call[t].high)
             /\ call' = [call EXCEPT ![t] = NULL] /\ UNCHANGED fd
    <3>1. call[t].pin \in Pins /\ call[t].high \in BOOLEAN BY <1>1, <2>2, <2>3, CallTypes
    <3>2. pins' \in [Pins -> PinStates] BY <2>3, <3>1, PinOps DEF DataTyped
    <3>3. wrote' \in [Pins -> BOOLEAN \union {NULL}] /\ alone' \subseteq Tasks
      BY <2>3, <3>1 DEF Wrote, DataTyped
    <3> QED BY <1>2, <2>1, <2>3, <3>2, <3>3 DEF DataTyped
  <2>4. CASE /\ call' = [call EXCEPT ![t] = NULL] /\ alone' = alone \ {t}
             /\ UNCHANGED <<pins, wrote>>
             /\ fd' = fd \/ fd' = [fd EXCEPT ![t] = NULL]
    BY <1>2, <2>1, <2>4 DEF DataTyped
  <2> QED BY <1>5, <2>3, <2>4 DEF gpio_value, Die
<1>6. CASE ctl_store(t) \/ pwm_store(t) \/ set_func(t)
  <2>1. UNCHANGED <<board, down, pwm0, pins, wrote, alone>>
    BY <1>6 DEF ctl_store, pwm_store, set_func, InStore, gpio
  <2>2. call' = [call EXCEPT ![t] = NULL]
    BY <1>6 DEF ctl_store, pwm_store, set_func, Returned, DieHolding, Die
  <2>3. /\ fd' = fd \/ fd' = [fd EXCEPT ![t] = NULL]
        /\ stuck' = stuck \/ stuck' = stuck \union {"mis_pwm"}
    BY <1>6 DEF ctl_store, pwm_store, set_func, DieHolding, Die
  <2>4. static' \in Statics
    <3>1. CASE UNCHANGED static BY <3>1 DEF DataTyped
    <3>2. CASE /\ static' = [static EXCEPT !.func_status = call[t].n,
                                           !.time_delay = NewDelay(call[t].n)]
               /\ call[t].op = "store"
      <4>1. call[t].n \in Nat BY <1>1, <3>2, CallTypes
      <4>2. NewDelay(call[t].n) \in {0, 5} BY DEF NewDelay, DataTyped, Statics
      <4> QED BY <3>2, <4>1, <4>2 DEF DataTyped, Statics
    <3> QED BY <1>6, <3>1, <3>2 DEF ctl_store, pwm_store, set_func, InStore
  <2> QED BY <1>2, <2>1, <2>2, <2>3, <2>4 DEF DataTyped, Drivers
<1> QED BY <1>3, <1>4, <1>5, <1>6 DEF Continue

LEMMA OtherTyped ==
  ASSUME DataTyped, OtherStep
  PROVE  DataTyped'
<1>1. CASE sensor_probe
  <2>1. static' \in Statics BY <1>1 DEF sensor_probe, DataTyped, Statics
  <2> QED BY <1>1, <2>1 DEF sensor_probe, DataTyped, life, io, gpio
<1>2. CASE sensor_remove
  <2>1. static' \in Statics BY <1>2 DEF sensor_remove, DataTyped, Statics
  <2>2. [op |-> "stale"] \in Calls BY DEF Calls
  <2>3. call' \in [Tasks -> Calls \union {NULL}] BY <1>2, <2>2 DEF sensor_remove, Freed, DataTyped
  <2> QED BY <1>2, <2>1, <2>3 DEF sensor_remove, Freed, DataTyped, gpio
<1>3. CASE led_timer_func \/ use_after_free
  BY <1>3 DEF led_timer_func, use_after_free, DataTyped, life, io, gpio
<1> QED BY <1>1, <1>2, <1>3 DEF OtherStep

-----------------------------------------------------------------------------
(* The other steps leave the life of modules alone, but for the timer.     *)

TimerOnly ==
  /\ UNCHANGED <<mem, todo, left, failed>> /\ LifeTyped'
  /\ \A d \in Drivers :
       /\ live'[d] \intersect Core = live[d] \intersect Core
       /\ live'[d] \subseteq live[d] \union Extra(d)
       /\ mem[d] = "out" /\ live[d] = {} => live'[d] = {}

LEMMA TimerSteps ==
  ASSUME LifeTyped, DataTyped, Files, NEW t, (t \in Tasks /\ TaskStep(t)) \/ OtherStep
  PROVE  TimerOnly
<1>1. CASE UNCHANGED <<mem, todo, live, left, failed>> BY <1>1 DEF TimerOnly, LifeTyped
<1>2. CASE t \in Tasks /\ set_func(t)
  <2>1. /\ UNCHANGED <<mem, todo, left, failed>>
        /\ \/ live' = live
           \/ live' = [live EXCEPT !["mis_pwm"] = live["mis_pwm"] \ {"timer"}]
           \/ live' = [live EXCEPT !["mis_pwm"] = live["mis_pwm"] \union {"timer"}]
    BY <1>2 DEF set_func, InStore, Gain, Lose
  <2>2. mem["mis_pwm"] # "out"
    <3>1. InCall(t, {"store"}) BY <1>2 DEF set_func, InStore
    <3>2. call[t].dev = "mis_pwm" BY <1>2 DEF set_func, InStore
    <3>3. mem[call[t].dev] # "out" BY <1>2, <3>1 DEF Files, Held
    <3> QED BY <3>2, <3>3
  <2>3. LifeTyped'
    <3>1. /\ live["mis_pwm"] \ {"timer"} \in SUBSET Kinds
          /\ live["mis_pwm"] \union {"timer"} \in SUBSET Kinds
      BY DEF LifeTyped, Kinds, Drivers
    <3>2. live' \in [Drivers -> SUBSET Kinds] BY <2>1, <3>1 DEF LifeTyped
    <3> QED BY <2>1, <3>2 DEF LifeTyped
  <2>4. \A d \in Drivers :
          /\ live'[d] \intersect Core = live[d] \intersect Core
          /\ live'[d] \subseteq live[d] \union Extra(d)
          /\ mem[d] = "out" /\ live[d] = {} => live'[d] = {}
    BY <2>1, <2>2 DEF LifeTyped, Core, Extra
  <2> QED BY <2>1, <2>3, <2>4 DEF TimerOnly
<1>3. CASE OtherStep
  BY <1>1, <1>3 DEF OtherStep, sensor_probe, sensor_remove, Freed, led_timer_func,
                    use_after_free, life
<1>4. CASE t \in Tasks /\ Begin(t)
  <2>1. CASE PortCalls(t)
    BY <1>1, <1>4, <2>1, PortWrites DEF PortBeyond, SetPort, life
  <2> QED BY <1>1, <1>4, <2>1
       DEF Begin, PortCalls, misc_open, close, sysfs_get_active, matata_exposure_write, gpio_read,
           gpio_write, life
<1>5. CASE t \in Tasks /\ CallStep(t)
  <2>1. CASE matata_exposure_return(t) \/ gpio_direction(t) \/ gpio_value(t)
    BY <1>1, <2>1 DEF matata_exposure_return, gpio_direction, gpio_value, InGpio, life
  <2>2. CASE ctl_store(t) \/ pwm_store(t)
    BY <1>1, <2>2 DEF ctl_store, pwm_store, InStore
  <2> QED BY <1>2, <1>5, <2>1, <2>2 DEF CallStep, Continue
<1> QED BY <1>3, <1>4, <1>5 DEF TaskStep

LEMMA TimerKept ==
  ASSUME Running, Registered, TimerOnly
  PROVE  Running' /\ Registered'
<1>1. Running' BY DEF Running, TimerOnly, Gone, Over
<1>2. ASSUME NEW d \in Drivers PROVE RegisteredOf(d)'
  <2>1. RegisteredOf(d) BY DEF Registered, RegisteredOf
  <2>2. LeftBehind(d)' = LeftBehind(d) BY DEF LeftBehind, TimerOnly
  <2>3. Gone(d)' = Gone(d) BY DEF Gone, TimerOnly
  <2> QED BY <2>1, <2>2, <2>3 DEF RegisteredOf, TimerOnly
<1> QED BY <1>1, <1>2 DEF Registered, RegisteredOf

-----------------------------------------------------------------------------
(* Owned is kept.                                                          *)

SamePort == static'.feedback_port = static.feedback_port

(* The pins are touched by all, and their owner is put out or forgotten.   *)
Plain == Handed(pins, pins') /\ SamePort

OwnedByNone == \A p \in Pins : pins[p].owner # Ir

LEMMA OwnedElsewhere ==
  ASSUME Owned, Plain, UNCHANGED <<mem[Ir], todo[Ir]>>
  PROVE  Owned'
<1>1. Gone(Ir)' = Gone(Ir) BY DEF Gone
<1>2. "auto" # Ir /\ NULL # Ir BY MiscAssumption DEF Ir, Drivers
<1> QED BY <1>1, <1>2 DEF Owned, Plain, SamePort, Handed

LEMMA OwnedNever ==
  ASSUME Owned, OwnedByNone, Handed(pins, pins')
  PROVE  Owned'
<1>1. "auto" # Ir /\ NULL # Ir BY MiscAssumption DEF Ir, Drivers
<1> QED BY <1>1 DEF Owned, OwnedByNone, Handed

(* Steps of IRMotionDet while it may own its port.                         *)
LEMMA OwnedOnwards ==
  ASSUME Owned, Plain,
         \/ mem[Ir] = "loading" /\ mem'[Ir] = "loading" /\ (Gone(Ir) >= 5 => Gone(Ir)' >= 5)
         \/ mem'[Ir] = "in"
         \/ mem'[Ir] = "leaving" /\ todo'[Ir] # <<>>
  PROVE  Owned'
<1>1. "auto" # Ir /\ NULL # Ir BY MiscAssumption DEF Ir, Drivers
<1> QED BY <1>1 DEF Owned, Plain, SamePort, Handed

LEMMA HandedSame == pins' = pins => Handed(pins, pins')
BY DEF Handed

LEMMA OwnedIr ==
  ASSUME LifeTyped, DataTyped, Running, Owned, Moves(Ir)
  PROVE  Owned'
<1> USE DEF At
<1>0. /\ Ir \in Drivers /\ Len(InitSteps(Ir)) = 7 /\ Len(ExitSteps(Ir)) = 4
      /\ RunningOf(Ir) /\ todo[Ir] \in Seq(StepNames)
      /\ static.feedback_port \in Pins
  <2>1. Ir \in Drivers BY DEF Ir, Drivers
  <2>2. Len(InitSteps(Ir)) = 7 BY DEF Ir, InitSteps
  <2>3. Len(ExitSteps(Ir)) = 4 BY FreeIsLast
  <2> QED BY <2>1, <2>2, <2>3 DEF Running, RunningOf, LifeTyped, DataTyped, Statics
<1>1. ASSUME mem[Ir] = "loading", todo[Ir] # <<>>
      PROVE  /\ Gone(Ir) \in 0 .. 6 /\ Head(todo[Ir]) = InitSteps(Ir)[Gone(Ir) + 1]
             /\ Done(Ir) => Gone(Ir)' = Gone(Ir) + 1
             /\ Skip => Gone(Ir)' = 7
             /\ Head(todo[Ir]) = "misc" => Gone(Ir) = 0
             /\ Head(todo[Ir]) = "group" => Gone(Ir) = 1
             /\ Head(todo[Ir]) = "script" => Gone(Ir) = 3
             /\ Head(todo[Ir]) = "request" => Gone(Ir) = 4
  <2>0. /\ Gone(Ir) \in 0 .. Len(InitSteps(Ir)) - 1
        /\ Head(todo[Ir]) = InitSteps(Ir)[Gone(Ir) + 1]
        /\ Len(InitSteps(Ir)) - Len(Tail(todo[Ir])) = Gone(Ir) + 1
    BY <1>0, <1>1, NextOfInit
  <2>1. /\ Gone(Ir) \in 0 .. 6 /\ Head(todo[Ir]) = InitSteps(Ir)[Gone(Ir) + 1]
        /\ Len(InitSteps(Ir)) - Len(Tail(todo[Ir])) = Gone(Ir) + 1
    BY <1>0, <2>0
  <2>2. Done(Ir) => todo'[Ir] = Tail(todo[Ir]) BY <1>0 DEF Done, LifeTyped
  <2>3. Done(Ir) => Gone(Ir)' = Gone(Ir) + 1 BY <2>1, <2>2 DEF Gone
  <2>4. Skip => todo'[Ir] = <<>> BY <1>0 DEF Skip, LifeTyped
  <2>5. Skip => Gone(Ir)' = 7 BY <1>0, <2>4 DEF Gone
  <2>6. Gone(Ir) \in Nat /\ Gone(Ir) < Len(InitSteps(Ir)) BY <1>0, <2>1
  <2>7. Ir \in ChecksRegister BY DEF Ir, ChecksRegister
  <2>8. Ir \in Drivers BY <1>0
  <2>9. /\ InitSteps(Ir)[Gone(Ir) + 1] = "misc" => Gone(Ir) = 0
        /\ InitSteps(Ir)[Gone(Ir) + 1] = "group" => Gone(Ir) = 1
        /\ InitSteps(Ir)[Gone(Ir) + 1] = "script" => Gone(Ir) = 3
        /\ InitSteps(Ir)[Gone(Ir) + 1] = "request" => Gone(Ir) = 4
    BY <2>6, <2>7, <2>8, Positions
  <2> QED BY <2>1, <2>3, <2>5, <2>9
<1>2. ASSUME mem[Ir] = "loading", Gone(Ir) < 5, Gone(Ir) \in Nat
      PROVE  OwnedByNone
  BY <1>2 DEF Owned, OwnedByNone
<1>3. CASE insmod(Ir)
  <2>1. OwnedByNone BY <1>3 DEF insmod, Owned, OwnedByNone
  <2> QED BY <1>3, <2>1, OwnedNever, HandedSame DEF insmod, gpio
<1>4. CASE rmmod(Ir)
  <2>1. mem'[Ir] = "leaving" /\ todo'[Ir] = ExitSteps(Ir)
    BY <1>0, <1>4 DEF rmmod, LifeTyped
  <2>2. todo'[Ir] # <<>> BY <1>0, <2>1
  <2>3. Plain BY <1>4, HandedSame DEF rmmod, gpio, Plain, SamePort
  <2> QED BY <2>1, <2>2, <2>3, OwnedOnwards
<1>5. CASE mem[Ir] = "loading" /\ Load(Ir)
  <2>1. CASE misc_register(Ir) \/ sysfs_create_group(Ir)
    <3>1. todo[Ir] # <<>> /\ Head(todo[Ir]) \in {"misc", "group"}
      BY <2>1 DEF misc_register, sysfs_create_group
    <3>2. Gone(Ir) \in {0, 1} BY <1>1, <1>5, <3>1
    <3>3. OwnedByNone BY <1>2, <1>5, <3>2
    <3> QED BY <2>1, <3>3, OwnedNever, HandedSame DEF misc_register, sysfs_create_group, gpio
  <2>2. CASE init_returns(Ir)
    <3>1. mem'[Ir] = "in" BY <1>0, <2>2 DEF init_returns, LifeTyped
    <3>2. Plain BY <2>2, HandedSame DEF init_returns, gpio, Plain, SamePort
    <3> QED BY <3>1, <3>2, OwnedOnwards
  <2>3. CASE input_allocate_device
    <3>1. Plain /\ mem'[Ir] = "loading"
      BY <1>5, <2>3, HandedSame DEF input_allocate_device, gpio, Plain, SamePort, DataTyped, Statics
    <3>2. Gone(Ir) >= 5 => Gone(Ir)' >= 5 BY <1>1, <1>5, <2>3 DEF input_allocate_device
    <3> QED BY <1>5, <3>1, <3>2, OwnedOnwards
  <2>4. CASE script_get_item
    <3>1. OwnedByNone BY <1>1, <1>2, <1>5, <2>4 DEF script_get_item
    <3> QED BY <2>4, <3>1, OwnedNever, HandedSame DEF script_get_item, gpio
  <2>5. CASE gpio_request
    <3>1. Gone(Ir) = 4 /\ mem'[Ir] = "loading" BY <1>1, <1>5, <2>5 DEF gpio_request
    <3>2. OwnedByNone BY <1>2, <1>5, <3>1
    <3>3. CASE pins' = pins BY <3>2, <3>3, OwnedNever, HandedSame
    <3>4. CASE /\ pins[static.feedback_port].owner = NULL
               /\ pins' = Requested(pins, static.feedback_port, Ir) /\ Done(Ir)
      <4>1. Gone(Ir)' = 5 BY <1>1, <1>5, <2>5, <3>1, <3>4 DEF gpio_request
      <4>2. /\ pins'[static.feedback_port].owner = Ir
            /\ \A q \in Pins : q # static.feedback_port => pins'[q] = pins[q]
        BY <1>0, <3>4 DEF Requested, DataTyped, PinStates
      <4>3. static' = static BY <2>5 DEF gpio_request
      <4> QED BY <1>0, <3>1, <3>2, <4>1, <4>2, <4>3 DEF Owned, OwnedByNone
    <3> QED BY <2>5, <3>3, <3>4 DEF gpio_request
  <2>6. CASE feedback_direction \/ input_register_device
    <3>1. mem'[Ir] = "loading" /\ todo[Ir] # <<>> /\ Done(Ir)
      BY <1>5, <2>6 DEF feedback_direction, input_register_device
    <3>2. Gone(Ir) >= 5 => Gone(Ir)' >= 5 BY <1>1, <1>5, <3>1
    <3>3. SamePort
      BY <2>6 DEF feedback_direction, input_register_device, SamePort, DataTyped, Statics
    <3>4. Handed(pins, pins')
      <4> DEFINE u == Input(pins, static.feedback_port)
      <4>1. FALSE \in BOOLEAN /\ pins \in [Pins -> PinStates] BY DEF DataTyped
      <4>2. u \in [Pins -> PinStates] /\ Handed(pins, u) BY <1>0, <4>1, PinOps
      <4>3. CASE feedback_direction
        <5> HIDE DEF u
        <5>1. Handed(u, Output(u, static.feedback_port, FALSE)) BY <1>0, <4>1, <4>2, PinOps
        <5>2. pins' = Output(u, static.feedback_port, FALSE) BY <4>3 DEF feedback_direction, u
        <5> QED BY <4>2, <5>1, <5>2 DEF Handed
      <4>4. CASE input_register_device
        BY <1>0, <4>1, <4>4, FreePin, HandedSame DEF input_register_device
      <4> QED BY <2>6, <4>3, <4>4
    <3> QED BY <1>5, <3>1, <3>2, <3>3, <3>4, OwnedOnwards DEF Plain
  <2> QED BY <1>5, <2>1, <2>2, <2>3, <2>4, <2>5, <2>6 DEF Load, cci_dev_init_helper, Ir, Pwm
<1>6. CASE mem[Ir] = "leaving" /\ Unload(Ir)
  <2>1. CASE exit_returns(Ir)
    <3>1. OwnedByNone BY <1>6, <2>1 DEF exit_returns, Owned, OwnedByNone
    <3> QED BY <2>1, <3>1, OwnedNever, HandedSame DEF exit_returns, gpio
  <2>2. CASE (misc_deregister(Ir) \/ sysfs_remove_group(Ir) \/ input_free_device) /\ Done(Ir)
    <3>1. /\ todo[Ir] # <<>> /\ Done(Ir) /\ mem'[Ir] = "leaving" /\ Head(todo[Ir]) # "free"
      BY <1>6, <2>2 DEF misc_deregister, sysfs_remove_group, input_free_device
    <3>0. /\ Over(Ir) \in 0 .. Len(ExitSteps(Ir)) - 1
          /\ Head(todo[Ir]) = ExitSteps(Ir)[Over(Ir) + 1]
          /\ Len(ExitSteps(Ir)) - Len(Tail(todo[Ir])) = Over(Ir) + 1
      BY <1>0, <1>6, <3>1, NextOfExit
    <3>2. /\ Over(Ir) \in 0 .. 3 /\ Head(todo[Ir]) = ExitSteps(Ir)[Over(Ir) + 1]
          /\ Len(ExitSteps(Ir)) - Len(Tail(todo[Ir])) = Over(Ir) + 1
      BY <1>0, <3>0
    <3>3. Over(Ir) # 3
      <4>1. Over(Ir) = 3 => Over(Ir) + 1 = 4 OBVIOUS
      <4> QED BY <3>1, <3>2, <4>1, FreeIsLast
    <3>4. Tail(todo[Ir]) # <<>>
      <4>1. Len(ExitSteps(Ir)) - 0 # Over(Ir) + 1
        <5>1. Len(ExitSteps(Ir)) = 4 BY FreeIsLast
        <5> QED BY <3>2, <3>3, <5>1
      <4>2. Len(Tail(todo[Ir])) # 0 BY <3>2, <4>1
      <4>3. Len(<<>>) = 0 OBVIOUS
      <4> QED BY <4>2, <4>3
    <3>5. todo'[Ir] # <<>> BY <1>0, <3>1, <3>4 DEF Done, LifeTyped
    <3>6. Plain
      BY <2>2, HandedSame DEF misc_deregister, sysfs_remove_group, input_free_device, gpio,
                              Plain, SamePort
    <3> QED BY <3>1, <3>5, <3>6, OwnedOnwards
  <2>3. CASE feedback_gpio_free
    <3>1. pins'[static.feedback_port].owner = NULL /\ Handed(pins, pins')
      BY <1>0, <2>3, FreePin DEF feedback_gpio_free, DataTyped
    <3>2. NULL # Ir /\ "auto" # Ir BY <1>0, MiscAssumption DEF Ir
    <3>3. ASSUME NEW q \in Pins PROVE pins'[q].owner \in {NULL, "auto"}
      <4>1. pins'[q].owner \in {pins[q].owner, NULL, "auto"} BY <3>1 DEF Handed
      <4>2. pins[q].owner \in {NULL, "auto", Ir} BY DEF Owned
      <4>3. pins[q].owner = Ir => q = static.feedback_port BY DEF Owned
      <4> QED BY <3>1, <4>1, <4>2, <4>3
    <3> QED BY <3>2, <3>3 DEF Owned
  <2>4. CASE sysfs_remove_group(Ir) /\ todo' = todo
    <3>1. Plain /\ UNCHANGED <<mem[Ir], todo[Ir]>>
      BY <2>4, HandedSame DEF sysfs_remove_group, gpio, Plain, SamePort
    <3> QED BY <3>1, OwnedElsewhere
  <2> QED BY <1>6, <2>1, <2>2, <2>3, <2>4
       DEF Unload, cci_dev_exit_helper, misc_deregister, input_free_device, sysfs_remove_group, Ir
<1> QED BY <1>3, <1>4, <1>5, <1>6 DEF Moves, ModuleStep

LEMMA MovePlain ==
  ASSUME DataTyped, NEW d \in Drivers, d # Ir, Moves(d)
  PROVE  Plain
<1>1. CASE UNCHANGED <<pins, static>> BY <1>1, HandedSame DEF Plain, SamePort
<1>2. CASE insmod(d)
  <2>1. pins' = pins BY <1>2 DEF insmod, gpio
  <2>2. "feedback_port" \in DOMAIN static BY DEF DataTyped, Statics
  <2>3. "feedback_port" \notin OwnFields(d) BY DEF OwnFields, Ir
  <2>4. SamePort BY <1>2, <2>2, <2>3 DEF insmod, SamePort
  <2> QED BY <2>1, <2>4, HandedSame DEF Plain
<1>3. CASE rmmod(d) BY <1>1, <1>3 DEF rmmod, gpio
<1>4. CASE Load(d)
  <2>1. CASE misc_register(d) \/ sysfs_create_group(d) \/ init_returns(d) \/ cci_dev_init_helper
    BY <1>1, <2>1 DEF misc_register, sysfs_create_group, init_returns, cci_dev_init_helper, gpio
  <2>2. CASE script_get_ports
    <3>1. CASE UNCHANGED <<static, gpio>> BY <1>1, <3>1 DEF gpio
    <3>2. CASE /\ PortExists(static.i)
               /\ static' = [static EXCEPT !.led_port_cfg[static.i] = board.script[static.i + 1],
                                           !.i = static.i + 1]
               /\ pins' = Output(pins, board.script[static.i + 1], FALSE)
      <4>1. SamePort BY <3>2 DEF SamePort, DataTyped, Statics
      <4>2. board.script \in Seq(Pins) /\ static.i \in 0 .. 10
        BY BoardTypes DEF DataTyped, Statics
      <4>3. board.script[static.i + 1] \in Pins BY <3>2, <4>2 DEF PortExists
      <4>4. FALSE \in BOOLEAN /\ pins \in [Pins -> PinStates] BY DEF DataTyped
      <4>5. Handed(pins, pins') BY <3>2, <4>3, <4>4, PinOps
      <4> QED BY <4>1, <4>5 DEF Plain
    <3> QED BY <2>2, <3>1, <3>2 DEF script_get_ports
  <2>3. CASE sunxi_pwm_get_sys_config
    <3>1. SamePort BY <2>3 DEF sunxi_pwm_get_sys_config, SamePort, DataTyped, Statics
    <3> QED BY <2>3, <3>1, HandedSame DEF sunxi_pwm_get_sys_config, Plain, gpio
  <2>4. CASE gpio_direction_output_36
    <3>1. Pin36 \in Pins /\ TRUE \in BOOLEAN /\ pins \in [Pins -> PinStates]
      BY MiscAssumption DEF DataTyped
    <3>2. pins' = Output(pins, Pin36, TRUE) /\ static' = static
      BY <2>4 DEF gpio_direction_output_36
    <3>3. Handed(pins, pins') BY <3>1, <3>2, PinOps
    <3> QED BY <3>2, <3>3 DEF Plain, SamePort
  <2>5. CASE sunxi_pwm_config BY <1>1, <2>5 DEF sunxi_pwm_config, gpio
  <2>6. CASE sunxi_pwm_enable BY <1>1, <2>6 DEF sunxi_pwm_enable, gpio
  <2>7. CASE \E p \in Pins : pin_config_set(p)
    <3>1. PICK p \in Pins : pin_config_set(p) BY <2>7
    <3>2. Handed(pins, pins') BY <3>1, ConfiguredPin DEF DataTyped
    <3>3. SamePort BY <3>1 DEF pin_config_set, SamePort, DataTyped, Statics
    <3> QED BY <3>2, <3>3 DEF Plain
  <2> QED BY <1>4, <2>1, <2>2, <2>3, <2>4, <2>5, <2>6, <2>7 DEF Load
<1>5. CASE Unload(d)
  <2>1. CASE misc_deregister(d) \/ sysfs_remove_group(d) \/ exit_returns(d)
    BY <1>1, <2>1 DEF misc_deregister, sysfs_remove_group, exit_returns, gpio
  <2>2. CASE cci_dev_exit_helper
    <3>1. pins' = pins BY <2>2 DEF cci_dev_exit_helper, Freed, gpio
    <3>2. SamePort BY <2>2 DEF cci_dev_exit_helper, SamePort, DataTyped, Statics
    <3> QED BY <3>1, <3>2, HandedSame DEF Plain
  <2> QED BY <1>5, <2>1, <2>2 DEF Unload
<1> QED BY <1>2, <1>3, <1>4, <1>5 DEF Moves, ModuleStep

LEMMA TaskPlain ==
  ASSUME DataTyped, NEW t, (t \in Tasks /\ TaskStep(t)) \/ OtherStep
  PROVE  Plain
<1>1. CASE UNCHANGED <<pins, static>> BY <1>1, HandedSame DEF Plain, SamePort
<1>2. pins \in [Pins -> PinStates] BY DEF DataTyped
<1>3. CASE OtherStep
  <2>1. pins' = pins
    BY <1>3 DEF OtherStep, sensor_probe, sensor_remove, led_timer_func, use_after_free, Freed, gpio
  <2>2. SamePort
    BY <1>3 DEF OtherStep, sensor_probe, sensor_remove, led_timer_func, use_after_free, Freed,
                SamePort, DataTyped, Statics
  <2> QED BY <2>1, <2>2, HandedSame DEF Plain
<1>4. CASE t \in Tasks /\ Begin(t)
  <2>1. CASE \E p \in Pins, h \in BOOLEAN : SetPort(p, h)
    <3>1. PICK p \in Pins, h \in BOOLEAN : SetPort(p, h) BY <2>1
    <3>2. pins' = Value(pins, p, h) /\ static' = static BY <3>1 DEF SetPort
    <3>3. Handed(pins, pins') BY <1>2, <3>2, PinOps
    <3> QED BY <3>2, <3>3 DEF Plain, SamePort
  <2>2. CASE UNCHANGED <<pins, static>> BY <1>1, <2>2
  <2>3. CASE PortCalls(t) BY <1>4, <2>1, <2>2, <2>3, PortWrites DEF PortBeyond, gpio
  <2> QED BY <1>4, <2>2, <2>3
       DEF Begin, PortCalls, misc_open, close, sysfs_get_active, matata_exposure_write, gpio_read,
           gpio_write, gpio
<1>5. CASE t \in Tasks /\ CallStep(t)
  <2>1. call[t] \in Calls BY <1>5 DEF CallStep, DataTyped
  <2>2. CASE matata_exposure_return(t) BY <1>1, <2>2 DEF matata_exposure_return, gpio
  <2>3. CASE gpio_direction(t) \/ gpio_value(t)
    <3>1. static' = static BY <2>3 DEF gpio_direction, gpio_value, InGpio
    <3>2. CASE pins' = pins BY <1>1, <3>1, <3>2
    <3>3. CASE /\ call[t].pin # NULL
               /\ \/ pins' = Input(pins, call[t].pin)
                  \/ pins' = Output(pins, call[t].pin, call[t].high)
                  \/ pins' = Value(pins, call[t].pin, call[t].high)
      <4>1. call[t].op \in {"read", "write"} BY <2>3 DEF gpio_direction, gpio_value, InGpio, InCall
      <4>2. call[t].pin \in Pins /\ call[t].high \in BOOLEAN BY <2>1, <3>3, <4>1, CallTypes
      <4>3. Handed(pins, pins') BY <1>2, <3>3, <4>2, PinOps
      <4> QED BY <3>1, <4>3 DEF Plain, SamePort
    <3> QED BY <2>3, <3>2, <3>3 DEF gpio_direction, gpio_value, gpio
  <2>4. CASE ctl_store(t) \/ pwm_store(t) \/ set_func(t)
    <3>1. pins' = pins BY <2>4 DEF ctl_store, pwm_store, set_func, InStore, gpio
    <3>2. SamePort
      BY <2>4 DEF ctl_store, pwm_store, set_func, SamePort, DataTyped, Statics
    <3> QED BY <3>1, <3>2, HandedSame DEF Plain
  <2> QED BY <1>5, <2>2, <2>3, <2>4 DEF CallStep, Continue
<1> QED BY <1>3, <1>4, <1>5 DEF TaskStep

-----------------------------------------------------------------------------
(* Files and Sensor are kept.                                              *)

(* The calls after sensor_info has been freed.                             *)
StaleCalls == [t \in Tasks |-> IF call[t] = [op |-> "exp"] THEN [op |-> "stale"] ELSE call[t]]

(* What a step of the life of d does to files, calls and the sensor.       *)
MoveData(d) ==
  /\ \/ /\ static'.glb_sd = static.glb_sd /\ static'.client_lost = static.client_lost
        /\ d = "exp" => mem["exp"] # "out"
     \/ d = "exp" /\ mem["exp"] = "out" /\ static'.glb_sd = NULL
     \/ d = "exp" /\ mem["exp"] = "leaving" /\ static'.client_lost = static.client_lost
  /\ call' = call \/ (mem["exp"] = "leaving" /\ call' = StaleCalls)
  /\ \/ fd' = fd /\ (mem[d] = "loading" => mem'[d] # "out")
     \/ /\ mem[d] = "loading" /\ mem'[d] = "out"
        /\ fd' = [t \in Tasks |-> IF fd[t] = d THEN "stale" ELSE fd[t]]
  /\ mem[d] = "in" /\ mem'[d] = "leaving" => \A t \in Tasks : fd[t] # d
  /\ mem[d] = "leaving" /\ todo[d] # <<>> /\ Head(todo[d]) = "group" /\ todo'[d] # todo[d] =>
       \A t \in Tasks : ~(InCall(t, {"store"}) /\ call[t].dev = d)

LEMMA MovesData ==
  ASSUME LifeTyped, DataTyped, NEW d \in Drivers, Moves(d)
  PROVE  MoveData(d)
<1> USE DEF At
<1>0. static \in Statics BY DEF DataTyped
<1>1. CASE insmod(d)
  <2>1. mem[d] = "out" /\ UNCHANGED <<fd, call>> BY <1>1 DEF insmod, io
  <2>2. CASE d = "exp"
    <3>1. "glb_sd" \in DOMAIN static BY <1>0 DEF Statics
    <3>2. "glb_sd" \in OwnFields(d) BY <2>2 DEF OwnFields
    <3>3. static'.glb_sd = Fresh.glb_sd BY <1>1, <3>1, <3>2 DEF insmod
    <3>4. static'.glb_sd = NULL BY <3>3 DEF Fresh
    <3> QED BY <2>1, <2>2, <3>4 DEF MoveData
  <2>3. CASE d # "exp"
    <3>1. "glb_sd" \in DOMAIN static /\ "client_lost" \in DOMAIN static BY <1>0 DEF Statics
    <3>2. "glb_sd" \notin OwnFields(d) /\ "client_lost" \notin OwnFields(d)
      BY <2>3 DEF OwnFields
    <3>3. static'.glb_sd = static.glb_sd /\ static'.client_lost = static.client_lost
      BY <1>1, <3>1, <3>2 DEF insmod
    <3> QED BY <2>1, <2>3, <3>3 DEF MoveData
  <2> QED BY <2>2, <2>3
<1>2. CASE rmmod(d)
  <2>1. \A t \in Tasks : fd[t] # d BY <1>2 DEF rmmod, Refs
  <2> QED BY <1>2, <2>1 DEF rmmod, io, MoveData
<1>3. CASE mem[d] = "loading" /\ Load(d)
  <2>1. CASE misc_register(d) \/ sysfs_create_group(d) \/ (d = "exp" /\ cci_dev_init_helper)
    <3>1. UNCHANGED static
      BY <2>1 DEF misc_register, sysfs_create_group, cci_dev_init_helper
    <3>2. Abort(d) \/ (UNCHANGED <<fd, call>> /\ (mem' = mem \/ mem' = [mem EXCEPT ![d] = "dead"]))
      BY <2>1 DEF misc_register, sysfs_create_group, cci_dev_init_helper, io
    <3>3. CASE Abort(d)
      <4>1. mem'[d] = "out" /\ call' = call
            /\ fd' = [t \in Tasks |-> IF fd[t] = d THEN "stale" ELSE fd[t]]
        BY <3>3 DEF Abort, LifeTyped
      <4> QED BY <1>3, <3>1, <4>1 DEF MoveData
    <3>4. CASE UNCHANGED <<fd, call>> /\ (mem' = mem \/ mem' = [mem EXCEPT ![d] = "dead"])
      <4>1. mem'[d] # "out" BY <1>3, <3>4 DEF LifeTyped
      <4> QED BY <1>3, <3>1, <3>4, <4>1 DEF MoveData
    <3> QED BY <3>2, <3>3, <3>4
  <2>2. CASE init_returns(d)
    <3>1. mem'[d] = "in" BY <2>2 DEF init_returns, LifeTyped
    <3> QED BY <1>3, <2>2, <3>1 DEF init_returns, io, MoveData
  <2>3. CASE \/ script_get_ports \/ input_allocate_device \/ script_get_item \/ gpio_request
             \/ feedback_direction \/ input_register_device \/ sunxi_pwm_get_sys_config
             \/ gpio_direction_output_36 \/ sunxi_pwm_config \/ sunxi_pwm_enable
             \/ \E p \in Pins : pin_config_set(p)
    <3>1. UNCHANGED <<mem, fd, call>>
      BY <2>3 DEF script_get_ports, input_allocate_device, script_get_item, gpio_request,
                  feedback_direction, input_register_device, sunxi_pwm_get_sys_config,
                  gpio_direction_output_36, sunxi_pwm_config, sunxi_pwm_enable, pin_config_set,
                  life, io
    <3>2. static'.glb_sd = static.glb_sd /\ static'.client_lost = static.client_lost
      BY <1>0, <2>3
         DEF script_get_ports, input_allocate_device, script_get_item, gpio_request,
             feedback_direction, input_register_device, sunxi_pwm_get_sys_config,
             gpio_direction_output_36, sunxi_pwm_config, sunxi_pwm_enable, pin_config_set, Statics
    <3> QED BY <1>3, <3>1, <3>2 DEF MoveData
  <2> QED BY <1>3, <2>1, <2>2, <2>3 DEF Load
<1>4. CASE mem[d] = "leaving" /\ Unload(d)
  <2>1. CASE \/ misc_deregister(d) \/ exit_returns(d)
             \/ d = Ir /\ (input_free_device \/ feedback_gpio_free)
    <3>1. UNCHANGED <<fd, call, static>>
      BY <2>1 DEF misc_deregister, exit_returns, input_free_device, feedback_gpio_free, io
    <3>2. todo[d] # <<>> => Head(todo[d]) # "group"
      BY <2>1 DEF misc_deregister, exit_returns, input_free_device, feedback_gpio_free
    <3> QED BY <1>4, <3>1, <3>2 DEF MoveData
  <2>2. CASE sysfs_remove_group(d)
    <3>1. todo' = todo \/ \A t \in Tasks : ~(InCall(t, {"store"}) /\ call[t].dev = d)
      BY <2>2 DEF sysfs_remove_group, Drained
    <3> QED BY <1>4, <2>2, <3>1 DEF sysfs_remove_group, io, MoveData
  <2>3. CASE d = "exp" /\ cci_dev_exit_helper
    <3>1. Head(todo[d]) = "driver" /\ fd' = fd
      BY <2>3 DEF cci_dev_exit_helper, Freed, io
    <3>2. call' = call \/ call' = StaleCalls
      BY <2>3 DEF cci_dev_exit_helper, Freed, io, StaleCalls
    <3>3. static'.client_lost = static.client_lost
      BY <1>0, <2>3 DEF cci_dev_exit_helper, Statics
    <3> QED BY <1>4, <2>3, <3>1, <3>2, <3>3 DEF MoveData
  <2> QED BY <1>4, <2>1, <2>2, <2>3 DEF Unload
<1> QED BY <1>1, <1>2, <1>3, <1>4 DEF Moves, ModuleStep

LEMMA StoreHolds ==
  ASSUME LifeTyped, Running, Registered, NEW d \in Drivers, LifeStep(d), MoveData(d),
         Held(d), NEW t \in Tasks, InCall(t, {"store"}), call[t].dev = d
  PROVE  Held(d)'
<1>1. RunningOf(d) /\ RegisteredOf(d) BY DEF Running, RunningOf, Registered, RegisteredOf
<1>2. "group" \in Core BY DEF Core
<1>3. CASE \/ Starts(d) \/ Advances(d) \/ Skips(d) \/ Waits(d) \/ Dies(d) \/ Loads(d)
           \/ Leaves(d)
  BY <1>3 DEF Starts, Advances, Skips, Waits, Dies, Loads, Leaves, Same, Held
<1>4. CASE Aborts(d)
  <2>1. live[d] \intersect Core \subseteq {"misc"} BY <1>1, <1>4, AbortsEarly
  <2> QED BY <1>2, <1>4, <2>1 DEF Held, Aborts
<1>5. CASE Retreats(d)
  <2>1. todo'[d] # todo[d]
    <3>1. todo[d] \in Seq(StepNames) /\ todo[d] # <<>> /\ todo'[d] = Tail(todo[d])
      BY <1>5 DEF Retreats, LifeTyped
    <3>2. Len(Tail(todo[d])) = Len(todo[d]) - 1 /\ Len(todo[d]) \in Nat BY <3>1
    <3>3. Len(Tail(todo[d])) # Len(todo[d]) BY <3>2
    <3> QED BY <3>1, <3>3
  <2>2. Head(todo[d]) # "group" BY <1>5, <2>1 DEF Retreats, MoveData
  <2>3. "group" \in live[d] BY <2>2 DEF Held
  <2> QED BY <1>5, <2>2, <2>3 DEF Retreats, Held
<1>6. CASE Unloaded(d)
  <2>1. Taken(todo[d], Len(todo[d])) = {} BY <1>6 DEF Unloaded, Taken
  <2>2. live[d] \intersect Core = {} BY <1>1, <1>6, <2>1 DEF Unloaded, RegisteredOf
  <2> QED BY <1>2, <1>6, <2>2 DEF Held, Unloaded
<1>7. CASE Closes(d) BY <1>7 DEF Closes, Held
<1> QED BY <1>3, <1>4, <1>5, <1>6, <1>7 DEF LifeStep

LEMMA FilesMove ==
  ASSUME LifeTyped, DataTyped, Running, Registered, Files, Sensor,
         NEW d \in Drivers, LifeStep(d), MoveData(d), NEW t \in Tasks
  PROVE  /\ fd'[t] \in Drivers => mem'[fd'[t]] \in {"loading", "in", "dead"}
         /\ InCall(t, {"exp", "stale"})' => fd'[t] = "exp" /\ static'.glb_sd # NULL
         /\ InCall(t, {"stale"})' => static'.client_lost
         /\ InCall(t, {"read", "write"})' => fd'[t] = "mygpio"
         /\ InCall(t, {"store"})' => Held(call[t].dev)'
<1>1. \A e \in Drivers \ {d} : Waits(e) BY DEF LifeStep
<1>2. RunningOf(d) /\ RegisteredOf(d) BY DEF Running, RunningOf, Registered, RegisteredOf
<1>3. "exp" \in Drivers /\ "mygpio" \in Drivers /\ "stale" \notin Drivers BY DEF Drivers
<1>4. fd'[t] \in {fd[t], "stale"} /\ (fd[t] # d => fd'[t] = fd[t])
  BY DEF MoveData, DataTyped
<1>5. ASSUME fd[t] = d, fd'[t] = d PROVE mem'[d] \in {"loading", "in", "dead"}
  <2>1. mem[d] \in {"loading", "in", "dead"} BY <1>5 DEF Files
  <2>2. ~Aborts(d) BY <1>3, <1>5 DEF Aborts, MoveData, DataTyped
  <2>3. ~Leaves(d) BY <1>5 DEF Leaves, MoveData
  <2> QED BY <2>1, <2>2, <2>3
       DEF LifeStep, Starts, Advances, Skips, Waits, Dies, Loads, Retreats, Closes, Unloaded
<1>6. fd'[t] \in Drivers => mem'[fd'[t]] \in {"loading", "in", "dead"}
  <2>1. CASE fd'[t] = d BY <1>3, <1>4, <1>5, <2>1
  <2>2. CASE fd'[t] # d /\ fd'[t] \in Drivers
    <3>1. fd'[t] = fd[t] BY <1>3, <1>4, <2>2
    <3>2. mem'[fd[t]] = mem[fd[t]] BY <1>1, <2>2, <3>1 DEF Waits
    <3> QED BY <2>2, <3>1, <3>2 DEF Files
  <2> QED BY <2>1, <2>2
<1>7. ASSUME InCall(t, {"exp", "stale"})
      PROVE  /\ fd'[t] = "exp" /\ static'.glb_sd # NULL /\ call' = call
             /\ static'.client_lost = static.client_lost
  <2>1. fd[t] = "exp" /\ static.glb_sd # NULL BY <1>7 DEF Files
  <2>2. mem["exp"] \in {"loading", "in", "dead"} BY <1>3, <2>1 DEF Files
  <2>3. call' = call BY <2>2 DEF MoveData
  <2>4. static'.glb_sd = static.glb_sd /\ static'.client_lost = static.client_lost
    BY <2>2 DEF MoveData
  <2>5. d = "exp" => ~Aborts(d)
    <3>1. SUFFICES ASSUME d = "exp", Aborts(d) PROVE FALSE OBVIOUS
    <3>2. Gone(d) = 1 BY <1>2, <3>1, AbortsEarly
    <3>3. Gone("exp") = 2 BY <2>1, <3>1 DEF Sensor, Aborts
    <3> QED BY <3>1, <3>2, <3>3
  <2>6. d = "exp" => ~(mem[d] = "loading" /\ mem'[d] = "out")
    BY <2>5 DEF LifeStep, Starts, Advances, Skips, Waits, Dies, Loads, Leaves, Retreats, Closes,
                Unloaded
  <2>7. fd'[t] = "exp" BY <2>1, <2>6, <1>4 DEF MoveData
  <2> QED BY <2>1, <2>3, <2>4, <2>7
<1>8. /\ InCall(t, {"exp", "stale"})' => InCall(t, {"exp", "stale"})
      /\ InCall(t, {"read", "write"})' => InCall(t, {"read", "write"})
      /\ InCall(t, {"store"})' => InCall(t, {"store"}) /\ call'[t] = call[t]
  BY MiscAssumption DEF MoveData, StaleCalls, InCall
<1>9. InCall(t, {"stale"})' => static'.client_lost
  <2>1. SUFFICES ASSUME InCall(t, {"stale"})' PROVE static'.client_lost OBVIOUS
  <2>2. InCall(t, {"exp", "stale"})' BY <2>1 DEF InCall
  <2>3. call' = call /\ static'.client_lost = static.client_lost BY <1>7, <1>8, <2>2
  <2>4. InCall(t, {"stale"}) BY <2>1, <2>3 DEF InCall
  <2> QED BY <2>3, <2>4 DEF Files
<1>10. InCall(t, {"read", "write"})' => fd'[t] = "mygpio"
  <2>1. SUFFICES ASSUME InCall(t, {"read", "write"}) PROVE fd'[t] = "mygpio" BY <1>8
  <2>2. fd[t] = "mygpio" BY <2>1 DEF Files
  <2>3. d = "mygpio" => ~Aborts(d)
    <3>1. "mygpio" \notin Grouped BY DEF Grouped
    <3> QED BY <1>2, <3>1, AbortsEarly
  <2>4. d = "mygpio" => ~(mem[d] = "loading" /\ mem'[d] = "out")
    BY <2>3 DEF LifeStep, Starts, Advances, Skips, Waits, Dies, Loads, Leaves, Retreats, Closes,
                Unloaded
  <2> QED BY <1>4, <2>2, <2>4 DEF MoveData
<1>11. InCall(t, {"store"})' => Held(call[t].dev)'
  <2>1. SUFFICES ASSUME InCall(t, {"store"}), call'[t] = call[t]
                 PROVE  Held(call[t].dev)'
    BY <1>8
  <2>2. Held(call[t].dev) BY <2>1 DEF Files
  <2>3. call[t] \in Calls /\ call[t].op = "store" BY <2>1 DEF InCall, DataTyped
  <2>4. call[t].dev \in Drivers BY <2>3, CallTypes
  <2>5. CASE call[t].dev = d
    <3>1. Held(d)' BY <2>1, <2>2, <2>5, StoreHolds
    <3> QED BY <2>1, <2>5, <3>1 DEF Held
  <2>6. CASE call[t].dev # d BY <1>1, <2>1, <2>2, <2>4, <2>6 DEF Held, Waits, Same
  <2> QED BY <2>5, <2>6
<1> QED BY <1>6, <1>7, <1>8, <1>9, <1>10, <1>11

LEMMA SensorMove ==
  ASSUME LifeTyped, DataTyped, Running, Registered, Sensor, NEW d \in Drivers, LifeStep(d),
         MoveData(d)
  PROVE  Sensor'
<1>0. "exp" \in Drivers /\ NULL # "dangling" /\ "exp" # Ir BY MiscAssumption DEF Drivers, Ir
<1>1. CASE d # "exp"
  <2>1. Waits("exp") BY <1>0, <1>1 DEF LifeStep
  <2>2. Gone("exp")' = Gone("exp") BY <2>1 DEF Waits, Gone
  <2>3. static'.glb_sd = static.glb_sd /\ static'.client_lost = static.client_lost
    BY <1>1 DEF MoveData
  <2> QED BY <2>1, <2>2, <2>3 DEF Sensor, Waits
<1>2. CASE d = "exp"
  <2>1. CASE Starts("exp")
    <3>1. Gone("exp")' = 0
      <4>1. Len(InitSteps("exp")) \in Nat BY <1>0, StepsTyped
      <4> QED BY <2>1, <4>1 DEF Starts, Gone
    <3>2. mem["exp"] = "out" /\ mem'["exp"] = "loading" BY <2>1 DEF Starts
    <3> QED BY <1>0, <1>2, <3>1, <3>2 DEF Sensor, MoveData
  <2>2. CASE Advances("exp")
    <3>1. Gone("exp") \in 0 .. Len(InitSteps("exp")) - 1
      <4>1. RunningOf("exp") BY <1>0 DEF Running, RunningOf
      <4> QED BY <1>0, <2>2, <4>1, NextOfInit DEF Advances
    <3>2. Len(InitSteps("exp")) = 2 BY DEF InitSteps
    <3>3. Gone("exp") # 2
      <4>1. \A n \in Nat : n \notin 0 .. n - 1 OBVIOUS
      <4>2. 2 \in Nat OBVIOUS
      <4> QED BY <3>1, <3>2, <4>1, <4>2
    <3>4. static.glb_sd = NULL BY <2>2, <3>3 DEF Sensor, Advances
    <3>5. static'.glb_sd = NULL BY <2>2, <3>4 DEF MoveData, Advances
    <3> QED BY <1>0, <3>5 DEF Sensor
  <2>3. CASE Waits("exp") \/ Loads("exp")
    <3>1. /\ mem["exp"] \in {"loading", "in"} =>
               static'.glb_sd = static.glb_sd /\ static'.client_lost = static.client_lost
          /\ Gone("exp")' = Gone("exp")
          /\ mem'["exp"] \in {"loading", "in"} => mem["exp"] \in {"loading", "in"}
          /\ mem'["exp"] = "loading" => mem["exp"] = "loading"
      BY <2>3 DEF MoveData, Waits, Loads, Gone
    <3> QED BY <3>1 DEF Sensor
  <2>4. CASE \/ Dies("exp") \/ Aborts("exp") \/ Leaves("exp") \/ Retreats("exp")
             \/ Closes("exp") \/ Unloaded("exp")
    BY <2>4 DEF Dies, Aborts, Leaves, Retreats, Closes, Unloaded, Sensor
  <2> QED BY <1>0, <1>2, <2>1, <2>2, <2>3, <2>4 DEF LifeStep, Skips
<1> QED BY <1>1, <1>2

(* The other steps.                                                        *)
LEMMA FilesTask ==
  ASSUME LifeTyped, DataTyped, Running, Registered, Files, Sensor, TimerOnly,
         NEW t \in Tasks, TaskStep(t), NEW u \in Tasks
  PROVE  /\ fd'[u] \in Drivers => mem'[fd'[u]] \in {"loading", "in", "dead"}
         /\ InCall(u, {"exp", "stale"})' => fd'[u] = "exp" /\ static'.glb_sd # NULL
         /\ InCall(u, {"stale"})' => static'.client_lost
         /\ InCall(u, {"read", "write"})' => fd'[u] = "mygpio"
         /\ InCall(u, {"store"})' => Held(call[u].dev)'
<1> DEFINE Fine == /\ fd'[u] \in Drivers => mem'[fd'[u]] \in {"loading", "in", "dead"}
                   /\ InCall(u, {"exp", "stale"})' => fd'[u] = "exp" /\ static'.glb_sd # NULL
                   /\ InCall(u, {"stale"})' => static'.client_lost
                   /\ InCall(u, {"read", "write"})' => fd'[u] = "mygpio"
                   /\ InCall(u, {"store"})' => Held(call[u].dev)'
<1> SUFFICES Fine OBVIOUS
<1>0. /\ mem' = mem /\ "group" \in Core
      /\ \A d \in Drivers : live'[d] \intersect Core = live[d] \intersect Core
      /\ \A d \in Drivers : Held(d) => /\ mem'[d] # "out"
                                       /\ \/ "group" \in live'[d]
                                          \/ /\ mem'[d] = "leaving" /\ todo'[d] # <<>>
                                             /\ Head(todo'[d]) = "group"
  BY DEF TimerOnly, Core, Held
<1>1. NULL \notin Drivers BY MiscAssumption
<1>2. InCall(u, {"store"}) => call[u].dev \in Drivers
  BY StoreDevice
<1>3. ASSUME call'[u] = call[u], fd'[u] = fd[u], static'.glb_sd = static.glb_sd,
             static'.client_lost = static.client_lost
      PROVE  Fine
  <2>1. \A O : InCall(u, O)' <=> InCall(u, O) BY <1>3 DEF InCall
  <2>2. InCall(u, {"store"}) => Held(call[u].dev) BY DEF Files
  <2>3. InCall(u, {"store"})' => Held(call[u].dev)' BY <1>0, <1>2, <1>3, <2>1, <2>2 DEF Held
  <2> QED BY <1>0, <1>3, <2>1, <2>3 DEF Files
<1>4. ASSUME call'[u] = NULL,
             fd'[u] \in {fd[u], NULL} \/ (fd'[u] \in Drivers /\ mem[fd'[u]] \in {"loading", "in"})
      PROVE  Fine
  <2>1. \A O : ~InCall(u, O)' BY <1>4 DEF InCall
  <2>2. fd'[u] \in Drivers => mem[fd'[u]] \in {"loading", "in", "dead"} BY <1>1, <1>4 DEF Files
  <2> QED BY <1>0, <2>1, <2>2
<1>5. ASSUME call'[u].op \in {"exp", "stale"}, fd'[u] = fd[u], fd[u] = "exp",
             static' = static, static.glb_sd # NULL,
             call'[u].op = "stale" => static.glb_sd = "dangling"
      PROVE  Fine
  <2>1. mem["exp"] \in {"loading", "in", "dead"} BY <1>5 DEF Files, Drivers
  <2>2. "exp" \notin Grouped BY DEF Grouped
  <2>3. mem["exp"] # "dead" BY <2>2 DEF Running, Drivers
  <2>4. call'[u].op = "stale" => static.client_lost BY <1>5, <2>1, <2>3 DEF Sensor
  <2> QED BY <1>0, <1>5, <2>1, <2>4 DEF InCall
<1>6. ASSUME call'[u].op \in {"read", "write"}, fd'[u] = fd[u], fd[u] = "mygpio"
      PROVE  Fine
  <2>1. ~InCall(u, {"exp", "stale"})' /\ ~InCall(u, {"stale"})' /\ ~InCall(u, {"store"})'
    BY <1>6 DEF InCall
  <2> QED BY <1>0, <1>6, <2>1 DEF Files
<1>7. ASSUME call'[u].op = "store", fd'[u] = fd[u], call'[u].dev \in Drivers,
             Held(call'[u].dev)
      PROVE  Fine
  <2>1. ~InCall(u, {"exp", "stale"})' /\ ~InCall(u, {"stale"})' /\ ~InCall(u, {"read", "write"})'
    BY <1>7 DEF InCall
  <2>2. Held(call[u].dev)' BY <1>0, <1>7 DEF Held
  <2> QED BY <1>0, <1>7, <2>1, <2>2 DEF Files
<1> HIDE DEF Fine
<1>8. CASE u # t
  <2>1. call'[u] = call[u] /\ fd'[u] = fd[u]
    BY <1>8 DEF TaskStep, CallStep, Continue, Begin, misc_open, close, sysfs_get_active,
                matata_exposure_write, Die, led_read, led_write, pwm_read, pwm_write, SetPort,
                PortBeyond, gpio_read, gpio_write, matata_exposure_return, gpio_direction,
                gpio_value,
                ctl_store, pwm_store, set_func, Returned, DieHolding, DataTyped, io, life
  <2>2. static'.glb_sd = static.glb_sd /\ static'.client_lost = static.client_lost
    <3>1. CASE set_func(t) BY <3>1 DEF set_func, DataTyped, Statics
    <3>2. CASE Begin(t)
      BY <3>2 DEF Begin, misc_open, close, sysfs_get_active, matata_exposure_write, led_read,
                  led_write, pwm_read, pwm_write, PortBeyond, SetPort, gpio_read, gpio_write
    <3>3. CASE matata_exposure_return(t) \/ gpio_direction(t) \/ gpio_value(t)
      BY <3>3 DEF matata_exposure_return, gpio_direction, gpio_value, InGpio
    <3>4. CASE ctl_store(t) \/ pwm_store(t) BY <3>4 DEF ctl_store, pwm_store
    <3> QED BY <3>1, <3>2, <3>3, <3>4 DEF TaskStep, CallStep, Continue
  <2> QED BY <1>3, <2>1, <2>2
<1>9. CASE u = t
  <2> USE <1>9 DEF CanCall
  <2>1. CASE close(t) \/ \E d \in board.active : misc_open(t, d)
    <3>1. call'[u] = NULL /\ fd'[u] \in Drivers \union {NULL}
          /\ (fd'[u] \in Drivers => mem[fd'[u]] \in {"loading", "in"})
      BY <1>1, <2>1, BoardTypes DEF close, misc_open, DataTyped
    <3> QED BY <1>4, <3>1
  <2>2. CASE \E d \in board.active : sysfs_get_active(t, d)
    <3>1. PICK d \in Drivers : sysfs_get_active(t, d) BY <2>2, BoardTypes DEF DataTyped
    <3>2. call'[u].op = "store" /\ call'[u].dev = d /\ fd'[u] = fd[u]
      <4>1. PICK a \in Attributes(d), n \in Numbers :
              call' = [call EXCEPT ![t] = [op |-> "store", dev |-> d, attr |-> a, n |-> n]]
        BY <3>1 DEF sysfs_get_active
      <4> QED BY <3>1, <4>1 DEF sysfs_get_active, DataTyped
    <3>3. "group" \in live[d] BY <3>1 DEF sysfs_get_active
    <3>4. mem[d] # "out" BY <3>3 DEF Registered
    <3> QED BY <1>7, <3>2, <3>3, <3>4 DEF Held
  <2>3. CASE matata_exposure_write(t)
    <3>1. static' = static /\ fd[u] = "exp" BY <2>3 DEF matata_exposure_write
    <3>2. CASE Die(t)
      <4>1. call'[u] = NULL /\ fd'[u] = NULL BY <3>2 DEF Die, DataTyped
      <4> QED BY <1>4, <4>1
    <3>3. CASE /\ static.glb_sd # NULL /\ fd' = fd
               /\ call' = [call EXCEPT ![t] =
                            [op |-> IF static.glb_sd = "sensor" THEN "exp" ELSE "stale"]]
      <4>1. call'[u].op = IF static.glb_sd = "sensor" THEN "exp" ELSE "stale"
        BY <3>3 DEF DataTyped
      <4>2. static.glb_sd \in {NULL, "sensor", "dangling"} BY DEF DataTyped, Statics
      <4> QED BY <1>5, <3>1, <3>3, <4>1, <4>2
    <3> QED BY <2>3, <3>2, <3>3 DEF matata_exposure_write
  <2>4. CASE PortCalls(t)
    <3>1. CASE UNCHANGED <<fd, call, static>> BY <1>3, <3>1
    <3>2. CASE Die(t)
      <4>1. call'[u] = NULL /\ fd'[u] = NULL BY <3>2 DEF Die, DataTyped
      <4> QED BY <1>4, <4>1
    <3> QED BY <2>4, <3>1, <3>2, PortWrites DEF PortBeyond, SetPort, io
  <2>5. CASE gpio_read(t) \/ gpio_write(t)
    <3>1. call'[u].op \in {"read", "write"} /\ fd' = fd /\ fd[u] = "mygpio"
      BY <2>5 DEF gpio_read, gpio_write, DataTyped
    <3> QED BY <1>6, <3>1
  <2>6. CASE gpio_direction(t)
    <3>1. InCall(t, {"read", "write"}) /\ fd' = fd /\ call' = [call EXCEPT ![t].at = "value"]
      BY <2>6 DEF gpio_direction, InGpio
    <3>2. fd[u] = "mygpio" BY <3>1 DEF Files
    <3>3. call[t] \in Calls /\ call[t].op \in {"read", "write"} BY <3>1 DEF InCall, DataTyped
    <3>4. call'[u].op = call[t].op BY <3>1, <3>3 DEF DataTyped
    <3> QED BY <1>6, <3>1, <3>2, <3>3, <3>4
  <2>7. CASE \/ matata_exposure_return(t) \/ gpio_value(t) \/ ctl_store(t) \/ pwm_store(t)
             \/ set_func(t)
    <3>1. call' = [call EXCEPT ![t] = NULL] /\ (fd' = fd \/ fd' = [fd EXCEPT ![t] = NULL])
      BY <2>7 DEF matata_exposure_return, gpio_value, ctl_store, pwm_store, set_func, Returned,
                  DieHolding, Die
    <3>2. call'[u] = NULL /\ fd'[u] \in {fd[u], NULL} BY <3>1 DEF DataTyped
    <3> QED BY <1>4, <3>2
  <2> QED BY <2>1, <2>2, <2>3, <2>4, <2>5, <2>6, <2>7
       DEF TaskStep, CallStep, Begin, PortCalls, Continue
<1> QED BY <1>8, <1>9

LEMMA OtherKept ==
  ASSUME LifeTyped, DataTyped, Running, Registered, Files, Sensor, TimerOnly, OtherStep
  PROVE  Files' /\ Sensor'
<1>0. /\ mem' = mem /\ todo' = todo /\ "group" \in Core /\ "exp" \in Drivers
      /\ \A d \in Drivers : live'[d] \intersect Core = live[d] \intersect Core
  BY DEF TimerOnly, Core, Drivers
<1>1. NULL \notin {"sensor", "dangling"} BY MiscAssumption
<1>2. \A t \in Tasks : InCall(t, {"store"}) => call[t].dev \in Drivers
  BY StoreDevice
<1>3. \A t \in Tasks : InCall(t, {"store"}) /\ call'[t] = call[t] => Held(call[t].dev)'
  BY <1>0, <1>2 DEF Files, Held
<1>4. fd' = fd
  BY DEF OtherStep, sensor_probe, sensor_remove, Freed, led_timer_func, use_after_free, io
<1>5. CASE led_timer_func \/ use_after_free
  <2>1. UNCHANGED <<call, static>> BY <1>5 DEF led_timer_func, use_after_free, io
  <2>2. Files' BY <1>0, <1>3, <1>4, <2>1 DEF Files, InCall
  <2>3. Sensor' BY <1>0, <2>1 DEF Sensor, Gone
  <2> QED BY <2>2, <2>3
<1>6. CASE sensor_probe
  <2>1. call' = call /\ static'.glb_sd = "sensor" /\ static'.client_lost = static.client_lost
    BY <1>6 DEF sensor_probe, io, DataTyped, Statics
  <2>2. Files' BY <1>0, <1>1, <1>3, <1>4, <2>1 DEF Files, InCall
  <2>3. mem["exp"] = "loading" => Gone("exp") = 2
    <3>1. SUFFICES ASSUME mem["exp"] = "loading" PROVE Gone("exp") = 2 OBVIOUS
    <3>2. "driver" \in live["exp"] /\ "driver" \in Core BY <1>6 DEF sensor_probe, Core
    <3>3. "driver" \in Taken(InitSteps("exp"), Gone("exp"))
      BY <1>0, <3>1, <3>2 DEF Registered
    <3>4. Len(InitSteps("exp")) = 2 /\ InitSteps("exp")[1] = "misc" BY DEF InitSteps
    <3>5. Gone("exp") \in 0 .. 2
      <4>1. Rest(todo["exp"], InitSteps("exp"), Gone("exp")) BY <1>0, <3>1 DEF Running
      <4>2. Gone("exp") \in 0 .. Len(InitSteps("exp")) BY <4>1 DEF Rest
      <4> QED BY <3>4, <4>2
    <3>6. PICK i \in 1 .. Gone("exp") : InitSteps("exp")[i] = "driver" BY <3>3 DEF Taken
    <3>7. i # 1 BY <3>4, <3>6
    <3> QED BY <3>5, <3>6, <3>7
  <2>4. Sensor' BY <1>0, <2>1, <2>3 DEF Sensor, Gone
  <2> QED BY <2>2, <2>4
<1>7. CASE sensor_remove
  <2>1. call' = StaleCalls /\ static'.glb_sd = "dangling" /\ static'.client_lost = TRUE
        /\ static.glb_sd = "sensor"
    BY <1>7 DEF sensor_remove, Freed, StaleCalls, DataTyped, Statics
  <2>2. \A t \in Tasks :
          /\ InCall(t, {"exp", "stale"})' => InCall(t, {"exp", "stale"})
          /\ InCall(t, {"read", "write"})' => InCall(t, {"read", "write"})
          /\ InCall(t, {"store"})' => InCall(t, {"store"}) /\ call'[t] = call[t]
    BY <2>1, MiscAssumption DEF StaleCalls, InCall
  <2>3. Files' BY <1>0, <1>1, <1>3, <1>4, <2>1, <2>2 DEF Files
  <2>4. Sensor' BY <1>0, <1>1, <2>1 DEF Sensor, Gone
  <2> QED BY <2>3, <2>4
<1> QED BY <1>5, <1>6, <1>7 DEF OtherStep

LEMMA SensorTask ==
  ASSUME DataTyped, Sensor, TimerOnly, NEW t \in Tasks, TaskStep(t)
  PROVE  Sensor'
<1>1. static'.glb_sd = static.glb_sd /\ static'.client_lost = static.client_lost
  <2>1. CASE set_func(t) BY <2>1 DEF set_func, DataTyped, Statics
  <2>2. CASE Begin(t)
    BY <2>2 DEF Begin, misc_open, close, sysfs_get_active, matata_exposure_write, led_read,
                led_write, pwm_read, pwm_write, PortBeyond, SetPort, gpio_read, gpio_write
  <2>3. CASE matata_exposure_return(t) \/ gpio_direction(t) \/ gpio_value(t)
    BY <2>3 DEF matata_exposure_return, gpio_direction, gpio_value, InGpio
  <2>4. CASE ctl_store(t) \/ pwm_store(t) BY <2>4 DEF ctl_store, pwm_store
  <2> QED BY <2>1, <2>2, <2>3, <2>4 DEF TaskStep, CallStep, Continue
<1>2. mem' = mem /\ Gone("exp")' = Gone("exp") BY DEF TimerOnly, Gone
<1> QED BY <1>1, <1>2 DEF Sensor

-----------------------------------------------------------------------------
(* The invariant of the life of modules is inductive.                      *)

LEMMA LifeInit == Init => LifeInv
<1> SUFFICES ASSUME Init PROVE LifeInv OBVIOUS
<1> USE DEF Init
<1>1. NULL \notin Drivers /\ NULL # Ir BY MiscAssumption DEF Ir, Drivers
<1>2. <<>> \in Seq(StepNames) OBVIOUS
<1>3. todo \in [Drivers -> Seq(StepNames)] BY <1>2
<1>4. Running BY <1>3 DEF Running
<1>5. Registered BY DEF Registered
<1>6. Owned BY <1>1 DEF Owned
<1>7. \A t \in Tasks : \A O : ~InCall(t, O) BY DEF InCall
<1>8. Files BY <1>1, <1>7 DEF Files
<1>9. static.glb_sd = NULL BY DEF Fresh
<1>10. Sensor BY <1>9, MiscAssumption DEF Sensor
<1>11. LifeTyped BY <1>3 DEF LifeTyped
<1>12. DataTyped
  <2>1. [code |-> 0, entire |-> 0, active |-> 0, on |-> FALSE] \in Pwm0Regs
    <3>1. 0 \in EntireCycles /\ 0 \in ActiveCycles BY SMT DEF EntireCycles, ActiveCycles
    <3>2. 0 \in 0 .. 15 OBVIOUS
    <3> QED BY <3>1, <3>2 DEF Pwm0Regs
  <2>2. pins \in [Pins -> PinStates] BY DEF PinStates
  <2> QED BY <2>1, <2>2, FreshTyped DEF DataTyped
<1> QED BY <1>4, <1>5, <1>6, <1>8, <1>10, <1>11, <1>12, TypesSplit DEF LifeInv

LEMMA LifeNext == LifeInv /\ [Next]_vars => LifeInv'
<1> SUFFICES ASSUME LifeInv, [Next]_vars PROVE LifeInv' OBVIOUS
<1>0. LifeTyped /\ DataTyped /\ Running /\ Registered /\ Owned /\ Files /\ Sensor
  BY TypesSplit DEF LifeInv
<1>1. board.active \subseteq Drivers /\ board.tasks \subseteq Tasks
  BY <1>0, BoardTypes DEF DataTyped
<1>2. ASSUME LifeTyped', DataTyped', Running', Registered', Owned', Files', Sensor' PROVE LifeInv'
  <2>1. (LifeTyped /\ DataTyped /\ Running => TypeOK)'
    BY TypesSplit, PTL
  <2> QED BY <1>2, <2>1 DEF LifeInv
<1>3. ASSUME NEW d \in Drivers, Moves(d) PROVE LifeInv'
  <2>1. LifeStep(d) BY <1>0, <1>3, ModuleSteps
  <2>2. LifeTyped' BY <2>1 DEF LifeStep
  <2>3. DataTyped' BY <1>0, <1>3, MoveTyped
  <2>4. Running' /\ Registered' BY <1>0, <2>1, RunningKept, RegisteredKept
  <2>5. Owned'
    <3>1. CASE d = Ir BY <1>0, <1>3, <3>1, OwnedIr
    <3>2. CASE d # Ir
      <4>1. Plain BY <1>0, <1>3, <3>2, MovePlain
      <4>2. Ir \in Drivers BY DEF Ir, Drivers
      <4>3. UNCHANGED <<mem[Ir], todo[Ir]>> BY <2>1, <3>2, <4>2 DEF LifeStep, Waits
      <4> QED BY <1>0, <4>1, <4>3, OwnedElsewhere
    <3> QED BY <3>1, <3>2
  <2>6. MoveData(d) BY <1>0, <1>3, MovesData
  <2>7. Files' BY <1>0, <2>1, <2>6, FilesMove DEF Files
  <2>8. Sensor' BY <1>0, <2>1, <2>6, SensorMove
  <2> QED BY <1>2, <2>2, <2>3, <2>4, <2>5, <2>7, <2>8
<1>4. ASSUME NEW t \in Tasks, TaskStep(t) PROVE LifeInv'
  <2>1. TimerOnly BY <1>0, <1>4, TimerSteps
  <2>2. DataTyped' BY <1>0, <1>4, BeginTyped, ContinueTyped DEF TaskStep, CallStep
  <2>3. Running' /\ Registered' /\ LifeTyped' BY <1>0, <2>1, TimerKept DEF TimerOnly
  <2>4. Plain BY <1>0, <1>4, TaskPlain
  <2>5. Owned' BY <1>0, <2>1, <2>4, OwnedElsewhere DEF TimerOnly
  <2>6. Files' BY <1>0, <1>4, <2>1, FilesTask DEF Files
  <2>7. Sensor' BY <1>0, <1>4, <2>1, SensorTask
  <2> QED BY <1>2, <2>2, <2>3, <2>5, <2>6, <2>7
<1>5. CASE OtherStep
  <2>1. TimerOnly /\ Plain BY <1>0, <1>5, TimerSteps, TaskPlain
  <2>2. Running' /\ Registered' /\ LifeTyped' BY <1>0, <2>1, TimerKept DEF TimerOnly
  <2>3. DataTyped' BY <1>0, <1>5, OtherTyped
  <2>4. Owned' BY <1>0, <2>1, OwnedElsewhere DEF TimerOnly
  <2>5. Files' /\ Sensor' BY <1>0, <1>5, <2>1, OtherKept
  <2> QED BY <1>2, <2>2, <2>3, <2>4, <2>5
<1>6. CASE UNCHANGED vars
  <2> USE <1>6 DEF vars, life, io, gpio
  <2>1. LifeTyped' /\ DataTyped' BY <1>0 DEF LifeTyped, DataTyped
  <2>2. Running' BY <1>0 DEF Running, Gone, Over
  <2>3. Registered' BY <1>0 DEF Registered, Gone, LeftBehind
  <2>4. Owned' BY <1>0 DEF Owned, Gone
  <2>5. Files' BY <1>0 DEF Files, InCall, Held
  <2>6. Sensor' BY <1>0 DEF Sensor, Gone
  <2> QED BY <1>2, <2>1, <2>2, <2>3, <2>4, <2>5, <2>6
<1> QED BY <1>1, <1>3, <1>4, <1>5, <1>6 DEF Next, Moves, TaskStep, OtherStep

-----------------------------------------------------------------------------
(* Types are respected: a module has only steps of its own init or exit    *)
(* left to take, whatever fails and whoever opens, stores and closes       *)
(* meanwhile, and pins, registers and static variables keep their ranges.  *)
THEOREM MiscTyped == Spec => []TypeOK
<1>1. LifeInv => TypeOK BY DEF LifeInv
<1> QED BY LifeInit, LifeNext, <1>1, PTL DEF Spec

(* A module's life, the pin it owns, its files and its sensor stay in step *)
(* with how far its init or exit has come: the inductive invariant behind  *)
(* the two theorems that follow.                                           *)
THEOREM LifeInvariant == Spec => []LifeInv
BY LifeInit, LifeNext, PTL DEF Spec

(* When a module's memory is freed, by rmmod or by an init that fails, it  *)
(* leaves nothing registered but what the code cannot give back, and no    *)
(* pin requested (mt_gpio.c:171-183, gc2023.c:1478-1503, chgled.c:70-112). *)
THEOREM NothingLeft == Spec => []LeavesNothing
<1>1. LifeInv => LeavesNothing
  <2> SUFFICES ASSUME LifeInv, NEW d \in Drivers
               PROVE  /\ left[d] \subseteq LeftBehind(d)
                      /\ mem[d] = "out" => live[d] = {} /\ \A p \in Pins : pins[p].owner # d
    BY DEF LeavesNothing
  <2>1. left[d] \subseteq LeftBehind(d) /\ (mem[d] = "out" => live[d] = {})
    BY DEF LifeInv, Registered
  <2>2. ASSUME mem[d] = "out", NEW p \in Pins PROVE pins[p].owner # d
    <3>1. d # "auto" /\ d # NULL BY MiscAssumption DEF Drivers
    <3>2. pins[p].owner \in {NULL, "auto", Ir} BY DEF LifeInv, Owned
    <3>3. pins[p].owner = Ir => mem[Ir] # "out" BY DEF LifeInv, Owned
    <3> QED BY <2>2, <3>1, <3>2, <3>3
  <2> QED BY <2>1, <2>2
<1> QED BY LifeInit, LifeNext, <1>1, PTL DEF Spec

(* No task runs in a function of a module that is not in memory, and a     *)
(* writer to /dev/exp has a sensor unless the I2C device was taken away    *)
(* (gc2023.c:1340-1346, 1497-1503, mt_gpio.c:171-183): the references of   *)
(* open files and attributes are enough.                                   *)
THEOREM CallsHaveModules == Spec => []CallHasModule
<1>1. LifeInv => CallHasModule
  <2> SUFFICES ASSUME LifeInv, NEW t \in Tasks, call[t] # NULL
               PROVE  /\ call[t].op = "store" =>
                           mem[call[t].dev] # "out"
                      /\ call[t].op = "exp" => mem["exp"] = "in" \/ mem["exp"] = "loading"
                      /\ call[t].op = "stale" => static.client_lost
                      /\ call[t].op \in {"read", "write"} => mem["mygpio"] # "out"
    BY DEF CallHasModule
  <2>1. Files BY DEF LifeInv
  <2>2. call[t].op = "store" => mem[call[t].dev] # "out" BY <2>1 DEF Files, InCall, Held
  <2>3. call[t].op = "exp" => mem["exp"] = "in" \/ mem["exp"] = "loading"
    <3>1. SUFFICES ASSUME call[t].op = "exp" PROVE mem["exp"] = "in" \/ mem["exp"] = "loading"
      OBVIOUS
    <3>2. fd[t] = "exp" BY <2>1, <3>1 DEF Files, InCall
    <3>3. mem["exp"] \in {"loading", "in", "dead"} BY <2>1, <3>2 DEF Files, Drivers
    <3>4. mem["exp"] # "dead" BY DEF LifeInv, Running, Grouped, Drivers
    <3> QED BY <3>3, <3>4
  <2>4. call[t].op = "stale" => static.client_lost BY <2>1 DEF Files, InCall
  <2>5. call[t].op \in {"read", "write"} => mem["mygpio"] # "out"
    <3>1. call[t].op \in {"read", "write"} => fd[t] = "mygpio" BY <2>1 DEF Files, InCall
    <3> QED BY <2>1, <3>1 DEF Files, Drivers
  <2> QED BY <2>2, <2>3, <2>4, <2>5
<1> QED BY LifeInit, LifeNext, <1>1, PTL DEF Spec

-----------------------------------------------------------------------------
(* Pins that are written stay as written.                                  *)

(* Outside P the function and the latch of the pins stay.                  *)
Beyond(P) == \A q \in Pins \ P : pins'[q].func = pins[q].func /\ pins'[q].high = pins[q].high

(* The calls of mygpio are those that were, or have just begun.            *)
CallsGoOn ==
  \A t \in Tasks :
    InCall(t, {"read", "write"})' =>
      \/ InCall(t, {"read", "write"}) /\ call'[t] = call[t]
      \/ call'[t].at = "direction" /\ call'[t].pin \in {NULL, call'[t].asked}

LEMMA Untouched ==
  ASSUME Writing, PinAsWritten, CallsGoOn, Beyond({}), wrote' = wrote,
         \A t \in alone' : t \in alone \/ (InCall(t, {"write"})' => call'[t].at = "direction"),
         DataTyped, DataTyped'
  PROVE  Writing' /\ PinAsWritten'
<1>1. PinAsWritten' BY DEF PinAsWritten, Drives, Beyond
<1>2. ASSUME NEW t \in Tasks, InCall(t, {"read", "write"})'
      PROVE  call'[t].pin \in {NULL, call'[t].asked}
  BY <1>2 DEF CallsGoOn, Writing
<1>3. ASSUME NEW t \in Tasks, t \in alone', InCall(t, {"write"})', call'[t].at = "value",
             call'[t].pin # NULL
      PROVE  pins'[call'[t].pin].func = "out"
  <2>1. InCall(t, {"read", "write"})' BY <1>3 DEF InCall
  <2>2. InCall(t, {"read", "write"}) /\ call'[t] = call[t] BY <1>3, <2>1 DEF CallsGoOn
  <2>3. InCall(t, {"write"}) BY <1>3, <2>2 DEF InCall
  <2>4. t \in alone BY <1>3
  <2>5. pins[call[t].pin].func = "out" BY <1>3, <2>2, <2>3, <2>4 DEF Writing
  <2>6. call[t].pin \in Pins BY <1>3, <2>2, CallTypes DEF InCall, DataTyped
  <2> QED BY <2>2, <2>5, <2>6 DEF Beyond
<1> QED BY <1>1, <1>2, <1>3 DEF Writing

LEMMA TouchKeeps ==
  ASSUME Writing, PinAsWritten, DataTyped, call' = call,
         NEW P \in SUBSET Pins, Beyond(P), Touched(P, NULL)
  PROVE  Writing' /\ PinAsWritten'
<1>1. PinAsWritten' BY DEF PinAsWritten, Drives, Beyond, Touched
<1>2. ASSUME NEW t \in Tasks, t \in alone', InCall(t, {"write"})', call'[t].at = "value",
             call'[t].pin # NULL
      PROVE  pins'[call'[t].pin].func = "out"
  <2>1. InCall(t, {"write"}) /\ InCall(t, {"read", "write"}) BY <1>2 DEF InCall
  <2>2. t \in alone /\ ~Aims(t, P) BY <1>2, MiscAssumption DEF Touched
  <2>3. call[t].pin = call[t].asked BY <1>2, <2>1 DEF Writing
  <2>4. call[t].pin \notin P BY <2>1, <2>2, <2>3 DEF Aims
  <2>5. call[t].pin \in Pins BY <1>2, <2>1, CallTypes DEF InCall, DataTyped
  <2>6. pins[call[t].pin].func = "out" BY <1>2, <2>1, <2>2 DEF Writing
  <2> QED BY <2>4, <2>5, <2>6 DEF Beyond
<1>3. \A t \in Tasks : InCall(t, {"read", "write"})' => call'[t].pin \in {NULL, call'[t].asked}
  BY DEF Writing, InCall
<1> QED BY <1>1, <1>2, <1>3 DEF Writing

LEMMA SetPortKeeps ==
  ASSUME Writing, PinAsWritten, DataTyped, NEW p \in Pins, NEW h \in BOOLEAN, SetPort(p, h)
  PROVE  Writing' /\ PinAsWritten'
<1>1. pins' = Value(pins, p, h) /\ Touched({p}, NULL) /\ call' = call BY DEF SetPort, io
<1>2. OnlyPin(p, pins, Value(pins, p, h)) BY PinOps DEF DataTyped
<1>3. Beyond({p}) BY <1>1, <1>2 DEF OnlyPin, Beyond
<1> QED BY <1>1, <1>3, TouchKeeps

LEMMA MovePins ==
  ASSUME Writing, PinAsWritten, DataTyped, DataTyped', NEW d \in Drivers, Moves(d), MoveData(d)
  PROVE  Writing' /\ PinAsWritten'
<1>1. ASSUME UNCHANGED <<wrote, alone>>, Beyond({}) PROVE Writing' /\ PinAsWritten'
  <2>1. CallsGoOn BY DEF MoveData, StaleCalls, CallsGoOn, InCall
  <2> QED BY <1>1, <2>1, Untouched
<1>2. ASSUME UNCHANGED gpio PROVE Writing' /\ PinAsWritten'
  BY <1>1, <1>2 DEF gpio, Beyond
<1>3. CASE insmod(d) \/ rmmod(d) BY <1>2, <1>3 DEF insmod, rmmod
<1>4. CASE Load(d)
  <2>1. CASE \/ misc_register(d) \/ sysfs_create_group(d) \/ init_returns(d)
             \/ cci_dev_init_helper \/ input_allocate_device \/ script_get_item
             \/ sunxi_pwm_get_sys_config \/ sunxi_pwm_config \/ sunxi_pwm_enable
    BY <1>2, <2>1 DEF misc_register, sysfs_create_group, init_returns, cci_dev_init_helper,
                      input_allocate_device, script_get_item, sunxi_pwm_get_sys_config,
                      sunxi_pwm_config, sunxi_pwm_enable
  <2>2. CASE script_get_ports
    <3>1. CASE UNCHANGED gpio BY <1>2, <3>1
    <3>2. CASE /\ PortExists(static.i)
               /\ pins' = Output(pins, board.script[static.i + 1], FALSE)
               /\ Touched({board.script[static.i + 1]}, NULL)
      <4>1. board.script \in Seq(Pins) /\ static.i \in 0 .. 10
        BY BoardTypes DEF DataTyped, Statics
      <4>2. board.script[static.i + 1] \in Pins BY <3>2, <4>1 DEF PortExists
      <4>3. FALSE \in BOOLEAN /\ pins \in [Pins -> PinStates] BY DEF DataTyped
      <4>4. OnlyPin(board.script[static.i + 1], pins, pins') BY <3>2, <4>2, <4>3, PinOps
      <4>5. Beyond({board.script[static.i + 1]}) BY <4>4 DEF OnlyPin, Beyond
      <4>6. call' = call BY <2>2 DEF script_get_ports, io
      <4> QED BY <3>2, <4>2, <4>5, <4>6, TouchKeeps
    <3> QED BY <2>2, <3>1, <3>2 DEF script_get_ports
  <2>3. CASE gpio_request \/ input_register_device
    <3>1. UNCHANGED <<wrote, alone>> BY <2>3 DEF gpio_request, input_register_device
    <3>2. static.feedback_port \in Pins /\ pins \in [Pins -> PinStates]
      BY DEF DataTyped, Statics
    <3>3. \/ pins' = pins \/ pins' = Requested(pins, static.feedback_port, Ir)
          \/ gpio_free(static.feedback_port)
      BY <2>3 DEF gpio_request, input_register_device
    <3>4. Beyond({}) BY <3>2, <3>3, FreePin DEF Beyond, Requested, PinStates
    <3> QED BY <1>1, <3>1, <3>4
  <2>4. CASE feedback_direction
    <3> DEFINE p == static.feedback_port
               u == Input(pins, p)
    <3>1. p \in Pins /\ pins \in [Pins -> PinStates] /\ FALSE \in BOOLEAN
      BY DEF DataTyped, Statics
    <3>2. u \in [Pins -> PinStates] /\ OnlyPin(p, pins, u) BY <3>1, PinOps
    <3>3. pins' = Output(u, p, FALSE) /\ Touched({p}, NULL) /\ call' = call
      BY <2>4 DEF feedback_direction, io
    <3> HIDE DEF p, u
    <3>4. OnlyPin(p, u, pins') BY <3>1, <3>2, <3>3, PinOps
    <3>5. Beyond({p}) BY <3>2, <3>4 DEF OnlyPin, Beyond
    <3> QED BY <3>1, <3>3, <3>5, TouchKeeps
  <2>5. CASE gpio_direction_output_36
    <3>1. Pin36 \in Pins /\ TRUE \in BOOLEAN /\ pins \in [Pins -> PinStates]
      BY MiscAssumption DEF DataTyped
    <3>2. pins' = Output(pins, Pin36, TRUE) /\ Touched({Pin36}, NULL) /\ call' = call
      BY <2>5 DEF gpio_direction_output_36, io
    <3>3. OnlyPin(Pin36, pins, pins') BY <3>1, <3>2, PinOps
    <3>4. Beyond({Pin36}) BY <3>3 DEF OnlyPin, Beyond
    <3> QED BY <3>1, <3>2, <3>4, TouchKeeps
  <2>6. CASE \E p \in Pins : pin_config_set(p)
    <3>1. PICK p \in Pins : pin_config_set(p) BY <2>6
    <3>2. Touched({p}, NULL) /\ call' = call BY <3>1 DEF pin_config_set, io
    <3>3. OnlyPin(p, pins, pins') BY <3>1, ConfiguredPin DEF DataTyped
    <3>4. Beyond({p}) BY <3>3 DEF OnlyPin, Beyond
    <3> QED BY <3>2, <3>4, TouchKeeps
  <2> QED BY <1>4, <2>1, <2>2, <2>3, <2>4, <2>5, <2>6 DEF Load
<1>5. CASE Unload(d)
  <2>1. CASE \/ misc_deregister(d) \/ sysfs_remove_group(d) \/ exit_returns(d)
             \/ cci_dev_exit_helper \/ input_free_device
    BY <1>2, <2>1 DEF misc_deregister, sysfs_remove_group, exit_returns, cci_dev_exit_helper,
                      Freed, input_free_device
  <2>2. CASE feedback_gpio_free
    <3>1. static.feedback_port \in Pins BY DEF DataTyped, Statics
    <3>2. Beyond({}) BY <2>2, <3>1, FreePin DEF feedback_gpio_free, DataTyped, Beyond
    <3> QED BY <1>1, <2>2, <3>2 DEF feedback_gpio_free
  <2> QED BY <1>5, <2>1, <2>2 DEF Unload
<1> QED BY <1>3, <1>4, <1>5 DEF Moves, ModuleStep

LEMMA OtherPins ==
  ASSUME Writing, PinAsWritten, DataTyped, DataTyped', OtherStep
  PROVE  Writing' /\ PinAsWritten'
<1>1. UNCHANGED <<pins, wrote, alone>>
  BY DEF OtherStep, sensor_probe, sensor_remove, Freed, led_timer_func, use_after_free, gpio
<1>2. call' = call \/ call' = StaleCalls
  BY DEF OtherStep, sensor_probe, sensor_remove, Freed, led_timer_func, use_after_free, io,
         StaleCalls
<1>3. CallsGoOn BY <1>2 DEF CallsGoOn, StaleCalls, InCall
<1>4. Beyond({}) BY <1>1 DEF Beyond
<1> QED BY <1>1, <1>3, <1>4, Untouched

LEMMA BeginPins ==
  ASSUME Writing, PinAsWritten, DataTyped, DataTyped', NEW t \in Tasks, Begin(t)
  PROVE  Writing' /\ PinAsWritten'
<1> USE DEF CanCall
<1>1. ASSUME UNCHANGED gpio,
             \/ call' = call
             \/ \E c \in Calls : /\ c.op \notin {"read", "write"}
                                 /\ call' = [call EXCEPT ![t] = c]
             \/ call' = [call EXCEPT ![t] = NULL]
      PROVE  Writing' /\ PinAsWritten'
  <2>1. CallsGoOn BY <1>1 DEF CallsGoOn, InCall, DataTyped
  <2>2. Beyond({}) BY <1>1 DEF Beyond, gpio
  <2> QED BY <1>1, <2>1, <2>2, Untouched DEF gpio
<1>2. CASE (\E d \in board.active : misc_open(t, d)) \/ close(t)
  BY <1>1, <1>2 DEF misc_open, close
<1>3. CASE \E d \in board.active : sysfs_get_active(t, d)
  <2>1. PICK d \in Drivers : sysfs_get_active(t, d) BY <1>3, BoardTypes DEF DataTyped
  <2>2. PICK a \in Attributes(d), n \in Numbers :
          call' = [call EXCEPT ![t] = [op |-> "store", dev |-> d, attr |-> a, n |-> n]]
    BY <2>1 DEF sysfs_get_active
  <2>3. n \in Nat /\ a \in {"bright", "func", "ctl"} BY MiscAssumption DEF Attributes
  <2>4. [op |-> "store", dev |-> d, attr |-> a, n |-> n] \in Calls BY <2>3 DEF Calls
  <2> QED BY <1>1, <2>1, <2>2, <2>4 DEF sysfs_get_active
<1>4. CASE matata_exposure_write(t)
  <2>1. UNCHANGED gpio BY <1>4 DEF matata_exposure_write
  <2>2. [op |-> IF static.glb_sd = "sensor" THEN "exp" ELSE "stale"] \in Calls BY DEF Calls
  <2> QED BY <1>1, <1>4, <2>1, <2>2 DEF matata_exposure_write, Die
<1>5. CASE PortCalls(t)
  <2>1. PortBeyond(t) BY <1>5, PortWrites
  <2>2. CASE \E p \in Pins, h \in BOOLEAN : SetPort(p, h) BY <2>2, SetPortKeeps
  <2>3. CASE (Die(t) \/ call' = call) /\ UNCHANGED gpio BY <1>1, <2>3 DEF Die
  <2> QED BY <2>1, <2>2, <2>3 DEF PortBeyond, io
<1>7. CASE gpio_read(t) \/ gpio_write(t)
  <2>1. PICK o \in {"read", "write"}, p \in Named, sep \in Separators, h \in BOOLEAN :
          call' = [call EXCEPT ![t] = [op |-> o, asked |-> p, pin |-> Found(p, sep),
                                       high |-> h, at |-> "direction"]]
    BY <1>7 DEF gpio_read, gpio_write
  <2>2. /\ call'[t].at = "direction" /\ call'[t].pin = Found(p, sep) /\ call'[t].asked = p
        /\ \A u \in Tasks \ {t} : call'[u] = call[u]
    BY <2>1 DEF DataTyped
  <2>3. Found(p, sep) \in {NULL, p} BY DEF Found
  <2>4. CallsGoOn BY <2>2, <2>3 DEF CallsGoOn, InCall
  <2>5. UNCHANGED <<pins, wrote>> /\ alone' \subseteq alone \union {t}
    BY <1>7 DEF gpio_read, gpio_write, gpio
  <2>6. Beyond({}) BY <2>5 DEF Beyond
  <2> QED BY <2>2, <2>4, <2>5, <2>6, Untouched
<1> QED BY <1>2, <1>3, <1>4, <1>5, <1>7 DEF Begin, PortCalls

(* The direction of a pin is set for a read or a write under way.          *)
LEMMA DirectionPins ==
  ASSUME Writing, PinAsWritten, DataTyped, DataTyped', NEW t \in Tasks, gpio_direction(t)
  PROVE  Writing' /\ PinAsWritten'
<1> DEFINE c == call[t]
<1>1. c \in Calls /\ c.op \in {"read", "write"} /\ InCall(t, {"read", "write"})
  BY DEF gpio_direction, InGpio, InCall, DataTyped
<1>2. c.asked \in Named /\ c.pin \in Pins \union {NULL} /\ c.high \in BOOLEAN BY <1>1, CallTypes
<1>3. c.pin \in {NULL, c.asked} BY <1>1 DEF Writing
<1>4. call' = [call EXCEPT ![t] = [c EXCEPT !.at = "value"]] BY DEF gpio_direction
<1>5. /\ call'[t].op = c.op /\ call'[t].pin = c.pin /\ call'[t].asked = c.asked
      /\ \A u \in Tasks \ {t} : call'[u] = call[u]
  <2>1. c \in [op : {"read", "write"}, asked : Named, pin : Pins \union {NULL},
               high : BOOLEAN, at : {"direction", "value"}]
    BY <1>1 DEF Calls
  <2> QED BY <1>4, <2>1 DEF DataTyped
<1> HIDE DEF c
<1>6. \A u \in Tasks : InCall(u, {"read", "write"})' => call'[u].pin \in {NULL, call'[u].asked}
  BY <1>3, <1>5 DEF Writing, InCall
<1>7. CASE UNCHANGED gpio /\ c.pin = NULL
  <2>1. PinAsWritten' BY <1>7 DEF PinAsWritten, Drives, gpio
  <2>2. ASSUME NEW u \in Tasks, u \in alone', InCall(u, {"write"})', call'[u].at = "value",
               call'[u].pin # NULL
        PROVE  pins'[call'[u].pin].func = "out"
    <3>1. u # t BY <1>5, <1>7, <2>2
    <3>2. call'[u] = call[u] /\ u \in alone /\ pins' = pins BY <1>5, <1>7, <2>2, <3>1 DEF gpio
    <3> QED BY <2>2, <3>2 DEF Writing, InCall
  <2> QED BY <1>6, <2>1, <2>2 DEF Writing
<1>8. CASE /\ c.pin # NULL
           /\ pins' = IF c.op = "read" THEN Input(pins, c.pin) ELSE Output(pins, c.pin, c.high)
           /\ Touched({c.pin}, t)
  <2>1. c.pin \in Pins /\ pins \in [Pins -> PinStates] BY <1>2, <1>8 DEF DataTyped
  <2>2. OnlyPin(c.pin, pins, pins') /\ (c.op # "read" => pins'[c.pin].func = "out")
    BY <1>2, <1>8, <2>1, PinOps
  <2>3. PinAsWritten' BY <1>8, <2>2 DEF PinAsWritten, Drives, Touched, OnlyPin
  <2>4. ASSUME NEW u \in Tasks, u \in alone', InCall(u, {"write"})', call'[u].at = "value",
               call'[u].pin # NULL
        PROVE  pins'[call'[u].pin].func = "out"
    <3>1. CASE u = t
      <4>1. c.op = "write" BY <1>5, <2>4, <3>1 DEF InCall
      <4> QED BY <1>5, <2>2, <3>1, <4>1
    <3>2. CASE u # t
      <4>1. call'[u] = call[u] /\ InCall(u, {"write"}) /\ InCall(u, {"read", "write"})
        BY <1>5, <2>4, <3>2 DEF InCall
      <4>2. u \in alone /\ ~Aims(u, {c.pin}) BY <1>8, <2>4, <3>2 DEF Touched
      <4>3. call[u].pin = call[u].asked BY <2>4, <4>1 DEF Writing
      <4>4. call[u].pin # c.pin BY <4>1, <4>2, <4>3 DEF Aims
      <4>5. call[u].pin \in Pins BY <2>4, <4>1, CallTypes DEF InCall, DataTyped
      <4>6. pins[call[u].pin].func = "out" BY <2>4, <4>1, <4>2 DEF Writing
      <4> QED BY <2>2, <4>1, <4>4, <4>5, <4>6 DEF OnlyPin
    <3> QED BY <3>1, <3>2
  <2> QED BY <1>6, <2>3, <2>4 DEF Writing
<1> QED BY <1>7, <1>8 DEF gpio_direction, c

(* Its value is set, by a writer that has kept the pin to itself or not.   *)
LEMMA ValuePins ==
  ASSUME Writing, PinAsWritten, DataTyped, DataTyped', NEW t \in Tasks, gpio_value(t)
  PROVE  Writing' /\ PinAsWritten'
<1> DEFINE c == call[t]
<1>1. c \in Calls /\ c.op \in {"read", "write"} /\ InCall(t, {"read", "write"}) /\ c.at = "value"
  BY DEF gpio_value, InGpio, InCall, DataTyped
<1>2. c.pin \in Pins \union {NULL} /\ c.high \in BOOLEAN BY <1>1, CallTypes
<1>3. call' = [call EXCEPT ![t] = NULL] BY DEF gpio_value, Die
<1>4. CallsGoOn BY <1>3 DEF CallsGoOn, InCall, DataTyped
<1>5. CASE alone' = alone \ {t} /\ UNCHANGED <<pins, wrote>>
  <2>1. Beyond({}) BY <1>5 DEF Beyond
  <2> QED BY <1>4, <1>5, <2>1, Untouched
<1>6. CASE /\ c.pin # NULL /\ c.op = "write" /\ pins' = Value(pins, c.pin, c.high)
           /\ Wrote(t, c.pin, c.high)
  <2>1. c.pin \in Pins /\ pins \in [Pins -> PinStates] BY <1>2, <1>6 DEF DataTyped
  <2>2. /\ OnlyPin(c.pin, pins, pins') /\ pins'[c.pin].func = pins[c.pin].func
        /\ pins'[c.pin].high = c.high
    BY <1>2, <1>6, <2>1, PinOps
  <2>3. t \in alone => pins[c.pin].func = "out"
    BY <1>1, <1>6 DEF Writing, InCall
  <2>4. /\ wrote'[c.pin] = IF t \in alone THEN c.high ELSE NULL
        /\ \A q \in Pins \ {c.pin} : wrote'[q] = wrote[q]
        /\ alone' \subseteq alone
    BY <1>6, <2>1 DEF Wrote, DataTyped
  <2>5. ASSUME NEW q \in Pins, wrote'[q] # NULL
        PROVE  pins'[q].func = "out" /\ pins'[q].high = wrote'[q]
    <3>1. CASE q = c.pin
      <4>1. t \in alone /\ wrote'[q] = c.high BY <2>4, <2>5, <3>1
      <4>2. pins'[q].func = "out" BY <2>2, <2>3, <3>1, <4>1
      <4> QED BY <2>2, <3>1, <4>1, <4>2
    <3>2. CASE q # c.pin
      <4>1. wrote'[q] = wrote[q] /\ pins'[q] = pins[q] BY <2>2, <2>4, <3>2 DEF OnlyPin
      <4> QED BY <2>5, <4>1 DEF PinAsWritten, Drives
    <3> QED BY <3>1, <3>2
  <2>6. \A q \in Pins : pins'[q].func = pins[q].func BY <2>2 DEF OnlyPin
  <2>7. ASSUME NEW u \in Tasks, u \in alone', InCall(u, {"write"})', call'[u].at = "value",
               call'[u].pin # NULL
        PROVE  pins'[call'[u].pin].func = "out"
    <3>1. InCall(u, {"read", "write"})' BY <2>7 DEF InCall
    <3>2. call'[u] = call[u] /\ InCall(u, {"write"})
      BY <1>3, <2>7 DEF InCall, DataTyped
    <3>3. pins[call[u].pin].func = "out" BY <2>4, <2>7, <3>2 DEF Writing
    <3>4. call[u].pin \in Pins BY <2>7, <3>2, CallTypes DEF InCall, DataTyped
    <3> QED BY <2>6, <3>2, <3>3, <3>4
  <2>8. \A u \in Tasks : InCall(u, {"read", "write"})' => call'[u].pin \in {NULL, call'[u].asked}
    BY <1>3 DEF Writing, InCall, DataTyped
  <2> QED BY <2>5, <2>7, <2>8 DEF Writing, PinAsWritten, Drives
<1> QED BY <1>5, <1>6 DEF gpio_value

LEMMA ContinuePins ==
  ASSUME Writing, PinAsWritten, DataTyped, DataTyped', NEW t \in Tasks, Continue(t)
  PROVE  Writing' /\ PinAsWritten'
<1>1. CASE matata_exposure_return(t) \/ ctl_store(t) \/ pwm_store(t) \/ set_func(t)
  <2>1. call' = [call EXCEPT ![t] = NULL] /\ UNCHANGED <<pins, wrote, alone>>
    BY <1>1 DEF matata_exposure_return, ctl_store, pwm_store, set_func, InStore, Returned,
                DieHolding, Die, gpio
  <2>2. CallsGoOn BY <2>1 DEF CallsGoOn, InCall, DataTyped
  <2>3. Beyond({}) BY <2>1 DEF Beyond
  <2> QED BY <2>1, <2>2, <2>3, Untouched
<1> QED BY <1>1, DirectionPins, ValuePins DEF Continue

LEMMA PinInit == Init => Writing /\ PinAsWritten
<1> SUFFICES ASSUME Init PROVE Writing /\ PinAsWritten OBVIOUS
<1>1. \A t \in Tasks : \A O : ~InCall(t, O) BY DEF Init, InCall
<1>2. \A p \in Pins : wrote[p] = NULL BY DEF Init
<1> QED BY <1>1, <1>2 DEF Writing, PinAsWritten

LEMMA PinNext == LifeInv /\ LifeInv' /\ PinInv /\ [Next]_vars => PinInv'
<1> SUFFICES ASSUME LifeInv, LifeInv', PinInv, [Next]_vars PROVE PinInv' OBVIOUS
<1>0. /\ LifeTyped /\ DataTyped /\ Writing /\ PinAsWritten /\ TypeOK' /\ TypeOK /\ Running
  BY TypesSplit DEF LifeInv, PinInv
<1>1. DataTyped' BY <1>0 DEF TypeOK, DataTyped
<1>2. board.active \subseteq Drivers /\ board.tasks \subseteq Tasks
  BY <1>0, BoardTypes DEF DataTyped
<1>3. ASSUME NEW d \in Drivers, Moves(d) PROVE PinInv'
  <2>1. MoveData(d) BY <1>0, <1>3, MovesData
  <2> QED BY <1>0, <1>1, <1>3, <2>1, MovePins DEF PinInv
<1>4. ASSUME NEW t \in Tasks, TaskStep(t) PROVE PinInv'
  BY <1>0, <1>1, <1>4, BeginPins, ContinuePins DEF TaskStep, CallStep, PinInv
<1>5. CASE OtherStep BY <1>0, <1>1, <1>5, OtherPins DEF PinInv
<1>6. CASE UNCHANGED vars
  BY <1>0, <1>6 DEF PinInv, Writing, PinAsWritten, Drives, InCall, vars, io, gpio
<1> QED BY <1>2, <1>3, <1>4, <1>5, <1>6 DEF Next, Moves, TaskStep, OtherStep

(* A pin that was written through mygpio is an output at the level written *)
(* until some other call or init addresses it, with direction and value    *)
(* set in two steps and other tasks and modules between them               *)
(* (gpio.c:58-82).                                                         *)
THEOREM PinStaysAsWritten == Spec => []PinAsWritten
<1>1. Init => LifeInv /\ PinInv BY LifeInit, PinInit DEF LifeInv, PinInv
<1>2. LifeInv /\ PinInv /\ [Next]_vars => (LifeInv /\ PinInv)' BY LifeNext, PinNext
<1>3. PinInv => PinAsWritten BY DEF PinInv
<1> QED BY <1>1, <1>2, <1>3, PTL DEF Spec
=============================================================================
