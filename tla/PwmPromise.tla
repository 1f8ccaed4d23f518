----------------------------- MODULE PwmPromise -----------------------------
(***************************************************************************)
(* What the generic PWM framework (src/module/pwm/core.c) promises to its  *)
(* clients, with none of its data structures: a PWM device is granted only *)
(* while its chip is registered, to one holder at a time, and a chip whose *)
(* devices are granted does not go away.                                   *)
(***************************************************************************)

CONSTANTS
  Chips,       \* the PWM controllers
  Pwm,         \* the PWM devices, pairs <<chip, index>>
  Consumers    \* the drivers that request PWM devices

VARIABLES
  present,     \* the chips that are registered
  held         \* held[k] is the set of PWM devices granted to consumer k

vars == <<present, held>>

Free(p) == \A k \in Consumers : p \notin held[k]

PromiseTypeOK ==
  /\ present \subseteq Chips
  /\ held \in [Consumers -> SUBSET Pwm]

Init ==
  /\ present = {}
  /\ held = [k \in Consumers |-> {}]

Register(c) ==
  /\ c \notin present
  /\ present' = present \union {c}
  /\ UNCHANGED held

Unregister(c) ==
  /\ c \in present
  /\ \A p \in Pwm : p[1] = c => Free(p)
  /\ present' = present \ {c}
  /\ UNCHANGED held

Acquire(k, p) ==
  /\ p[1] \in present
  /\ Free(p)
  /\ held' = [held EXCEPT ![k] = @ \union {p}]
  /\ UNCHANGED present

Release(k, p) ==
  /\ p \in held[k]
  /\ held' = [held EXCEPT ![k] = @ \ {p}]
  /\ UNCHANGED present

Next ==
  \/ \E c \in Chips : Register(c) \/ Unregister(c)
  \/ \E k \in Consumers, p \in Pwm : Acquire(k, p) \/ Release(k, p)

Spec == Init /\ [][Next]_vars
=============================================================================
