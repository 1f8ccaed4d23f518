------------------------------ MODULE MCPwmCore ------------------------------
(* Constant values for model-checking PwmCore.                              *)
EXTENDS PwmCore, TLC

CONSTANTS c1, c2, m1, m2, k1, k2, devA, conX

(* A chip of two devices, as pwm-sunxi.c registers, and chips of one.       *)
MCNpwm == [c \in Chips |-> IF c = c1 THEN 2 ELSE 1]
AllOne == [c \in Chips |-> 1]

(* Chips of different devices, and the chips of successive probes of one.   *)
OwnNames == [c \in Chips |-> c]
OneName == [c \in Chips |-> c1]

OneModule == [c \in Chips |-> m1]
TwoModules == [c \in Chips |-> IF c = c1 THEN m1 ELSE m2]

DynamicBase == {-1}

(* Dynamic, at the start, in the middle, at the end, running over the end,  *)
(* and past it.                                                             *)
AllBases == {-1, 0, 1, MaxPwms - 1, MaxPwms}

Entry(dev, con, chip, i) ==
  [dev_id |-> dev, con_id |-> con, provider |-> chip, index |-> i]

(* Every kind of precision, two equals, an index out of range, a wildcard.  *)
FullTable ==
  << Entry(NULL, NULL, c2, 0), Entry(NULL, conX, c2, 0), Entry(devA, NULL, c1, 7),
     Entry(devA, NULL, c1, 0), Entry(devA, conX, c1, 1), Entry(NULL, conX, c1, 0) >>

TinyTable == << Entry(devA, NULL, c1, 0) >>

Symmetric == Permutations(Consumers)
=============================================================================
