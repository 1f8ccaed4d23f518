----------------------------- MODULE MCSunxiPwm -----------------------------
(* Constant values for model-checking SunxiPwm.                             *)
EXTENDS SunxiPwm, TLC

CONSTANTS p0, p1, p2

(* The prescaler codes 0, 3 and 12 of the table pre_scal, and the bypass.   *)
Slow == [code |-> {2, 3}, bypass |-> FALSE]
Fast == [code |-> {0, 1}, bypass |-> FALSE]
Direct == [code |-> {}, bypass |-> TRUE]

Cycles == {Slow, Fast}
FastAndDirect == {Fast, Direct}

OnePinEach == [ch \in Channels |-> IF ch = 0 THEN {p0} ELSE {p1}]

(* Two pins for channel 0.                                                  *)
SeveralPins == [ch \in Channels |-> IF ch = 0 THEN {p0, p2} ELSE {p1}]

Symmetric == Permutations({p0, p2})
=============================================================================
