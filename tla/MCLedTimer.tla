----------------------------- MODULE MCLedTimer -----------------------------
(* Constant values for model-checking LedTimer.                             *)
EXTENDS LedTimer

Cmd(l, m, v) == [led |-> l, mode |-> m, value |-> v]

(* Every mode for LED 0, fades from near their ends.                        *)
Single ==
  { Cmd(0, 0, 0), Cmd(0, 1, 60), Cmd(0, 2, 0), Cmd(0, 3, 0), Cmd(0, 4, 0), Cmd(0, 5, 0),
    Cmd(0, 6, 40), Cmd(0, 7, 2), Cmd(0, 8, 98), Cmd(0, 9, 2), Cmd(0, 10, 0) }

(* Modes that need a second command: a fade back, a faster blink, another  *)
(* pattern, a toggle, numbers no mode was made for,                        *)
(* and commands for LED 1 that move the range the breath of LED 0 shares.   *)
EveryMode ==
  {<<c>> : c \in Single} \union
  { <<Cmd(0, 7, 2), Cmd(0, 8, 98)>>, <<Cmd(0, 9, 3), Cmd(0, 9, 1)>>,
    <<Cmd(0, 6, 40), Cmd(0, 5, 0)>>, <<Cmd(0, 5, 0), Cmd(0, 5, 0)>>,
    <<Cmd(0, 10, 0), Cmd(0, 2, 0)>>,
    <<Cmd(0, 9, -1)>>, <<Cmd(0, 11, 70000), Cmd(0, 9, 5)>>,
    <<Cmd(0, 1, 120), Cmd(1, 1, 50)>>, <<Cmd(0, 1, 50), Cmd(1, 4, 0)>> }

Fades == { <<Cmd(0, 8, 5)>> }
=============================================================================
