----------------------------- MODULE MCMiscLife -----------------------------
(* Constant values for model-checking MiscLife.                             *)
EXTENDS MiscLife

CONSTANTS PA0, PB4, AXP0, t1, t2

Board(A, T, s) == [active |-> A, tasks |-> T, script |-> s]

(* One port more than there are keys.                                       *)
Eleven == [i \in 1 .. 11 |-> IF i % 2 = 1 THEN PB4 ELSE PA0]

(* Every module alone, with two tasks, or with one that shares pins or      *)
(* misc_list with it, and a task.                                           *)
MCBoards ==
  { Board({"exp"}, {t1, t2}, <<>>), Board({"exp", "misc_led"}, {t1}, <<>>),
    Board({"misc_led"}, {t1, t2}, <<>>), Board({"mis_pwm"}, {t1, t2}, <<>>),
    Board({"mygpio"}, {t1, t2}, <<>>),
    Board({"IRMotionDet", "mygpio"}, {t1}, <<>>), Board({"IRMotionDet", "mygpio"}, {t1}, <<PB4>>),
    Board({"myled", "mygpio"}, {t1}, <<PB4>>), Board({"myled"}, {t1}, Eleven),
    Board({"mypwm", "mygpio"}, {t1}, <<>>) }

JustGpio == { Board({"mygpio"}, {t1, t2}, <<>>) }
=============================================================================
