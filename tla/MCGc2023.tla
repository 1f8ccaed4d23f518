------------------------------ MODULE MCGc2023 ------------------------------
(* Constant values for model-checking Gc2023.                               *)
EXTENDS Gc2023

CONSTANTS v4l2, writer

(* One that fills both registers, one above the largest, and one that is    *)
(* negative, which sensor_s_exp takes for a large one.                      *)
MCExps == {17938, 2000000, -1}

(* Below the smallest, below a step of the analog gain, above the largest.  *)
MCGains == {-8, 31, 5000}
=============================================================================
