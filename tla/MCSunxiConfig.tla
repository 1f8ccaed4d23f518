---------------------------- MODULE MCSunxiConfig ----------------------------
(* Periods for model-checking SunxiConfig: the neighbours of every constant *)
(* that the code compares with, and values between them.                    *)
EXTENDS SunxiConfig

(* Where the product stays within 32 bits: up to 423 microseconds, and from *)
(* 500 microseconds, where duty and period are scaled down, to 858 ms.      *)
SafePeriods ==
  << 42, 43, 100, 5000, 10666, 10667, 10668, 20000, 50000, 100000, 193747, 250000,
     333333, 400000, 423011, 500000, 500001, 750000, 1000000, 2730000, 2731000, 5000000,
     6553499, 6553500, 6553501, 10000000, 16666667, 20000000, 33000000, 100000000,
     250000000, 333333333, 400000000, 500000000, 500000001, 858989999 >>

(* Around and between them, and beyond, where the product does not fit.     *)
FullDutyPeriods == << 400000, 423011, 450000, 499999, 500000, 858989999, 1000000000 >>
=============================================================================
