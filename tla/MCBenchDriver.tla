----------------------------- MODULE MCBenchDriver -----------------------------
(* BenchDriver for TLC: the pairs are model values, two workers, and a     *)
(* driver that is started up to three times.                               *)
EXTENDS BenchDriver

CONSTANTS p1, p2
===============================================================================
