------------------------------- MODULE MCCpu -------------------------------
(* Instances of the CPU for TLC: each cfg says which peers it has.          *)
EXTENDS Cpu
=============================================================================
