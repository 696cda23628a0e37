----------------------------- MODULE MCMemoria -----------------------------
(***************************************************************************)
(* Values for the constants of Memoria in its TLC runs.                    *)
(***************************************************************************)
EXTENDS Memoria, TLC

CONSTANTS p1, p2, p3   \* model values
=============================================================================
