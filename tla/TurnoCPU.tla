------------------------------ MODULE TurnoCPU ------------------------------
(***************************************************************************)
(* What the kernel counts on from the CPU (kernel.c 877-893, 560-566): the *)
(* CPU takes one process at a time and gives each back once before it      *)
(* takes another. "fuera" is a CPU that no longer keeps its side: it fell, *)
(* or ran an instruction whose code loses or repeats the turn.             *)
(***************************************************************************)
EXTENDS Naturals

VARIABLES
    turno,      \* "libre", "ocupada" or "fuera"
    devueltos   \* processes given back so far

Init == turno = "libre" /\ devueltos = 0

Toma == turno = "libre" /\ turno' = "ocupada" /\ UNCHANGED devueltos
Devuelve == turno = "ocupada" /\ turno' = "libre" /\ devueltos' = devueltos + 1
Falla == turno' = "fuera"

Next == Toma \/ Devuelve \/ Falla

Spec == Init /\ [][Next]_<<turno, devueltos>>
=============================================================================
