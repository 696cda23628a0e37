----------------------------- MODULE MCAcceso -----------------------------
(***************************************************************************)
(* Values for the constants of Acceso in its TLC runs.                     *)
(***************************************************************************)
EXTENDS Acceso, FiniteSets, TLC

CONSTANTS p1, p2, m1, m2, teclado, pantalla     \* model values

UnaDeCada == (teclado :> "STDIN" @@ pantalla :> "STDOUT")

\* Bounds: the interfaces connect before the first process executes.
ConectanPrimero ==
    \A i \in Interfaces :
       pc_k[i] \in {"pregunta_nombre", "espera_nombre", "pregunta_tipo", "espera_tipo"}
         => \A p \in Pids : estado[p] = "READY"

\* The planning is not stopped in the middle of a MOV or once an interface has closed.
ParaAntes == debe_planificar \/ (mov = <<>> /\ \A i \in Interfaces : pc_io[i] # "fin")

\* Nothing is done after a program has died, at most one process has its frames in doubt,
\* and at most two ends wait.
Cotas ==
    /\ ConectanPrimero /\ ParaAntes
    /\ vivo /\ Cardinality(dudosos) <= 1 /\ Len(cola_exit) <= 2

\* A frame is only compared with frames, in no property of the liveness of a request.
Simetria == Permutations(Marcos)
=============================================================================
