----------------------------- MODULE CicloDeVida -----------------------------
(***************************************************************************)
(* What the scheduler of the kernel promises about its processes: the      *)
(* states of a process (estadosDeLosProcesos, protocolo.h 79-86) and the   *)
(* moves between them, with one process on the CPU at a time and no more   *)
(* processes admitted than the degree of multiprogramming. Kernel is       *)
(* checked to implement this.                                              *)
(***************************************************************************)
EXTENDS Integers, FiniteSets

CONSTANTS Procesos, GradosIniciales

VARIABLES fase, grado
varsCiclo == <<fase, grado>>

Fases == {"SIN_CREAR", "NEW", "READY", "EXEC", "BLOCKED", "EXIT", "LIBERANDO", "FIN"}
Admitidas == {"READY", "EXEC", "BLOCKED", "EXIT"}
Admitidos == {p \in Procesos : fase[p] \in Admitidas}

Init == fase = [p \in Procesos |-> "SIN_CREAR"] /\ grado \in GradosIniciales

Pasa(p, de, a) == fase[p] = de /\ fase' = [fase EXCEPT ![p] = a]

Crear(p) == Pasa(p, "SIN_CREAR", "NEW") /\ UNCHANGED grado
Admitir(p) == Cardinality(Admitidos) < grado /\ Pasa(p, "NEW", "READY") /\ UNCHANGED grado
Despachar(p) == /\ \A q \in Procesos : fase[q] # "EXEC"
                /\ Pasa(p, "READY", "EXEC") /\ UNCHANGED grado
Desalojar(p) == Pasa(p, "EXEC", "READY") /\ UNCHANGED grado
Bloquear(p) == Pasa(p, "EXEC", "BLOCKED") /\ UNCHANGED grado
Despertar(p) == Pasa(p, "BLOCKED", "READY") /\ UNCHANGED grado
Terminar(p) == (Pasa(p, "EXEC", "EXIT") \/ Pasa(p, "BLOCKED", "EXIT")) /\ UNCHANGED grado
Retirar(p) == Pasa(p, "EXIT", "LIBERANDO") /\ UNCHANGED grado
Liberar(p) == Pasa(p, "LIBERANDO", "FIN") /\ UNCHANGED grado

\* A slot is withdrawn only while it is free.
CambiarGrado ==
    /\ \/ grado' = grado + 1
       \/ Cardinality(Admitidos) < grado /\ grado' = grado - 1
    /\ UNCHANGED fase

Next == \/ \E p \in Procesos : \/ Crear(p) \/ Admitir(p) \/ Despachar(p) \/ Desalojar(p)
                               \/ Bloquear(p) \/ Despertar(p) \/ Terminar(p)
                               \/ Retirar(p) \/ Liberar(p)
        \/ CambiarGrado

Spec == Init /\ [][Next]_varsCiclo
=============================================================================
