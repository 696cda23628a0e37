--------------------------- MODULE KernelRecursos ---------------------------
(***************************************************************************)
(* WAIT and SIGNAL in the thread that attends the CPU (kernel.c 588-601,   *)
(* 737-816). buscar_recurso compares each resource with itself: it answers *)
(* the first resource whatever name is asked for, or id -1 when the config *)
(* has none. The count of instances is read and written with no mutex,     *)
(* here and in liberar_recursos. agregar_recurso and quitar_recurso find   *)
(* no resource of that name in the PCB and change nothing.                 *)
(***************************************************************************)
EXTENDS KernelEstado

Pide(motivo, a) == ret.motivo = motivo /\ Paso("vuelta", "atiende", a)

\* Posts sem_despachar in manejar_wait or manejar_signal and once more at 712.
RecursoInvalido ==
    /\ Recursos = 0
    /\ Pide("SOLICITAR_WAIT", "tope") \/ Pide("SOLICITAR_SIGNAL", "tope")
    /\ CambiarEstado(mano["vuelta"], "EXIT") /\ Empujar("exit", mano["vuelta"])
    /\ sem' = [sem EXCEPT !["procesos_exit"] = @ + 1, !["despachar"] = @ + 2]
    /\ SueltaVuelta
    /\ UNCHANGED <<segundo, plan, generador_pid, libre, grado, a_cpu, de_cpu, vueltas, quantum, memoria, recursos,
                   io, consola>>

LeeInstancias ==
    /\ Recursos > 0
    /\ Pide("SOLICITAR_WAIT", "decrementa") \/ Pide("SOLICITAR_SIGNAL", "incrementa")
    /\ leido' = [leido EXCEPT !["vuelta"] = instancias]
    /\ UNCHANGED <<mano, segundo, plan, procesos, cola, sem, grado, cpu, quantum, memoria,
                   indice, instancias, io, consola>>

EscribeInstancias ==
    /\ \/ Paso("vuelta", "decrementa", "decide_wait") /\ instancias' = leido["vuelta"] - 1
       \/ Paso("vuelta", "incrementa", "decide_signal") /\ instancias' = leido["vuelta"] + 1
    /\ leido' = [leido EXCEPT !["vuelta"] = 0]
    /\ UNCHANGED <<mano, segundo, plan, procesos, cola, sem, grado, cpu, quantum, memoria,
                   indice, io, consola>>

DecideRecurso ==
    /\ \/ Paso("vuelta", "decide_wait", IF instancias < 0 THEN "a_recurso" ELSE "reanuda")
       \/ Paso("vuelta", "decide_signal", IF instancias <= 0 THEN "saca_recurso" ELSE "reanuda")
    /\ UNCHANGED <<mano, segundo, plan, procesos, cola, sem, grado, cpu, quantum, memoria,
                   recursos, io, consola>>

-----------------------------------------------------------------------------
(* The process waits.                                                      *)

EncolaEnRecurso ==
    /\ Paso("vuelta", "a_recurso", "a_block_recurso")
    /\ CambiarEstado(mano["vuelta"], "BLOCKED") /\ Empujar("recurso", mano["vuelta"])
    /\ UNCHANGED <<mano, segundo, plan, generador_pid, libre, sem, grado, cpu, quantum, memoria,
                   recursos, io, consola>>

\* The sem_post of 753 and the one of 712.
BloqueaPorRecurso ==
    /\ Paso("vuelta", "a_block_recurso", "tope")
    /\ Empujar("block", mano["vuelta"])
    /\ sem' = [sem EXCEPT !["despachar"] = @ + 2]
    /\ SueltaVuelta
    /\ UNCHANGED <<segundo, plan, procesos, grado, a_cpu, de_cpu, vueltas, quantum, memoria, recursos, io, consola>>

-----------------------------------------------------------------------------
(* SIGNAL wakes the first one that waits.                                  *)

\* Mutant of SacaDeRecurso: list_get instead of list_remove.
SacaDeRecursoSinQuitar ==
    /\ cola["recurso"] # <<>>
    /\ Paso("vuelta", "saca_recurso", "desbloquea")
    /\ segundo' = [segundo EXCEPT !["vuelta"] = Head(cola["recurso"])]
    /\ UNCHANGED <<mano, plan, procesos, cola, sem, grado, cpu, quantum, memoria, recursos, io, consola>>

SacaDeRecurso ==
    /\ cola["recurso"] # <<>>
    /\ Paso("vuelta", "saca_recurso", "desbloquea")
    /\ segundo' = [segundo EXCEPT !["vuelta"] = Head(cola["recurso"])] /\ Sacar("recurso")
    /\ UNCHANGED <<mano, plan, procesos, sem, grado, cpu, quantum, memoria, recursos, io, consola>>

RecursoVacio ==
    /\ pc["vuelta"] = "saca_recurso" /\ cola["recurso"] = <<>>
    /\ Cae

Desbloquea ==
    /\ Paso("vuelta", "desbloquea", "reanuda")
    /\ \E v \in Vuelve("RECURSOVT", segundo["vuelta"]) :
         /\ CambiarEstado(segundo["vuelta"], v.estado)
         /\ Empujar(v.cola, segundo["vuelta"])
    /\ Post("procesos_ready")
    /\ segundo' = [segundo EXCEPT !["vuelta"] = Nulo]
    /\ UNCHANGED <<mano, plan, generador_pid, libre, grado, cpu, quantum, memoria, recursos,
                   io, consola>>

DesbloqueaLeeSinAsignar ==
    /\ pc["vuelta"] = "desbloquea" /\ LeeSinAsignar("RECURSOVT")
    /\ Cae

-----------------------------------------------------------------------------
(* The process goes on: the PCB goes back to the CPU, and 712 still lets   *)
(* the dispatcher send another one.                                        *)

VuelveAExec ==
    /\ Paso("vuelta", "reanuda", "reenvia")
    /\ mutex_exec = "libre"
    /\ Empujar("exec", mano["vuelta"])
    /\ UNCHANGED <<mano, segundo, plan, procesos, sem, grado, cpu, quantum, memoria, recursos,
                   io, consola>>

Reenvia ==
    /\ Paso("vuelta", "reenvia", "tope")
    /\ EnviarPCB(mano["vuelta"])
    /\ Post("despachar")
    /\ SueltaVuelta
    /\ UNCHANGED <<segundo, plan, generador_pid, cola, grado, de_cpu, vueltas, quantum,
                   memoria, recursos, io, consola>>

-----------------------------------------------------------------------------
VueltaRecurso == \/ RecursoInvalido \/ LeeInstancias \/ EscribeInstancias \/ DecideRecurso
                 \/ EncolaEnRecurso \/ BloqueaPorRecurso
                 \/ SacaDeRecurso \/ RecursoVacio \/ Desbloquea \/ DesbloqueaLeeSinAsignar
                 \/ VuelveAExec \/ Reenvia
=============================================================================
