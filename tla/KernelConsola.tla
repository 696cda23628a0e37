---------------------------- MODULE KernelConsola ----------------------------
(***************************************************************************)
(* The console of the kernel (kernel.c 88-191, 193-353): one thread that   *)
(* reads a command, or a line of a script, and runs it to the end.         *)
(* PROCESO_ESTADO only prints and is left out.                             *)
(***************************************************************************)
EXTENDS KernelEstado, SequencesExt

-----------------------------------------------------------------------------
(* INICIAR_PROCESO: crear_pcb, asignar_pid, iniciar_proceso.               *)

\* crear_pcb, then the lock and the request to the memory module.
IniciarProceso ==
    /\ "INICIAR_PROCESO" \in Comandos
    /\ generador_pid <= MaxProc
    /\ Paso("consola", "lee", "pide_memoria")
    /\ generador_pid' = generador_pid + 1
    /\ pcb' = [pcb EXCEPT ![libre] = [pid |-> generador_pid + 1, estado |-> "NEW", pleno |-> TRUE]]
    /\ libre \in Objs /\ libre' = libre + 1
    /\ Toma("consola", libre)
    /\ UNCHANGED <<segundo, plan, cola, sem, grado, cpu, quantum, memoria, recursos, io, consola>>

ConsolaPideMemoria ==
    /\ Paso("consola", "pide_memoria", "rta_memoria")
    /\ mutex_envio_memoria = "libre"
    /\ mutex_envio_memoria' = "consola" /\ rta_memoria' = "pedida"
    /\ UNCHANGED <<mano, segundo, plan, procesos, cola, sem, grado, cpu, quantum,
                   recursos, io, consola>>

ConsolaRecibeMemoria ==
    /\ Paso("consola", "rta_memoria", "a_new")
    /\ rta_memoria = "lista"
    /\ mutex_envio_memoria' = "libre" /\ rta_memoria' = "nada"
    /\ UNCHANGED <<mano, segundo, plan, procesos, cola, sem, grado, cpu, quantum,
                   recursos, io, consola>>

EncolaEnNew ==
    /\ Paso("consola", "a_new", "lee")
    /\ Empujar("new", mano["consola"]) /\ Post("procesos_new")
    /\ Toma("consola", Nulo)
    /\ UNCHANGED <<segundo, plan, procesos, grado, cpu, quantum, memoria, recursos, io, consola>>

-----------------------------------------------------------------------------
(* INICIAR_PLANIFICACION and DETENER_PLANIFICACION.                        *)

Ordena(c) == c \in Comandos /\ ordenes < MaxOrdenes /\ ordenes' = ordenes + 1

\* The scheduler threads are created the first time only.
IniciarPlanificacion ==
    /\ Ordena("INICIAR_PLANIFICACION")
    /\ vivo /\ vivo' = vivo /\ pc["consola"] = "lee"
    /\ debe_planificar' = TRUE /\ esta_planificando' = TRUE
    /\ pc' = IF esta_planificando THEN pc
             ELSE [pc EXCEPT !["largo"] = "espera_new", !["salida"] = "tope",
                             !["despachador"] = "tope", !["vuelta"] = "tope"]
    /\ UNCHANGED <<mano, segundo, procesos, cola, sem, grado, cpu, quantum, memoria, recursos,
                   io, orden, interrupciones>>

\* semaforos_destroy: sem_destroy of this C library leaves the value as it is.
DetenerPlanificacion ==
    /\ Ordena("DETENER_PLANIFICACION")
    /\ Paso("consola", "lee", "lee")
    /\ debe_planificar' = FALSE
    /\ UNCHANGED <<mano, segundo, esta_planificando, procesos, cola, sem, grado, cpu, quantum,
                   memoria, recursos, io, orden, interrupciones>>

-----------------------------------------------------------------------------
(* MULTIPROGRAMACION: the distance is always taken from the grade of the   *)
(* config, which the command does not update.                              *)

CambiarMultiprogramacion ==
    /\ Ordena("MULTIPROGRAMACION")
    /\ \E nuevo \in GradosNuevos :
         /\ Paso("consola", "lee", IF nuevo > GradoConfig THEN "sube" ELSE "baja")
         /\ orden' = [orden EXCEPT !.n = IF nuevo > GradoConfig THEN nuevo - GradoConfig
                                                                ELSE GradoConfig - nuevo]
    /\ UNCHANGED <<mano, segundo, plan, procesos, cola, sem, grado, cpu, quantum, memoria,
                   recursos, io, interrupciones>>

SubeGrado ==
    /\ orden.n > 0
    /\ Paso("consola", "sube", "sube")
    /\ Post("multiprogramacion") /\ grado' = grado + 1
    /\ orden' = [orden EXCEPT !.n = @ - 1]
    /\ UNCHANGED <<mano, segundo, plan, procesos, cola, cpu, quantum, memoria, recursos, io,
                   ordenes, interrupciones>>

\* The console waits here for as long as every slot is taken.
BajaGrado ==
    /\ orden.n > 0
    /\ Paso("consola", "baja", "baja")
    /\ Wait("multiprogramacion") /\ grado' = grado - 1
    /\ orden' = [orden EXCEPT !.n = @ - 1]
    /\ UNCHANGED <<mano, segundo, plan, procesos, cola, cpu, quantum, memoria, recursos, io,
                   ordenes, interrupciones>>

TerminaGrado ==
    /\ orden.n = 0
    /\ \/ Paso("consola", "sube", "lee")
       \/ Paso("consola", "baja", "lee")
    /\ UNCHANGED <<mano, segundo, plan, procesos, cola, sem, grado, cpu, quantum, memoria,
                   recursos, io, consola>>
-----------------------------------------------------------------------------
(* FINALIZAR_PROCESO: finalizar_proceso, buscar_proceso_para_finalizar.    *)

ColasBuscadas == <<"new", "ready", "ready_aux", "exec", "block">>

FinalizarProceso ==
    /\ Ordena("FINALIZAR_PROCESO")
    /\ Paso("consola", "lee", "busca")
    /\ \E p \in Pids : orden' = [orden EXCEPT !.pid = p, !.k = 1]
    /\ UNCHANGED <<mano, segundo, plan, procesos, cola, sem, grado, cpu, quantum, memoria,
                   recursos, io, interrupciones>>

\* buscar_posicion_proceso of the k-th list, read without its mutex.
Posiciones(q, p) == {n \in DOMAIN cola[q] : pcb[cola[q][n]].pid = p}

BuscaEncuentra ==
    /\ Paso("consola", "busca", "quita")
    /\ orden.k <= Len(ColasBuscadas)
    /\ \E n \in Posiciones(ColasBuscadas[orden.k], orden.pid) :
         /\ \A m \in Posiciones(ColasBuscadas[orden.k], orden.pid) : n <= m
         /\ orden' = [orden EXCEPT !.pos = n]
    /\ UNCHANGED <<mano, segundo, plan, procesos, cola, sem, grado, cpu, quantum, memoria,
                   recursos, io, ordenes, interrupciones>>

BuscaSigue ==
    /\ Paso("consola", "busca", "busca")
    /\ orden.k <= Len(ColasBuscadas)
    /\ Posiciones(ColasBuscadas[orden.k], orden.pid) = {}
    /\ orden' = [orden EXCEPT !.k = @ + 1]
    /\ UNCHANGED <<mano, segundo, plan, procesos, cola, sem, grado, cpu, quantum, memoria,
                   recursos, io, ordenes, interrupciones>>

\* remove_con_mutex at the position found before: the list may have moved since.
\* NULL out of range; mutex_lista_exec may never be free again.
Quita ==
    LET q == ColasBuscadas[orden.k] IN
    /\ Paso("consola", "quita", "decide")
    /\ orden.pos <= Len(cola[q])
    /\ q = "exec" => mutex_exec = "libre"
    /\ Toma("consola", cola[q][orden.pos])
    /\ cola' = [cola EXCEPT ![q] = RemoveAt(@, orden.pos)]
    /\ orden' = SinOrden
    /\ UNCHANGED <<segundo, plan, procesos, sem, grado, cpu, quantum, memoria, recursos, io,
                   ordenes, interrupciones>>

QuitaFueraDeRango ==
    LET q == ColasBuscadas[orden.k] IN
    /\ pc["consola"] = "quita" /\ orden.pos > Len(cola[q])
    /\ q = "exec" => mutex_exec = "libre"
    /\ Cae

\* Not found: pcbEncontrado was never assigned, so finalizar_proceso goes on with
\* whatever pointer is there, one to a PCB or one that faults.
NoHalladoSigue ==
    /\ orden.k > Len(ColasBuscadas)
    /\ Paso("consola", "busca", "decide")
    /\ \E o \in 1..(libre - 1) : Toma("consola", o)
    /\ orden' = SinOrden
    /\ UNCHANGED <<segundo, plan, procesos, cola, sem, grado, cpu, quantum, memoria, recursos,
                   io, ordenes, interrupciones>>

NoHalladoFalla ==
    /\ pc["consola"] = "busca" /\ orden.k > Len(ColasBuscadas)
    /\ Cae

\* A process recorded as running is left to the CPU, out of every queue.
InterrumpePorConsola ==
    /\ Paso("consola", "decide", "lee")
    /\ pcb[mano["consola"]].estado = "EXEC"
    /\ interrupciones' = interrupciones + 1
    /\ Toma("consola", Nulo)
    /\ UNCHANGED <<segundo, plan, procesos, cola, sem, grado, cpu, quantum, memoria, recursos,
                   io, orden, ordenes>>

DecideSacar ==
    /\ Paso("consola", "decide", "a_exit")
    /\ pcb[mano["consola"]].estado # "EXEC"
    /\ UNCHANGED <<mano, segundo, plan, procesos, cola, sem, grado, cpu, quantum, memoria,
                   recursos, io, consola>>

FinalizaAExit ==
    /\ Paso("consola", "a_exit", "lee")
    /\ CambiarEstado(mano["consola"], "EXIT")
    /\ Empujar("exit", mano["consola"]) /\ Post("procesos_exit")
    /\ Toma("consola", Nulo)
    /\ UNCHANGED <<segundo, plan, generador_pid, libre, grado, cpu, quantum, memoria, recursos,
                   io, consola>>

-----------------------------------------------------------------------------
Consola == \/ IniciarProceso \/ ConsolaPideMemoria \/ ConsolaRecibeMemoria \/ EncolaEnNew
           \/ IniciarPlanificacion \/ DetenerPlanificacion
           \/ CambiarMultiprogramacion \/ SubeGrado \/ BajaGrado \/ TerminaGrado
           \/ FinalizarProceso \/ BuscaEncuentra \/ BuscaSigue \/ Quita \/ QuitaFueraDeRango
           \/ NoHalladoSigue \/ NoHalladoFalla
           \/ InterrumpePorConsola \/ DecideSacar \/ FinalizaAExit
=============================================================================
