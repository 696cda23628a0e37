-------------------------- MODULE KernelLargoPlazo --------------------------
(***************************************************************************)
(* Long-term scheduler of the kernel (kernel.c 396-445, 496-513): the      *)
(* thread that admits processes from NEW and the thread that buries the    *)
(* processes of EXIT, with the memory module's side of the requests.       *)
(***************************************************************************)
EXTENDS KernelEstado

-----------------------------------------------------------------------------
(* planificacion_procesos_ready: it never looks at debe_planificar.        *)

TomaDeNew ==
    /\ Paso("largo", "espera_new", "espera_multi")
    /\ Wait("procesos_new")
    /\ Toma("largo", Primero(cola["new"])) /\ Sacar("new")
    /\ UNCHANGED <<segundo, plan, procesos, grado, cpu, quantum, memoria, recursos, io, consola>>

\* proceso_a_ready under mutex_lista_ready; logger_cola_ready reads every PCB.
\* Mutant of EncolaEnReady: no sem_wait(&sem_multiprogramacion).
EncolaSinCupo ==
    /\ mano["largo"] # Nulo
    /\ Paso("largo", "espera_multi", "marca_ready")
    /\ Empujar("ready", mano["largo"])
    /\ UNCHANGED <<mano, segundo, plan, procesos, sem, grado, cpu, quantum, memoria, recursos, io, consola>>

EncolaEnReady ==
    /\ mano["largo"] # Nulo
    /\ Paso("largo", "espera_multi", "marca_ready")
    /\ Wait("multiprogramacion")
    /\ Empujar("ready", mano["largo"])
    /\ UNCHANGED <<mano, segundo, plan, procesos, grado, cpu, quantum, memoria, recursos, io, consola>>

EncolaNulo ==
    /\ pc["largo"] = "espera_multi" /\ mano["largo"] = Nulo
    /\ sem["multiprogramacion"] > 0
    /\ Cae

\* cambiar_estado after the unlock: the PCB is already in the queue.
\* Mutant of MarcaReady: no sem_post(&sem_procesos_ready).
MarcaSinAviso ==
    /\ Paso("largo", "marca_ready", "espera_new")
    /\ CambiarEstado(mano["largo"], "READY")
    /\ Toma("largo", Nulo)
    /\ UNCHANGED <<segundo, plan, generador_pid, libre, cola, sem, grado, cpu, quantum, memoria,
                   recursos, io, consola>>

MarcaReady ==
    /\ Paso("largo", "marca_ready", "espera_new")
    /\ CambiarEstado(mano["largo"], "READY")
    /\ Post("procesos_ready")
    /\ Toma("largo", Nulo)
    /\ UNCHANGED <<segundo, plan, generador_pid, libre, cola, grado, cpu, quantum, memoria,
                   recursos, io, consola>>

-----------------------------------------------------------------------------
(* procesos_en_exit.                                                       *)

SalidaMiraPlan ==
    /\ debe_planificar
    /\ Paso("salida", "tope", "espera_exit")
    /\ UNCHANGED <<mano, segundo, plan, procesos, cola, sem, grado, cpu, quantum, memoria,
                   recursos, io, consola>>

TomaDeExit ==
    /\ cola["exit"] # <<>>       \* always so when the semaphore is positive: PedidosRespaldados
    /\ Paso("salida", "espera_exit", "pide_memoria")
    /\ sem["procesos_exit"] > 0
    /\ sem' = [sem EXCEPT !["procesos_exit"] = @ - 1, !["multiprogramacion"] = @ + 1]
    /\ Toma("salida", Head(cola["exit"])) /\ Sacar("exit")
    /\ UNCHANGED <<segundo, plan, procesos, grado, cpu, quantum, memoria, recursos, io, consola>>

\* Mutant of SalidaPideMemoria: no pthread_mutex_lock(&mutex_envio_memoria).
SalidaPideSinMutex ==
    /\ Paso("salida", "pide_memoria", "rta_memoria")
    /\ mutex_envio_memoria' = "salida" /\ rta_memoria' = "pedida"
    /\ UNCHANGED <<mano, segundo, plan, procesos, cola, sem, grado, cpu, quantum,
                   recursos, io, consola>>

SalidaPideMemoria ==
    /\ Paso("salida", "pide_memoria", "rta_memoria")
    /\ mutex_envio_memoria = "libre"
    /\ mutex_envio_memoria' = "salida" /\ rta_memoria' = "pedida"
    /\ UNCHANGED <<mano, segundo, plan, procesos, cola, sem, grado, cpu, quantum,
                   recursos, io, consola>>

SalidaRecibeMemoria ==
    /\ Paso("salida", "rta_memoria", "libera")
    /\ rta_memoria = "lista"
    /\ mutex_envio_memoria' = "libre" /\ rta_memoria' = "nada"
    /\ UNCHANGED <<mano, segundo, plan, procesos, cola, sem, grado, cpu, quantum,
                   recursos, io, consola>>

\* The answer kernel.c waits for in the socket. memoria.c serves both requests and
\* sends nothing back: this step is there only under MemoriaContesta.
MemoriaResponde ==
    /\ MemoriaContesta
    /\ vivo /\ rta_memoria = "pedida"
    /\ rta_memoria' = "lista"
    /\ UNCHANGED <<vivo, hilos, plan, procesos, cola, sem, grado, cpu, quantum,
                   mutex_envio_memoria, recursos, io, consola>>

-----------------------------------------------------------------------------
(* liberar_recursos, one turn of its loop at a time. The process's own     *)
(* count of a resource starts as an arbitrary number (728 reads a pointer  *)
(* of the config array) and agregar_recurso and quitar_recurso, which      *)
(* compare a name with the resource's own bytes, never change it: either   *)
(* outcome of "> 0" may be met. buscar_recurso answers the first resource. *)

NoTieneInstancias ==
    /\ indice <= Recursos
    /\ Paso("salida", "libera", "libera")
    /\ indice' = indice + 1
    /\ UNCHANGED <<mano, segundo, plan, procesos, cola, sem, grado, cpu, quantum, memoria,
                   instancias, leido, io, consola>>

LiberaLeeInstancias ==
    /\ indice <= Recursos
    /\ Paso("salida", "libera", "incrementa")
    /\ leido' = [leido EXCEPT !["salida"] = instancias]
    /\ UNCHANGED <<mano, segundo, plan, procesos, cola, sem, grado, cpu, quantum, memoria,
                   indice, instancias, io, consola>>

LiberaIncrementa ==
    /\ Paso("salida", "incrementa", "saca_recurso")
    /\ instancias' = leido["salida"] + 1 /\ leido' = [leido EXCEPT !["salida"] = 0]
    /\ UNCHANGED <<mano, segundo, plan, procesos, cola, sem, grado, cpu, quantum, memoria,
                   indice, io, consola>>

LiberaSacaBloqueado ==
    /\ cola["recurso"] # <<>>
    /\ Paso("salida", "saca_recurso", "desbloquea")
    /\ segundo' = [segundo EXCEPT !["salida"] = Head(cola["recurso"])] /\ Sacar("recurso")
    /\ UNCHANGED <<mano, plan, procesos, sem, grado, cpu, quantum, memoria, recursos, io, consola>>

\* Nobody was blocked: agregar_recurso reads recursos_asignados of NULL.
LiberaSinBloqueado ==
    /\ pc["salida"] = "saca_recurso" /\ cola["recurso"] = <<>>
    /\ Cae

\* procesar_vuelta_blocked_a_ready(RECURSOVT) posts sem_procesos_ready, and so does 441.
LiberaDesbloquea ==
    /\ Paso("salida", "desbloquea", "libera")
    /\ \E v \in Vuelve("RECURSOVT", segundo["salida"]) :
         /\ CambiarEstado(segundo["salida"], v.estado)
         /\ Empujar(v.cola, segundo["salida"])
    /\ sem' = [sem EXCEPT !["procesos_ready"] = @ + 2]
    /\ segundo' = [segundo EXCEPT !["salida"] = Nulo]
    /\ indice' = indice + 1
    /\ UNCHANGED <<mano, plan, generador_pid, libre, grado, cpu, quantum, memoria,
                   instancias, leido, io, consola>>

LiberaLeeSinAsignar ==
    /\ pc["salida"] = "desbloquea" /\ LeeSinAsignar("RECURSOVT")
    /\ Cae

Archiva ==
    /\ indice > Recursos
    /\ Paso("salida", "libera", "tope")
    /\ Empujar("liberados", mano["salida"]) /\ Toma("salida", Nulo)
    /\ indice' = 1
    /\ UNCHANGED <<segundo, plan, procesos, sem, grado, cpu, quantum, memoria, instancias, leido,
                   io, consola>>

-----------------------------------------------------------------------------
Largo == TomaDeNew \/ EncolaEnReady \/ EncolaNulo \/ MarcaReady
Salida == \/ SalidaMiraPlan \/ TomaDeExit
          \/ SalidaPideMemoria \/ SalidaRecibeMemoria
          \/ NoTieneInstancias \/ LiberaLeeInstancias \/ LiberaIncrementa
          \/ LiberaSacaBloqueado \/ LiberaSinBloqueado
          \/ LiberaDesbloquea \/ LiberaLeeSinAsignar
          \/ Archiva
=============================================================================
