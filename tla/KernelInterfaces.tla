-------------------------- MODULE KernelInterfaces --------------------------
(***************************************************************************)
(* The threads of the kernel that serve the I/O interfaces (kernel.c       *)
(* 1051-1341), one for each connected interface: it takes a request from   *)
(* the interface's own list, sends it, waits for the answer and returns    *)
(* the process to a ready queue, or tears the interface down when the      *)
(* connection is found closed. The interface is the peer of the socket.    *)
(***************************************************************************)
EXTENDS KernelEstado

PasoIO(i, de, a) ==
    /\ vivo /\ vivo' = vivo
    /\ pc_io[i] = de
    /\ pc_io' = [pc_io EXCEPT ![i] = a]

TomaIO(i, b) == mano_io' = [mano_io EXCEPT ![i] = b]

\* procesar_conexion_interfaz, up to the loop of its type.
ConectaInterfaz(i) ==
    /\ PasoIO(i, "sin_crear", "tope")
    /\ conectadas' = conectadas \cup {i}
    /\ UNCHANGED <<hilos, plan, procesos, cola, sem, grado, cpu, quantum, memoria, recursos,
                   cerradas, bloq, sem_io, mano_io, consola>>

\* The interface goes away; the kernel learns it when it next uses the socket.
CierraInterfaz(i) ==
    /\ vivo /\ i \in PuedenCerrar /\ i \in conectadas \ cerradas
    /\ cerradas' = cerradas \cup {i}
    /\ UNCHANGED <<vivo, hilos, plan, procesos, cola, sem, grado, cpu, quantum, memoria,
                   recursos, conectadas, bloq, sem_io, pc_io, mano_io, consola>>

IOMiraPlan(i) ==
    /\ debe_planificar
    /\ PasoIO(i, "tope", "espera")
    /\ UNCHANGED <<hilos, plan, procesos, cola, sem, grado, cpu, quantum, memoria, recursos,
                   conectadas, cerradas, bloq, sem_io, mano_io, consola>>

IOToma(i) ==
    /\ bloq[i] # <<>>       \* always so when the semaphore is positive: PedidosRespaldados
    /\ PasoIO(i, "espera", "envia")
    /\ sem_io[i] > 0 /\ sem_io' = [sem_io EXCEPT ![i] = @ - 1]
    /\ TomaIO(i, Head(bloq[i])) /\ bloq' = [bloq EXCEPT ![i] = Tail(@)]
    /\ UNCHANGED <<hilos, plan, procesos, cola, sem, grado, cpu, quantum, memoria, recursos,
                   conectadas, cerradas, consola>>

\* Each loop reads the block with the layout of its own type. pcb_block_STDIN and _STDOUT
\* are laid out alike; pcb_block_gen is not, and the wrong one faults.
IOConfundeTipo(i) ==
    /\ pc_io[i] = "envia" /\ (mano_io[i].tipo = "GENERICA") # (Tipo[i] = "GENERICA")
    /\ Cae

\* A send to a closed connection may fail at once or still be accepted.
IOEnvia(i) ==
    /\ \/ PasoIO(i, "envia", "recibe")
       \/ i \in cerradas /\ PasoIO(i, "envia", "desconecta")
    /\ UNCHANGED <<hilos, plan, procesos, cola, sem, grado, cpu, quantum, memoria, recursos,
                   conectadas, cerradas, bloq, sem_io, mano_io, consola>>

IORecibe(i) ==
    /\ \/ i \notin cerradas /\ 1 \in RespuestasIO /\ PasoIO(i, "recibe", "vuelve")
       \/ i \notin cerradas /\ 0 \in RespuestasIO /\ Tipo[i] # "GENERICA"
            /\ PasoIO(i, "recibe", "finaliza")
       \/ i \in cerradas /\ PasoIO(i, "recibe", "desconecta")
    /\ UNCHANGED <<hilos, plan, procesos, cola, sem, grado, cpu, quantum, memoria, recursos,
                   conectadas, cerradas, bloq, sem_io, mano_io, consola>>

\* The loop of a GENERICA has no branch for the answer 0: the request is dropped.
IORecibeCeroGenerica(i) ==
    /\ Tipo[i] = "GENERICA" /\ 0 \in RespuestasIO /\ i \notin cerradas
    /\ PasoIO(i, "recibe", "tope")
    /\ TomaIO(i, SinBloque)
    /\ UNCHANGED <<hilos, plan, procesos, cola, sem, grado, cpu, quantum, memoria, recursos,
                   conectadas, cerradas, bloq, sem_io, consola>>

\* procesar_vuelta_blocked_a_ready; cola_block keeps its pointer to the PCB.
IOVuelve(i) ==
    /\ PasoIO(i, "vuelve", "tope")
    /\ \E v \in Vuelve(Tipo[i], mano_io[i].o) :
         /\ CambiarEstado(mano_io[i].o, v.estado)
         /\ Empujar(v.cola, mano_io[i].o)
    /\ Post("procesos_ready")
    /\ TomaIO(i, SinBloque)
    /\ UNCHANGED <<hilos, plan, generador_pid, libre, grado, cpu, quantum, memoria, recursos,
                   conectadas, cerradas, bloq, sem_io, consola>>

IOVuelveLeeSinAsignar(i) ==
    /\ pc_io[i] = "vuelve" /\ LeeSinAsignar(Tipo[i])
    /\ Cae

\* STDIN and STDOUT on answer 0: to cola_exit with the state it had.
IOFinaliza(i) ==
    /\ PasoIO(i, "finaliza", "tope")
    /\ Empujar("exit", mano_io[i].o) /\ Post("procesos_exit")
    /\ TomaIO(i, SinBloque)
    /\ UNCHANGED <<hilos, plan, procesos, grado, cpu, quantum, memoria, recursos,
                   conectadas, cerradas, bloq, sem_io, consola>>

-----------------------------------------------------------------------------
(* Disconnection: the request goes back to the list, then                  *)
(* liberar_datos_interfaz.                                                 *)

IODevuelve(i) ==
    /\ PasoIO(i, "desconecta", "quita_interfaz")
    /\ bloq' = [bloq EXCEPT ![i] = Append(@, mano_io[i])]
    /\ TomaIO(i, SinBloque)
    /\ UNCHANGED <<hilos, plan, procesos, cola, sem, grado, cpu, quantum, memoria, recursos,
                   conectadas, cerradas, sem_io, consola>>

IOQuitaInterfaz(i) ==
    /\ PasoIO(i, "quita_interfaz", "vacia")
    /\ conectadas' = conectadas \ {i}
    /\ UNCHANGED <<hilos, plan, procesos, cola, sem, grado, cpu, quantum, memoria, recursos,
                   cerradas, bloq, sem_io, mano_io, consola>>

\* liberar_pcb_block_*, for each element of the list.
IOVacia(i) ==
    /\ bloq[i] # <<>>
    /\ PasoIO(i, "vacia", "vacia")
    /\ CambiarEstado(Head(bloq[i]).o, "EXIT") /\ Empujar("exit", Head(bloq[i]).o)
    /\ Post("procesos_exit")
    /\ bloq' = [bloq EXCEPT ![i] = Tail(@)]
    /\ UNCHANGED <<hilos, plan, generador_pid, libre, grado, cpu, quantum, memoria, recursos,
                   conectadas, cerradas, sem_io, mano_io, consola>>

IOVaciaFin(i) ==
    /\ bloq[i] = <<>>
    /\ PasoIO(i, "vacia", "destruye")
    /\ UNCHANGED <<hilos, plan, procesos, cola, sem, grado, cpu, quantum, memoria, recursos,
                   conectadas, cerradas, bloq, sem_io, mano_io, consola>>

IODestruye(i) ==
    /\ PasoIO(i, "destruye", "liberada")
    /\ bloq' = [bloq EXCEPT ![i] = <<>>]
    /\ UNCHANGED <<hilos, plan, procesos, cola, sem, grado, cpu, quantum, memoria, recursos,
                   conectadas, cerradas, sem_io, mano_io, consola>>

\* The loop goes on with the freed structure: it waits for ever or faults.
IOUsaLiberada(i) ==
    /\ pc_io[i] = "liberada" /\ debe_planificar
    /\ Cae

-----------------------------------------------------------------------------
AtiendeInterfaz(i) ==
    \/ IOMiraPlan(i) \/ IOToma(i) \/ IOConfundeTipo(i) \/ IOEnvia(i)
    \/ IORecibe(i) \/ IORecibeCeroGenerica(i)
    \/ IOVuelve(i) \/ IOVuelveLeeSinAsignar(i) \/ IOFinaliza(i)
    \/ IODevuelve(i) \/ IOQuitaInterfaz(i) \/ IOVacia(i) \/ IOVaciaFin(i) \/ IODestruye(i)
    \/ IOUsaLiberada(i)
=============================================================================
