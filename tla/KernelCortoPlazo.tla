-------------------------- MODULE KernelCortoPlazo --------------------------
(***************************************************************************)
(* Short-term scheduler of the kernel (kernel.c 560-715, 859-982): the     *)
(* thread that dispatches, the thread that attends what the CPU sends      *)
(* back, and the quantum timers. The CPU is the peer at the other end of   *)
(* the dispatch socket: it answers each PCB it gets with one of Retornos.  *)
(***************************************************************************)
EXTENDS KernelEstado

-----------------------------------------------------------------------------
(* despachador, obtener_pcb_segun_algoritmo.                               *)

DespachadorMiraPlan ==
    /\ debe_planificar
    /\ Paso("despachador", "tope", "espera")
    /\ UNCHANGED <<mano, segundo, plan, procesos, cola, sem, grado, cpu, quantum, memoria,
                   recursos, io, consola>>

\* Both sem_wait, then colaVacia(cola_ready_aux), which only VRR looks at.
\* Mutant of Elige: no sem_wait(&sem_despachar).
EligeSinTurno ==
    /\ Paso("despachador", "espera",
            IF Algoritmo = "VRR" /\ cola["ready_aux"] # <<>> THEN "saca_ready_aux" ELSE "saca_ready")
    /\ Wait("procesos_ready")
    /\ UNCHANGED <<mano, segundo, plan, procesos, cola, grado, cpu, quantum, memoria,
                   recursos, io, consola>>

Elige ==
    /\ Paso("despachador", "espera",
            IF Algoritmo = "VRR" /\ cola["ready_aux"] # <<>> THEN "saca_ready_aux" ELSE "saca_ready")
    /\ sem["despachar"] > 0 /\ sem["procesos_ready"] > 0
    /\ sem' = [sem EXCEPT !["despachar"] = @ - 1, !["procesos_ready"] = @ - 1]
    /\ UNCHANGED <<mano, segundo, plan, procesos, cola, grado, cpu, quantum, memoria,
                   recursos, io, consola>>

\* Mutant of SacaReady: list_get instead of list_remove.
SacaReadySinQuitar ==
    /\ \E q \in {"ready", "ready_aux"} :
         /\ Paso("despachador", IF q = "ready" THEN "saca_ready" ELSE "saca_ready_aux", "marca_exec")
         /\ cola[q] # <<>>
         /\ Toma("despachador", Head(cola[q]))
    /\ UNCHANGED <<segundo, plan, procesos, cola, sem, grado, cpu, quantum, memoria, recursos, io, consola>>

\* Mutant of SacaReady: cola_ready_aux forgotten, the list that the label names not looked at.
SacaSiempreReady ==
    /\ \E de \in {"saca_ready", "saca_ready_aux"} : Paso("despachador", de, "marca_exec")
    /\ Toma("despachador", Primero(cola["ready"])) /\ Sacar("ready")
    /\ UNCHANGED <<segundo, plan, procesos, sem, grado, cpu, quantum, memoria, recursos, io, consola>>

SacaReady ==
    /\ \E q \in {"ready", "ready_aux"} :
         /\ Paso("despachador", IF q = "ready" THEN "saca_ready" ELSE "saca_ready_aux", "marca_exec")
         /\ cola[q] # <<>>
         /\ Toma("despachador", Head(cola[q])) /\ Sacar(q)
    /\ UNCHANGED <<segundo, plan, procesos, sem, grado, cpu, quantum, memoria, recursos, io, consola>>

\* cambiar_estado dereferences what pop_con_mutex gave.
ReadyVacia ==
    /\ \/ pc["despachador"] = "saca_ready" /\ cola["ready"] = <<>>
       \/ pc["despachador"] = "saca_ready_aux" /\ cola["ready_aux"] = <<>>
    /\ Cae

MarcaExec ==
    /\ Paso("despachador", "marca_exec", "a_exec")
    /\ CambiarEstado(mano["despachador"], "EXEC")
    /\ UNCHANGED <<mano, segundo, plan, generador_pid, libre, cola, sem, grado, cpu, quantum,
                   memoria, recursos, io, consola>>

\* cola_exec only grows here: nothing takes the PCB out when the CPU returns it.
PasaAExec ==
    /\ Paso("despachador", "a_exec", "envia")
    /\ mutex_exec = "libre"
    /\ Empujar("exec", mano["despachador"])
    /\ UNCHANGED <<mano, segundo, plan, procesos, sem, grado, cpu, quantum, memoria,
                   recursos, io, consola>>

Despacha ==
    /\ Paso("despachador", "envia", IF Algoritmo = "FIFO" THEN "tope" ELSE "lanza_quantum")
    /\ EnviarPCB(mano["despachador"])
    /\ Post("atender_rta")
    /\ Toma("despachador", Nulo)
    /\ UNCHANGED <<segundo, plan, generador_pid, cola, grado, de_cpu, ret, vueltas, quantum,
                   memoria, recursos, io, consola>>

\* manejar_quantum_RR creates a timer; manejar_quantum_VRR stops its chronometer
\* as soon as the timer exists: the time kept is that of the thread creation.
LanzaQuantum ==
    /\ Paso("despachador", "lanza_quantum", "tope")
    /\ relojes' = relojes + 1
    /\ tiempo' \in IF Algoritmo = "VRR" THEN {"cero", "parcial", "excede"} ELSE {tiempo}
    /\ UNCHANGED <<mano, segundo, plan, procesos, cola, sem, grado, cpu, mutex_exec, memoria,
                   recursos, io, consola>>

\* reducir_quantum: with cola_exec empty the timer ends; otherwise it locks
\* mutex_lista_exec and, before unlocking it, locks it again. It never goes on.
RelojSinExec ==
    /\ vivo /\ relojes > 0 /\ cola["exec"] = <<>>
    /\ relojes' = relojes - 1
    /\ UNCHANGED <<vivo, hilos, plan, procesos, cola, sem, grado, cpu, tiempo, mutex_exec,
                   memoria, recursos, io, consola>>

RelojVence ==
    /\ vivo /\ relojes > 0 /\ cola["exec"] # <<>>
    /\ mutex_exec = "libre" /\ mutex_exec' = "reloj"
    /\ relojes' = relojes - 1
    /\ UNCHANGED <<vivo, hilos, plan, procesos, cola, sem, grado, cpu, tiempo, memoria,
                   recursos, io, consola>>

-----------------------------------------------------------------------------
(* The CPU, seen from the socket. cpu.c takes a PCB that comes under       *)
(* PCBBITO and drops one that comes under CODE_PCB, as Despacha sends it:  *)
(* the CPU answers only under CPURecibe.                                   *)

Finales == {"EXITO", "SIN_MEMORIA"}

CPUDevuelve ==
    /\ CPURecibe
    /\ vivo /\ a_cpu # <<>>
    /\ \E r \in Retornos :
         /\ r.motivo \in Finales \/ vueltas < MaxVueltas
         /\ vueltas' = IF r.motivo \in Finales THEN vueltas ELSE vueltas + 1
         /\ de_cpu' = Append(de_cpu, [o |-> Head(a_cpu), r |-> r])
    /\ a_cpu' = Tail(a_cpu)
    /\ UNCHANGED <<vivo, hilos, plan, procesos, cola, sem, grado, ret, quantum, memoria,
                   recursos, io, consola>>

-----------------------------------------------------------------------------
(* atender_vuelta_dispatch.                                                *)

VueltaMiraPlan ==
    /\ debe_planificar
    /\ Paso("vuelta", "tope", "espera_rta")
    /\ UNCHANGED <<mano, segundo, plan, procesos, cola, sem, grado, cpu, quantum, memoria,
                   recursos, io, consola>>

RecibeVuelta ==
    /\ de_cpu # <<>>
    /\ Paso("vuelta", "espera_rta", "atiende")
    /\ Wait("atender_rta")
    /\ Toma("vuelta", Head(de_cpu).o) /\ ret' = Head(de_cpu).r
    /\ de_cpu' = Tail(de_cpu)
    /\ UNCHANGED <<segundo, plan, procesos, cola, grado, a_cpu, vueltas, quantum, memoria,
                   recursos, io, consola>>

Atiende(motivos, a) == ret.motivo \in motivos /\ Paso("vuelta", "atiende", a)

\* Mutant of AtiendeFinQuantum: the process is announced twice.
AtiendeFinQuantumDosAvisos ==
    /\ Atiende({"FIN_QUANTUM"}, "tope")
    /\ pcb' = [pcb EXCEPT ![mano["vuelta"]] = [@ EXCEPT !.estado = "READY", !.pleno = TRUE]]
    /\ Empujar("ready", mano["vuelta"])
    /\ sem' = [sem EXCEPT !["procesos_ready"] = @ + 2, !["despachar"] = @ + 1]
    /\ SueltaVuelta
    /\ UNCHANGED <<segundo, plan, generador_pid, libre, grado, a_cpu, de_cpu, vueltas, quantum, memoria, recursos,
                   io, consola>>

AtiendeFinQuantum ==
    /\ Atiende({"FIN_QUANTUM"}, "tope")
    /\ pcb' = [pcb EXCEPT ![mano["vuelta"]] = [@ EXCEPT !.estado = "READY", !.pleno = TRUE]]
    /\ Empujar("ready", mano["vuelta"])
    /\ sem' = [sem EXCEPT !["procesos_ready"] = @ + 1, !["despachar"] = @ + 1]
    /\ SueltaVuelta
    /\ UNCHANGED <<segundo, plan, generador_pid, libre, grado, a_cpu, de_cpu, vueltas, quantum, memoria, recursos,
                   io, consola>>

\* Mutant of AtiendeFinal: a second sem_post(&sem_despachar), as manejar_wait has.
AtiendeFinalDosPost ==
    /\ Atiende(Finales, "tope")
    /\ CambiarEstado(mano["vuelta"], "EXIT") /\ Empujar("exit", mano["vuelta"])
    /\ sem' = [sem EXCEPT !["procesos_exit"] = @ + 1, !["despachar"] = @ + 2]
    /\ SueltaVuelta
    /\ UNCHANGED <<segundo, plan, generador_pid, libre, grado, a_cpu, de_cpu, vueltas, quantum, memoria, recursos,
                   io, consola>>

AtiendeFinal ==
    /\ Atiende(Finales, "tope")
    /\ CambiarEstado(mano["vuelta"], "EXIT") /\ Empujar("exit", mano["vuelta"])
    /\ sem' = [sem EXCEPT !["procesos_exit"] = @ + 1, !["despachar"] = @ + 1]
    /\ SueltaVuelta
    /\ UNCHANGED <<segundo, plan, generador_pid, libre, grado, a_cpu, de_cpu, vueltas, quantum, memoria, recursos,
                   io, consola>>

\* Mutant of AtiendeOtroMotivo: the thread goes on without the last sem_post.
AtiendeOtroMotivoSinPost ==
    /\ Atiende({"EXIT_CONSOLA"}, "tope")
    /\ SueltaVuelta
    /\ UNCHANGED <<segundo, plan, procesos, cola, sem, grado, a_cpu, de_cpu, vueltas, quantum, memoria, recursos, io, consola>>

\* The switch has no case for it: the PCB goes to no queue.
AtiendeOtroMotivo ==
    /\ Atiende({"EXIT_CONSOLA"}, "tope")
    /\ Post("despachar")
    /\ SueltaVuelta
    /\ UNCHANGED <<segundo, plan, procesos, cola, grado, a_cpu, de_cpu, vueltas, quantum, memoria, recursos, io, consola>>

-----------------------------------------------------------------------------
(* INTERFAZ. The instruction is compared with the one of the motive, not   *)
(* with what the type of the interface accepts.                            *)

PedidosIO == {"SOLICITAR_INTERFAZ_GENERICA", "SOLICITAR_STDIN", "SOLICITAR_STDOUT"}
TipoPedido(motivo) == CASE motivo = "SOLICITAR_STDIN" -> "STDIN"
                        [] motivo = "SOLICITAR_STDOUT" -> "STDOUT"
                        [] OTHER -> "GENERICA"

BuscaInterfaz ==
    /\ Atiende(PedidosIO, IF ret.interfaz \in conectadas /\ ret.acepta THEN "a_bloqueados" ELSE "rechaza")
    /\ pcb' = [pcb EXCEPT ![mano["vuelta"]].pleno =
                  CASE tiempo = "cero" -> TRUE [] tiempo = "parcial" -> FALSE [] OTHER -> @]
    /\ UNCHANGED <<mano, segundo, plan, generador_pid, libre, cola, sem, grado, cpu, quantum,
                   memoria, recursos, io, consola>>

RechazaPedido ==
    /\ Paso("vuelta", "rechaza", "tope")
    /\ CambiarEstado(mano["vuelta"], "EXIT") /\ Empujar("exit", mano["vuelta"])
    /\ sem' = [sem EXCEPT !["procesos_exit"] = @ + 1, !["despachar"] = @ + 1]
    /\ SueltaVuelta
    /\ UNCHANGED <<segundo, plan, generador_pid, libre, grado, a_cpu, de_cpu, vueltas, quantum, memoria, recursos,
                   io, consola>>

\* Mutant of EncolaEnInterfaz: the sem_post of the request is here as well.
EncolaEnInterfazDosPost ==
    /\ Paso("vuelta", "a_bloqueados", "a_block")
    /\ CambiarEstado(mano["vuelta"], "BLOCKED")
    /\ bloq' = IF pc_io[ret.interfaz] = "liberada" THEN bloq
               ELSE [bloq EXCEPT ![ret.interfaz] =
                     Append(@, [o |-> mano["vuelta"], tipo |-> TipoPedido(ret.motivo)])]
    /\ sem_io' = [sem_io EXCEPT ![ret.interfaz] = @ + 1]
    /\ UNCHANGED <<mano, segundo, plan, generador_pid, libre, cola, sem, grado, cpu, quantum,
                   memoria, recursos, conectadas, cerradas, pc_io, mano_io, consola>>

\* The interface found may have been torn down since: its list is freed memory.
EncolaEnInterfaz ==
    /\ Paso("vuelta", "a_bloqueados", "a_block")
    /\ CambiarEstado(mano["vuelta"], "BLOCKED")
    /\ bloq' = IF pc_io[ret.interfaz] = "liberada" THEN bloq
               ELSE [bloq EXCEPT ![ret.interfaz] =
                     Append(@, [o |-> mano["vuelta"], tipo |-> TipoPedido(ret.motivo)])]
    /\ UNCHANGED <<mano, segundo, plan, generador_pid, libre, cola, sem, grado, cpu, quantum,
                   memoria, recursos, conectadas, cerradas, sem_io, pc_io, mano_io, consola>>

\* Mutant of AvisaInterfaz: no break, the process is also finished.
AvisaInterfazSinBreak ==
    /\ Paso("vuelta", "a_block", "tope")
    /\ cola' = [cola EXCEPT !["block"] = Append(@, mano["vuelta"]), !["exit"] = Append(@, mano["vuelta"])]
    /\ sem_io' = [sem_io EXCEPT ![ret.interfaz] = @ + 1]
    /\ sem' = [sem EXCEPT !["procesos_exit"] = @ + 1, !["despachar"] = @ + 1]
    /\ SueltaVuelta
    /\ UNCHANGED <<segundo, plan, procesos, grado, a_cpu, de_cpu, vueltas, quantum, memoria, recursos,
                   conectadas, cerradas, bloq, pc_io, mano_io, consola>>

AvisaInterfaz ==
    /\ Paso("vuelta", "a_block", "tope")
    /\ Empujar("block", mano["vuelta"])
    /\ sem_io' = [sem_io EXCEPT ![ret.interfaz] = @ + 1]
    /\ Post("despachar")
    /\ SueltaVuelta
    /\ UNCHANGED <<segundo, plan, procesos, grado, a_cpu, de_cpu, vueltas, quantum, memoria, recursos,
                   conectadas, cerradas, bloq, pc_io, mano_io, consola>>

InterfazLiberada ==
    /\ pc["vuelta"] \in {"a_bloqueados", "a_block"} /\ pc_io[ret.interfaz] = "liberada"
    /\ Cae

-----------------------------------------------------------------------------
Despachador == \/ DespachadorMiraPlan \/ Elige \/ SacaReady \/ ReadyVacia
               \/ MarcaExec \/ PasaAExec \/ Despacha \/ LanzaQuantum
Reloj == RelojSinExec \/ RelojVence
VueltaDispatch == \/ VueltaMiraPlan \/ RecibeVuelta
                  \/ AtiendeFinQuantum \/ AtiendeFinal \/ AtiendeOtroMotivo
                  \/ BuscaInterfaz \/ RechazaPedido \/ EncolaEnInterfaz \/ AvisaInterfaz
                  \/ InterfazLiberada
=============================================================================
