------------------------------- MODULE Kernel -------------------------------
(***************************************************************************)
(* The kernel process: its console, its schedulers, its interface threads  *)
(* and the peers at the other end of its sockets, over the shared state of *)
(* KernelEstado; and what should be true of them together.                 *)
(***************************************************************************)
EXTENDS KernelLargoPlazo, KernelCortoPlazo, KernelRecursos, KernelInterfaces, KernelConsola

Next == \/ Consola
        \/ Largo
        \/ Salida
        \/ MemoriaResponde
        \/ Despachador
        \/ Reloj
        \/ CPUDevuelve
        \/ VueltaDispatch
        \/ VueltaRecurso
        \/ \E i \in Interfaces : \/ ConectaInterfaz(i)
                                 \/ CierraInterfaz(i)
                                 \/ AtiendeInterfaz(i)

Spec == Init /\ [][Next]_vars

\* Every thread runs when it can and the peers answer what they were asked. The
\* operator owes nothing except that the console finishes a command it has read.
Justicia ==
    /\ WF_vars(Consola /\ pc["consola"] # "lee")
    /\ WF_vars(Largo) /\ WF_vars(Salida)
    /\ WF_vars(Despachador) /\ WF_vars(VueltaDispatch \/ VueltaRecurso) /\ WF_vars(Reloj)
    /\ WF_vars(MemoriaResponde) /\ WF_vars(CPUDevuelve)
    /\ \A i \in Interfaces : WF_vars(AtiendeInterfaz(i))

SpecJusta == Spec /\ Justicia

-----------------------------------------------------------------------------
(* Types.                                                                  *)

PasosConsola == {"lee", "pide_memoria", "rta_memoria", "a_new", "sube", "baja", "busca",
                 "quita", "decide", "a_exit"}
PasosLargo == {"sin_crear", "espera_new", "espera_multi", "marca_ready"}
PasosSalida == {"sin_crear", "tope", "espera_exit", "pide_memoria", "rta_memoria", "libera",
                "incrementa", "saca_recurso", "desbloquea"}
PasosDespachador == {"sin_crear", "tope", "espera", "saca_ready", "saca_ready_aux", "marca_exec",
                     "a_exec", "envia", "lanza_quantum"}
PasosVuelta == {"sin_crear", "tope", "espera_rta", "atiende", "a_bloqueados", "a_block",
                "rechaza", "decrementa", "incrementa", "decide_wait", "decide_signal",
                "a_recurso", "a_block_recurso", "saca_recurso", "desbloquea", "reanuda",
                "reenvia"}
PasosInterfaz == {"sin_crear", "tope", "espera", "envia", "recibe", "vuelve", "finaliza",
                  "desconecta", "quita_interfaz", "vacia", "destruye", "liberada"}
Pasos == PasosConsola \cup PasosLargo \cup PasosSalida \cup PasosDespachador \cup PasosVuelta

PCB == [pid: 0..(MaxProc + 1), estado: Estados, pleno: BOOLEAN]

TypeHilos ==
    /\ vivo \in BOOLEAN
    /\ pc \in [Hilos -> Pasos]
    /\ pc["consola"] \in PasosConsola /\ pc["largo"] \in PasosLargo
    /\ pc["salida"] \in PasosSalida /\ pc["despachador"] \in PasosDespachador
    /\ pc["vuelta"] \in PasosVuelta
    /\ mano \in [Hilos -> Punteros]
    /\ segundo \in [{"salida", "vuelta"} -> Punteros]
    /\ debe_planificar \in BOOLEAN /\ esta_planificando \in BOOLEAN

TypeProcesos ==
    /\ generador_pid \in 1..(MaxProc + 1) /\ libre \in 1..(2 * MaxProc + MaxVueltas + 1)
    /\ pcb \in [Objs -> PCB]
TypeColas == cola \in [Colas -> Seq(Objs)]
TypeSem == sem \in [Semaforos -> Nat] /\ grado \in Int

TypeCPU ==
    /\ a_cpu \in Seq(Objs) /\ de_cpu \in Seq([o: Objs, r: Retorno]) /\ ret \in Retorno
    /\ vueltas \in 0..MaxVueltas
TypeMutex ==
    /\ tiempo \in {"cero", "parcial", "excede"} /\ relojes \in Nat
    /\ mutex_exec \in {"libre", "reloj"}
    /\ mutex_envio_memoria \in {"libre", "consola", "salida"}
    /\ rta_memoria \in {"nada", "pedida", "lista"}
TypeRecursos ==
    /\ indice \in 1..(Recursos + 1) /\ instancias \in Int
    /\ leido \in [{"salida", "vuelta"} -> Int]

TypeIO ==
    /\ conectadas \subseteq Interfaces /\ cerradas \subseteq Interfaces
    /\ bloq \in [Interfaces -> Seq(Bloque)] /\ sem_io \in [Interfaces -> Nat]
    /\ pc_io \in [Interfaces -> PasosInterfaz]
    /\ mano_io \in [Interfaces -> Bloque \cup {SinBloque}]
TypeConsola ==
    /\ orden \in [pid: 0..(MaxProc + 1), k: 1..(Len(ColasBuscadas) + 1), pos: Nat \ {0}, n: Nat]
    /\ ordenes \in 0..MaxOrdenes /\ interrupciones \in Nat

TypeOK == /\ TypeHilos /\ TypeProcesos /\ TypeColas /\ TypeSem
          /\ TypeCPU /\ TypeMutex /\ TypeRecursos /\ TypeIO /\ TypeConsola

-----------------------------------------------------------------------------
(* A-B-A-B: dispatch and attend alternate (comment at 876-879).            *)

Contar(b) == IF b THEN 1 ELSE 0
DespachadorTiene == pc["despachador"] \in {"saca_ready", "saca_ready_aux", "marca_exec",
                                           "a_exec", "envia"}
VueltaTiene == pc["vuelta"] \in PasosVuelta \ {"sin_crear", "tope", "espera_rta"}

\* Exactly one of these holds the turn: sem_despachar, the dispatcher between its
\* wait and its post, sem_atender_rta, the thread that attends the CPU between its
\* wait and its post. The code gets this from two semaphores posted in five
\* places of two threads; killing processes or losing interfaces must not break it.
TurnoUnico == sem["despachar"] + sem["atender_rta"]
                + Contar(DespachadorTiene) + Contar(VueltaTiene) = 1

\* At most one process is on the CPU or on its way to or from it, and it is there
\* exactly while the attending thread has an answer to wait for.
CPUExclusiva == Len(a_cpu) + Len(de_cpu) = sem["atender_rta"]

\* The turn and the CPU together.
Alternancia == TurnoUnico /\ CPUExclusiva

-----------------------------------------------------------------------------
(* The PCB in the hand of each thread, at the steps that use it.           *)

ManoConsola ==
    /\ pc["consola"] \in {"pide_memoria", "rta_memoria", "a_new", "decide", "a_exit"}
         => mano["consola"] \in Objs
    /\ pc["consola"] = "quita" => orden.k <= Len(ColasBuscadas)
ManoLargo == pc["largo"] = "marca_ready" => mano["largo"] \in Objs
ManoSalida ==
    /\ pc["salida"] \in {"pide_memoria", "rta_memoria", "libera", "incrementa", "saca_recurso",
                         "desbloquea"} => mano["salida"] \in Objs
    /\ pc["salida"] \in {"incrementa", "saca_recurso", "desbloquea"} => indice <= Recursos
    /\ pc["salida"] = "desbloquea" => segundo["salida"] \in Objs
ManoDespachador ==
    pc["despachador"] \in {"marca_exec", "a_exec", "envia"} => mano["despachador"] \in Objs
ManoVuelta ==
    /\ VueltaTiene => mano["vuelta"] \in Objs
    /\ pc["vuelta"] = "desbloquea" => segundo["vuelta"] \in Objs
    /\ pc["vuelta"] \in {"a_bloqueados", "a_block"} => ret.interfaz \in Interfaces
ManoIO ==
    \A i \in Interfaces : pc_io[i] \in {"envia", "recibe", "vuelve", "finaliza", "desconecta"}
                            => mano_io[i] \in Bloque
ManosOK == ManoConsola /\ ManoLargo /\ ManoSalida /\ ManoDespachador /\ ManoVuelta /\ ManoIO

\* Every list holds PCB objects, every semaphore a natural number, and no thread has an
\* empty hand at the steps after its pop: where the code looked at the list or waited for
\* its semaphore, it pops from that one. A pop that finds its list empty all the same is a
\* fault (Cae), which SinCaida and the runs that kill are about.
Tipado == TypeOK /\ ManosOK

-----------------------------------------------------------------------------
(* Where a process is. cola_exec and cola_block are left out: nothing ever *)
(* takes a PCB out of them but a console kill, so they hold old pointers.  *)

\* The thread's pointer is to a PCB that it has already put in a queue.
YaEncolado(h) == pc[h] \in {"marca_ready", "a_block", "a_block_recurso"}

Uno(o) == IF o = Nulo THEN <<>> ELSE <<o>>
EnMano(h) == IF YaEncolado(h) THEN <<>> ELSE Uno(mano[h])

EnNew == EnMano("consola") \o cola["new"] \o EnMano("largo")
EnReady == cola["ready"] \o cola["ready_aux"]
             \o IF pc["despachador"] = "marca_exec" THEN EnMano("despachador") ELSE <<>>
EnExec == (IF pc["despachador"] \in {"a_exec", "envia"} THEN EnMano("despachador") ELSE <<>>)
            \o a_cpu \o [n \in DOMAIN de_cpu |-> de_cpu[n].o] \o EnMano("vuelta")
EnRecurso == cola["recurso"] \o Uno(segundo["salida"]) \o Uno(segundo["vuelta"])
EnInterfaz(i) == [n \in DOMAIN bloq[i] |-> bloq[i][n].o] \o Uno(mano_io[i].o)
EnSalida == EnMano("salida") \o cola["liberados"]
Lugares == EnNew \o EnReady \o EnExec \o EnRecurso \o cola["exit"] \o EnSalida

Esta(p, s) == \E n \in DOMAIN s : pcb[s[n]].pid = p
Veces(p, s) == Cardinality({n \in DOMAIN s : pcb[s[n]].pid = p})

\* Every process the console created is in one place and in one only: it is never
\* lost and never scheduled twice, whatever the threads do in between.
UnSoloLugar ==
    \A p \in Pids :
       LET lugares == Lugares
           interfaces == {i \in Interfaces : Esta(p, EnInterfaz(i))}
       IN /\ \A i \in interfaces : Veces(p, EnInterfaz(i)) = 1
          /\ Veces(p, lugares) + Cardinality(interfaces) = Contar(p <= generador_pid)

\* The state a process has by the place where it is.
FaseDe(p) == CASE p > generador_pid -> "SIN_CREAR"
               [] Esta(p, EnNew) -> "NEW"
               [] Esta(p, EnReady) -> "READY"
               [] Esta(p, EnExec) -> "EXEC"
               [] Esta(p, EnRecurso) \/ \E i \in Interfaces : Esta(p, EnInterfaz(i)) -> "BLOCKED"
               [] Esta(p, cola["exit"]) -> "EXIT"
               [] Esta(p, EnMano("salida")) -> "LIBERANDO"
               [] OTHER -> "FIN"
Fase == [p \in Pids |-> FaseDe(p)]

-----------------------------------------------------------------------------
(* The scheduler keeps what CicloDeVida promises.                          *)

Ciclo == INSTANCE CicloDeVida WITH Procesos <- Pids, GradosIniciales <- MultiInicial,
                                   fase <- Fase, grado <- grado

\* Every step of the kernel is a step of the life cycle or none: no process skips a
\* state, two are never in EXEC, and no process is admitted over the degree.
CumpleElCiclo == Ciclo!Spec

\* The free slots and the processes between READY and EXIT always add up to the
\* slots given: procesos_en_exit posts once for each process that planificacion_
\* procesos_ready waited for (comment at 416).
CuposExactos == sem["multiprogramacion"] + Cardinality(Ciclo!Admitidos) = grado

\* No thread pops an empty list: each semaphore never promises more than its queue
\* holds, so no PCB pointer is NULL when it is dereferenced.
SinCaida == vivo

-----------------------------------------------------------------------------
(* What is left of it when the operator kills processes, interfaces leave  *)
(* and the CPU reports what the kernel has no case for.                    *)

\* A process may be lost then, but it is never in two places: it is not scheduled
\* again while it waits for an interface, nor finished twice.
NuncaDoble ==
    \A p \in Pids : LET interfaces == {i \in Interfaces : Esta(p, EnInterfaz(i))}
                    IN /\ Veces(p, Lugares) + Cardinality(interfaces) <= 1
                       /\ \A i \in interfaces : Veces(p, EnInterfaz(i)) = 1

\* procesos_en_exit and the interface threads pop and use what they get with no test
\* for NULL: their semaphores never promise more than their list holds, also while
\* the console kills and the scheduler still adds to an interface that is leaving.
PedidosRespaldados ==
    /\ sem["procesos_exit"] <= Len(cola["exit"])
    /\ \A i \in Interfaces :
          pc_io[i] \notin {"vacia", "destruye", "liberada"} => sem_io[i] <= Len(bloq[i])

\* The answer in the memory socket belongs to the thread that waits for it, and
\* no other thread waits: the console and procesos_en_exit share one connection.
RespuestaDeQuienPidio ==
    /\ pc["consola"] = "rta_memoria" <=> mutex_envio_memoria = "consola"
    /\ pc["salida"] = "rta_memoria" <=> mutex_envio_memoria = "salida"
    /\ rta_memoria = "nada" <=> mutex_envio_memoria = "libre"

\* With no timer of RR or VRR able to stop, no process started is left behind:
\* once there is a slot and the schedulers run, it gets to cola_exit_liberados.
TodoTermina ==
    \A p \in Pids : (Fase[p] = "NEW" /\ debe_planificar /\ grado > 0) ~> Fase[p] = "FIN"

=============================================================================
