---------------------------- MODULE KernelEstado ----------------------------
(***************************************************************************)
(* State shared by the threads of the kernel process (kernel.c, kernel.h)  *)
(* and the operations on it that every thread uses: counting semaphores,   *)
(* queues of PCB pointers and the state field of a PCB.                    *)
(*                                                                         *)
(* Threads: "consola" (iniciar_consola), "largo"                           *)
(* (planificacion_procesos_ready), "salida" (procesos_en_exit),            *)
(* "despachador", "vuelta" (atender_vuelta_dispatch), and one thread per   *)
(* connected I/O interface (procesar_conexion_interfaz).                   *)
(*                                                                         *)
(* One step of a thread is at most one access to something that another    *)
(* thread can change under it, with the sem_wait calls before and the      *)
(* sem_post calls after it: a P commutes to the right and a V to the left  *)
(* of every step of another thread.                                        *)
(***************************************************************************)
EXTENDS Integers, Sequences, FiniteSets

CONSTANTS
    Algoritmo,      \* ALGORITMO_PLANIFICACION of kernel.config
    Interfaces,     \* the I/O interfaces that may connect
    Tipo,           \* the vuelta_type each interface announces
    Retornos,       \* what the CPU may answer to a dispatch
    RespuestasIO,   \* what an interface may answer to a request: 1 done, 0 failed
    PuedenCerrar,   \* interfaces that may close their connection
    Recursos,       \* number of entries of RECURSOS
    InstanciasPrimero,  \* INSTANCIAS_RECURSOS of the first one
    Comandos,       \* console commands the operator uses
    GradoConfig,    \* GRADO_MULTIPROGRAMACION of kernel.config
    GradosNuevos,   \* arguments of MULTIPROGRAMACION
    MultiInicial,   \* values sem_init may leave in sem_multiprogramacion
    MemoriaContesta,    \* FALSE as memoria.c is, TRUE as kernel.c expects it to be
    CPURecibe,      \* the same of cpu.c: the dispatcher's op code is one it attends
    MaxProc,        \* bound: processes the operator starts
    MaxVueltas,     \* bound: CPU answers that do not end the process
    MaxOrdenes      \* bound: console commands other than INICIAR_PROCESO

Motivos == {"FIN_QUANTUM", "EXITO", "SIN_MEMORIA", "EXIT_CONSOLA",
            "SOLICITAR_WAIT", "SOLICITAR_SIGNAL", "SOLICITAR_INTERFAZ_GENERICA",
            "SOLICITAR_STDIN", "SOLICITAR_STDOUT"}
Tipos == {"GENERICA", "STDIN", "STDOUT"}
SinInterfaz == "ninguna"
Retorno == [motivo: Motivos, interfaz: Interfaces \cup {SinInterfaz}, acepta: BOOLEAN]

ASSUME ConstantesOK ==
    /\ Algoritmo \in {"FIFO", "RR", "VRR"}
    /\ Tipo \in [Interfaces -> Tipos]
    /\ Retornos \subseteq Retorno
    /\ RespuestasIO \subseteq {0, 1}
    /\ PuedenCerrar \subseteq Interfaces
    /\ Recursos \in Nat /\ InstanciasPrimero \in Nat
    /\ Comandos \subseteq {"INICIAR_PROCESO", "FINALIZAR_PROCESO", "INICIAR_PLANIFICACION",
                           "DETENER_PLANIFICACION", "MULTIPROGRAMACION"}
    /\ GradoConfig \in Nat /\ GradosNuevos \subseteq Nat /\ MultiInicial \subseteq Nat
    /\ MemoriaContesta \in BOOLEAN /\ CPURecibe \in BOOLEAN
    /\ MaxProc \in Nat \ {0} /\ MaxVueltas \in Nat /\ MaxOrdenes \in Nat

Hilos == {"consola", "largo", "salida", "despachador", "vuelta"}
Colas == {"new", "ready", "ready_aux", "exec", "block", "exit", "liberados", "recurso"}
Semaforos == {"multiprogramacion", "procesos_new", "procesos_ready", "despachar",
              "procesos_exit", "atender_rta"}
Estados == {"NEW", "READY", "READY_AUX", "EXEC", "BLOCKED", "EXIT"}

\* PCB objects. crear_pcb allocates one and so does guardar_datos_del_pcb for
\* each PCB that comes back: a process is a PID, its PCB a new object each time.
Objs == 1..(2 * MaxProc + MaxVueltas)
Nulo == 0                       \* NULL: list_remove on an empty list
Punteros == Objs \cup {Nulo}
Bloque == [o: Objs, tipo: Tipos]    \* pcb_block_gen, pcb_block_STDIN, pcb_block_STDOUT
SinRetorno == [motivo |-> "EXITO", interfaz |-> SinInterfaz, acepta |-> TRUE]
SinOrden == [pid |-> 0, k |-> 1, pos |-> 1, n |-> 0]   \* locals of the console's command
SinBloque == [o |-> Nulo, tipo |-> "GENERICA"]
Pids == 2..(MaxProc + 1)        \* generador_pid starts at 1, asignar_pid adds first

VARIABLES
    vivo,               \* FALSE once the kernel process has dereferenced NULL
    pc, mano, segundo,  \* of each thread: next step, PCB in hand, second PCB in hand
    debe_planificar, esta_planificando,
    generador_pid, libre, pcb,
    cola, sem, grado,   \* grado (ghost): slots given to sem_multiprogramacion
    a_cpu, de_cpu, ret, \* dispatch socket to and from the CPU, message received
    vueltas, tiempo, relojes, mutex_exec,
    mutex_envio_memoria, rta_memoria,
    indice, instancias, leido,   \* loop and reads of the resource code
    conectadas, cerradas, bloq, sem_io, pc_io, mano_io,
    orden, ordenes, interrupciones

hilos == <<pc, mano, segundo>>
plan == <<debe_planificar, esta_planificando>>
procesos == <<generador_pid, libre, pcb>>
cpu == <<a_cpu, de_cpu, ret, vueltas>>
quantum == <<tiempo, relojes, mutex_exec>>
memoria == <<mutex_envio_memoria, rta_memoria>>
recursos == <<indice, instancias, leido>>
io == <<conectadas, cerradas, bloq, sem_io, pc_io, mano_io>>
consola == <<orden, ordenes, interrupciones>>
vars == <<vivo, hilos, plan, procesos, cola, sem, grado, cpu, quantum, memoria,
          recursos, io, consola>>

-----------------------------------------------------------------------------
(* Operations of the threads.                                              *)

\* Thread h moves from one label to another.
Paso(h, de, a) ==
    /\ vivo /\ vivo' = vivo
    /\ pc[h] = de
    /\ pc' = [pc EXCEPT ![h] = a]

Toma(h, o) == mano' = [mano EXCEPT ![h] = o]

\* The attending thread ends its turn: its locals go out of scope.
SueltaVuelta == Toma("vuelta", Nulo) /\ ret' = SinRetorno

\* The process dereferences NULL: every thread stops where it is.
Cae == /\ vivo /\ vivo' = FALSE
       /\ UNCHANGED <<hilos, plan, procesos, cola, sem, grado, cpu, quantum, memoria,
                      recursos, io, consola>>

\* pop_con_mutex: the first element, NULL when the list is empty.
Primero(s) == IF s = <<>> THEN Nulo ELSE Head(s)
Resto(s) == IF s = <<>> THEN s ELSE Tail(s)
Sacar(q) == cola' = [cola EXCEPT ![q] = Resto(@)]

\* push_con_mutex.
Empujar(q, o) == cola' = [cola EXCEPT ![q] = Append(@, o)]

\* sem_post and sem_wait on one semaphore.
Post(s) == sem' = [sem EXCEPT ![s] = @ + 1]
Wait(s) == sem[s] > 0 /\ sem' = [sem EXCEPT ![s] = @ - 1]

\* cambiar_estado.
CambiarEstado(o, e) == pcb' = [pcb EXCEPT ![o].estado = e]

\* enviar_pcb to the CPU: the bytes sent come back as a new PCB object.
EnviarPCB(o) ==
    /\ libre \in Objs
    /\ pcb' = [pcb EXCEPT ![libre] = pcb[o]]
    /\ libre' = libre + 1
    /\ a_cpu' = Append(a_cpu, libre)

\* procesar_vuelta_blocked_a_ready: the state and the queue an unblocked process
\* may get. Under VRR every case but GENERICA reads proceso_a_atender_gen, which
\* that case alone assigns: either branch may be taken, or the read may fault.
Vuelve(tipo, o) ==
    LET lleno == [estado |-> "READY", cola |-> IF tipo = "RECURSOVT" THEN "ready_aux" ELSE "ready"]
        resto == [estado |-> "READY_AUX", cola |-> "ready_aux"]
    IN CASE Algoritmo # "VRR" -> {lleno}
         [] Algoritmo = "VRR" /\ tipo = "GENERICA" -> {IF pcb[o].pleno THEN lleno ELSE resto}
         [] OTHER -> {lleno, resto}
LeeSinAsignar(tipo) == Algoritmo = "VRR" /\ tipo # "GENERICA"

Init ==
    /\ vivo = TRUE
    /\ pc = [h \in Hilos |-> IF h = "consola" THEN "lee" ELSE "sin_crear"]
    /\ mano = [h \in Hilos |-> Nulo]
    /\ segundo = [h \in {"salida", "vuelta"} |-> Nulo]
    /\ debe_planificar = FALSE /\ esta_planificando = FALSE
    /\ generador_pid = 1 /\ libre = 1
    /\ pcb = [o \in Objs |-> [pid |-> 0, estado |-> "NEW", pleno |-> TRUE]]
    /\ cola = [q \in Colas |-> <<>>]
    /\ \E n \in MultiInicial :
         /\ grado = n
         /\ sem = [s \in Semaforos |-> CASE s = "multiprogramacion" -> n
                                         [] s = "despachar" -> 1
                                         [] OTHER -> 0]
    /\ a_cpu = <<>> /\ de_cpu = <<>> /\ vueltas = 0
    /\ ret = SinRetorno
    /\ tiempo = "cero" /\ relojes = 0 /\ mutex_exec = "libre"
    /\ mutex_envio_memoria = "libre" /\ rta_memoria = "nada"
    /\ indice = 1 /\ instancias = InstanciasPrimero
    /\ leido = [h \in {"salida", "vuelta"} |-> 0]
    /\ conectadas = {} /\ cerradas = {}
    /\ bloq = [i \in Interfaces |-> <<>>]
    /\ sem_io = [i \in Interfaces |-> 0]
    /\ pc_io = [i \in Interfaces |-> "sin_crear"]
    /\ mano_io = [i \in Interfaces |-> SinBloque]
    /\ orden = SinOrden
    /\ ordenes = 0 /\ interrupciones = 0
=============================================================================
