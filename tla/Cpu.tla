-------------------------------- MODULE Cpu --------------------------------
(***************************************************************************)
(* The CPU (cpu.c): three threads that pass one global PCB from hand to    *)
(* hand. "dispatch" receives it from the kernel, "ciclo" fetches and       *)
(* executes, "interrupcion" writes the motive that check_interrupt reads   *)
(* after each instruction. sem_recibir_pcb and sem_execute say who may use *)
(* the PCB; the instruction and check_interrupt both post them.            *)
(*                                                                         *)
(* A PCB is the number of its dispatch. Registers and addresses are left   *)
(* out (see Mmu and Acceso); instructions with the same flags,      *)
(* posts and messages are one class.                                       *)
(***************************************************************************)
EXTENDS Integers, Sequences

CONSTANTS
    MaxDespachos,       \* bound: PCBs the kernel sends
    MaxInterrupciones,  \* bound: interruptions the kernel sends
    MaxCierres,         \* bound: times the kernel closes the dispatch connection
    MaxRaras,           \* bound: messages and instructions handled that are not Conformes
    OpDespacho,         \* op codes of a dispatch: kernel.c sends CODE_PCB (890) and PCBBITO (757)
    Escucha,            \* fate of what is written to the listening socket fd_cpu_dispatch
    PideInstruccion     \* FALSE as cpu.c 109 stands (commented out), TRUE as memoria.c 203 expects

\* The instructions whose code posts one semaphore between them and check_interrupt.
Conformes == {"registros", "io_gen_sleep", "exit", "otra"}

ASSUME CpuOK ==
    /\ MaxDespachos \in Nat /\ MaxInterrupciones \in Nat /\ MaxCierres \in Nat /\ MaxRaras \in Nat
    /\ OpDespacho \subseteq {"PCBBITO", "CODE_PCB"}
    /\ Escucha \subseteq {"llega", "pierde", "sigpipe"}
    /\ PideInstruccion \in BOOLEAN

VARIABLES
    vivo,                   \* FALSE once the process has died
    pc,                     \* next step of each thread
    sem_recibir_pcb, sem_execute,
    PCB,                    \* the global PCB; 0 is NULL
    checks,                 \* calls of check_interrupt the instruction still has to make
    es_exit, es_bloqueante,
    interrupcion_actual,    \* "NULL", "basura" (as malloc gave it) or a motive
    hay_interrupcion_x_consola,
    a_dispatch, a_interrupt,            \* sent by the kernel and not yet read
    enviados, interrumpidas, cierres,   \* what the kernel has sent so far
    vueltas,                \* PCBs sent back to the kernel, with their motive
    raras                   \* history: messages and instructions handled that are not Conformes

semaforos == <<sem_recibir_pcb, sem_execute>>
banderas == <<es_exit, es_bloqueante>>
interr == <<interrupcion_actual, hay_interrupcion_x_consola>>
kernel == <<a_dispatch, a_interrupt, enviados, interrumpidas, cierres>>
vars == <<vivo, pc, semaforos, PCB, checks, banderas, interr, kernel, vueltas, raras>>

Init ==
    /\ vivo = TRUE
    /\ pc = [dispatch |-> "espera", ciclo |-> "espera", interrupcion |-> "accept"]
    /\ sem_recibir_pcb = 1 /\ sem_execute = 0
    /\ PCB = 0 /\ checks = 0
    /\ es_exit = FALSE /\ es_bloqueante = FALSE
    /\ interrupcion_actual = "NULL" /\ hay_interrupcion_x_consola = FALSE
    /\ a_dispatch = <<>> /\ a_interrupt = <<>>
    /\ enviados = 0 /\ interrumpidas = 0 /\ cierres = 0
    /\ vueltas = <<>> /\ raras = 0

-----------------------------------------------------------------------------
Paso(h, de, a) ==
    /\ vivo /\ vivo' = vivo
    /\ pc[h] = de /\ pc' = [pc EXCEPT ![h] = a]

Anota(k) ==
    IF k \in Conformes THEN UNCHANGED raras ELSE raras < MaxRaras /\ raras' = raras + 1

\* SIGSEGV or SIGPIPE: the three threads are gone.
Muere == vivo' = FALSE /\ UNCHANGED <<pc, semaforos, PCB, checks, banderas, interr, vueltas>>

\* enviar_pcb to the kernel.
EnviaPCB(motivo) == vueltas' = Append(vueltas, [pcb |-> PCB, motivo |-> motivo])

Banderas(exit, bloqueante) == es_exit' = exit /\ es_bloqueante' = bloqueante

\* Neither the instruction nor an interruption has given the PCB away: the test that
\* both halves of check_interrupt make (es_wait, es_resize and error_memoria are never
\* set in cpu.c, so the branches below them are not reached).
SigueEnCPU == ~es_exit /\ ~es_bloqueante

-----------------------------------------------------------------------------
(* The kernel. It dispatches when it has back what it sent (Alternancia in *)
(* Kernel), and interrupts at any time: timers and kills do not ask.       *)

KernelDespacha(op) ==
    /\ vivo /\ enviados < MaxDespachos /\ Len(vueltas) >= enviados
    /\ enviados' = enviados + 1
    /\ a_dispatch' = Append(a_dispatch, [op |-> op, pcb |-> enviados + 1])
    /\ UNCHANGED <<vivo, pc, semaforos, PCB, checks, banderas, interr, a_interrupt,
                   interrumpidas, cierres, vueltas, raras>>

KernelInterrumpe(motivo) ==
    /\ vivo /\ interrumpidas < MaxInterrupciones
    /\ interrumpidas' = interrumpidas + 1
    /\ a_interrupt' = Append(a_interrupt, motivo)
    /\ UNCHANGED <<vivo, pc, semaforos, PCB, checks, banderas, interr, a_dispatch,
                   enviados, cierres, vueltas, raras>>

KernelCierra ==
    /\ vivo /\ cierres < MaxCierres
    /\ cierres' = cierres + 1
    /\ a_dispatch' = Append(a_dispatch, [op |-> "cierre", pcb |-> 0])
    /\ UNCHANGED <<vivo, pc, semaforos, PCB, checks, banderas, interr, a_interrupt,
                   enviados, interrumpidas, vueltas, raras>>

-----------------------------------------------------------------------------
(* dispatch                                                                *)

DispatchEspera ==
    /\ Paso("dispatch", "espera", "recibe")
    /\ sem_recibir_pcb > 0 /\ sem_recibir_pcb' = sem_recibir_pcb - 1
    /\ UNCHANGED <<sem_execute, PCB, checks, banderas, interr, kernel, vueltas, raras>>

Lee(op) == a_dispatch # <<>> /\ Head(a_dispatch).op = op /\ a_dispatch' = Tail(a_dispatch)

DispatchRecibe ==
    /\ Paso("dispatch", "recibe", "espera")
    /\ Lee("PCBBITO")
    /\ PCB' = Head(a_dispatch).pcb
    /\ sem_execute' = sem_execute + 1
    /\ UNCHANGED <<sem_recibir_pcb, checks, banderas, interr, a_interrupt, enviados,
                   interrumpidas, cierres, vueltas, raras>>

\* -1 (accepts another client) and an op code it does not know: back to the top of the
\* loop, where it waits for a semaphore that nobody posts for this turn.
DispatchDescarta ==
    /\ \/ Paso("dispatch", "recibe", "accept") /\ Lee("cierre") /\ Anota("cierre")
       \/ Paso("dispatch", "recibe", "espera") /\ Lee("CODE_PCB") /\ Anota("CODE_PCB")
    /\ UNCHANGED <<semaforos, PCB, checks, banderas, interr, a_interrupt, enviados,
                   interrumpidas, cierres, vueltas>>

DispatchAcepta ==
    /\ Paso("dispatch", "accept", "espera")
    /\ UNCHANGED <<semaforos, PCB, checks, banderas, interr, kernel, vueltas, raras>>

-----------------------------------------------------------------------------
(* interrupcion                                                            *)

\* accept, then malloc: the motive is not initialised.
InterrupcionAcepta ==
    /\ Paso("interrupcion", "accept", "recibe")
    /\ interrupcion_actual' \in {"FIN_QUANTUM", "basura"}
    /\ UNCHANGED <<semaforos, PCB, checks, banderas, hay_interrupcion_x_consola, kernel,
                   vueltas, raras>>

InterrupcionLee == a_interrupt # <<>> /\ a_interrupt' = Tail(a_interrupt)

InterrupcionEscribe ==
    /\ Paso("interrupcion", "recibe", "recibe") /\ InterrupcionLee
    /\ ~hay_interrupcion_x_consola /\ interrupcion_actual # "NULL"
    /\ interrupcion_actual' = Head(a_interrupt)
    /\ hay_interrupcion_x_consola' = (Head(a_interrupt) = "EXIT_CONSOLA")
    /\ UNCHANGED <<semaforos, PCB, checks, banderas, a_dispatch, enviados, interrumpidas,
                   cierres, vueltas, raras>>

\* Nothing in reach sets the flag back: after one kill every interruption is dropped.
InterrupcionIgnora ==
    /\ Paso("interrupcion", "recibe", "recibe") /\ InterrupcionLee
    /\ hay_interrupcion_x_consola
    /\ UNCHANGED <<semaforos, PCB, checks, banderas, interr, a_dispatch, enviados,
                   interrumpidas, cierres, vueltas, raras>>

\* Writes through the pointer that liberar_interrupcion_actual left NULL.
InterrupcionCae ==
    /\ vivo /\ pc["interrupcion"] = "recibe" /\ InterrupcionLee
    /\ ~hay_interrupcion_x_consola /\ interrupcion_actual = "NULL"
    /\ Muere
    /\ UNCHANGED <<a_dispatch, enviados, interrumpidas, cierres, raras>>

-----------------------------------------------------------------------------
(* ciclo: fetch, decode and execute. What an instruction does between the  *)
(* answer of the memory and its last message or post is one step; the      *)
(* other threads see nothing of it until then.                             *)

CicloEspera ==
    /\ Paso("ciclo", "espera", "fetch")
    /\ sem_execute > 0 /\ sem_execute' = sem_execute - 1
    /\ UNCHANGED <<sem_recibir_pcb, PCB, checks, banderas, interr, kernel, vueltas, raras>>

\* prox_instruccion has its answer, decode goes to the case of the instruction.
Ejecuta(clase, a) ==
    /\ PideInstruccion
    /\ Paso("ciclo", "fetch", a) /\ Anota(clase)
    /\ UNCHANGED <<sem_execute, PCB, interr, kernel>>

\* SET, SUM, SUB, JNZ.
Registros ==
    /\ Ejecuta("registros", "check")
    /\ Banderas(FALSE, FALSE) /\ checks' = 1
    /\ UNCHANGED <<sem_recibir_pcb, vueltas>>

\* MOV_IN, MOV_OUT: check_interrupt is called by the instruction and again by decode.
Mov ==
    /\ Ejecuta("mov", "check")
    /\ Banderas(FALSE, FALSE) /\ checks' = 2
    /\ UNCHANGED <<sem_recibir_pcb, vueltas>>

\* RESIZE: decode makes no check_interrupt, whatever the memory answers; when the
\* request does not arrive there is no answer and the thread stays in recv.
Resize ==
    /\ \/ /\ "llega" \in Escucha
          /\ Ejecuta("resize", "espera")
          /\ \/ Banderas(FALSE, FALSE) /\ UNCHANGED vueltas
             \/ Banderas(TRUE, FALSE) /\ EnviaPCB("SIN_MEMORIA")
       \/ /\ "pierde" \in Escucha
          /\ Ejecuta("resize", "recv")
          /\ UNCHANGED <<banderas, vueltas>>
    /\ UNCHANGED <<sem_recibir_pcb, checks>>

\* COPY_STRING: the memory knows no op code COPY, leaves the connection and never answers.
CopyString ==
    /\ Ejecuta("copy_string", "recv")
    /\ UNCHANGED <<sem_recibir_pcb, checks, banderas, vueltas>>

\* IO_GEN_SLEEP.
\* Mutant: es_bloqueante is left as it was.
IoGenSleepSinBandera ==
    /\ Ejecuta("io_gen_sleep", "check")
    /\ es_exit' = FALSE /\ UNCHANGED es_bloqueante /\ checks' = 1
    /\ EnviaPCB("SOLICITAR_INTERFAZ_GENERICA")
    /\ sem_recibir_pcb' = sem_recibir_pcb + 1

IoGenSleep ==
    /\ Ejecuta("io_gen_sleep", "check")
    /\ Banderas(FALSE, TRUE) /\ checks' = 1
    /\ EnviaPCB("SOLICITAR_INTERFAZ_GENERICA")
    /\ sem_recibir_pcb' = sem_recibir_pcb + 1

\* IO_STDIN_READ, IO_STDOUT_WRITE: the package goes to the listening socket.
IoStd ==
    /\ Ejecuta("io_std", "check")
    /\ Banderas(FALSE, TRUE) /\ checks' = 1
    /\ \/ "llega" \in Escucha /\ EnviaPCB("SOLICITAR_STDIN")
       \/ "pierde" \in Escucha /\ UNCHANGED vueltas
    /\ sem_recibir_pcb' = sem_recibir_pcb + 1

\* IO_FS_*: empty cases.
IoFs ==
    /\ Ejecuta("io_fs", "espera")
    /\ UNCHANGED <<sem_recibir_pcb, checks, banderas, vueltas>>

\* Mutant of Exit: no sem_post.
ExitSinPost ==
    /\ Ejecuta("exit", "check")
    /\ es_exit' = TRUE /\ UNCHANGED es_bloqueante /\ checks' = 1
    /\ EnviaPCB("EXITO")
    /\ UNCHANGED sem_recibir_pcb

Exit ==
    /\ Ejecuta("exit", "check")
    /\ es_exit' = TRUE /\ UNCHANGED es_bloqueante /\ checks' = 1
    /\ EnviaPCB("EXITO")
    /\ sem_recibir_pcb' = sem_recibir_pcb + 1

\* ejecutar_error: an instruction that decode does not know.
Otra ==
    /\ Ejecuta("otra", "espera")
    /\ EnviaPCB("EXIT_CONSOLA")
    /\ sem_recibir_pcb' = sem_recibir_pcb + 1
    /\ UNCHANGED <<checks, banderas>>

\* WAIT and SIGNAL: enviar_pcb takes strlen of the NULL it is given for the resource.
\* RESIZE and the interfaces: SIGPIPE, when that is what the socket does.
EjecutaYMuere ==
    /\ vivo /\ PideInstruccion /\ pc["ciclo"] = "fetch"
    /\ Muere
    /\ \/ Anota("recurso")
       \/ "sigpipe" \in Escucha /\ (Anota("resize") \/ Anota("io_std"))
    /\ UNCHANGED kernel

-----------------------------------------------------------------------------
(* check_interrupt. The thread looks at interrupcion_actual with no mutex. *)

DespuesDelCheck == IF checks = 1 THEN "espera" ELSE "check"

\* Mutant of CheckSinInterrupcion: sem_execute is posted whatever the flags say.
CheckSiemprePost ==
    /\ Paso("ciclo", "check", DespuesDelCheck)
    /\ interrupcion_actual = "NULL" /\ checks' = checks - 1
    /\ sem_execute' = sem_execute + 1
    /\ UNCHANGED <<sem_recibir_pcb, PCB, banderas, interr, kernel, vueltas, raras>>

CheckSinInterrupcion ==
    /\ Paso("ciclo", "check", DespuesDelCheck)
    /\ interrupcion_actual = "NULL" /\ checks' = checks - 1
    /\ sem_execute' = IF SigueEnCPU THEN sem_execute + 1 ELSE sem_execute
    /\ UNCHANGED <<sem_recibir_pcb, PCB, banderas, interr, kernel, vueltas, raras>>

\* FIN_QUANTUM and the end of the process have a branch each, and both send FIN_QUANTUM.
\* Mutant of CheckDesaloja: the flags are not looked at.
CheckDesalojaSiempre ==
    /\ Paso("ciclo", "check", "libera")
    /\ interrupcion_actual # "NULL"
    /\ EnviaPCB("FIN_QUANTUM")
    /\ sem_recibir_pcb' = sem_recibir_pcb + 1
    /\ UNCHANGED <<sem_execute, PCB, checks, banderas, interr, kernel, raras>>

CheckDesaloja ==
    /\ Paso("ciclo", "check", "libera")
    /\ interrupcion_actual # "NULL" /\ SigueEnCPU
    /\ EnviaPCB("FIN_QUANTUM")
    /\ sem_recibir_pcb' = sem_recibir_pcb + 1
    /\ UNCHANGED <<sem_execute, PCB, checks, banderas, interr, kernel, raras>>

CheckYaDesalojado ==
    /\ Paso("ciclo", "check", "libera")
    /\ interrupcion_actual # "NULL" /\ ~SigueEnCPU
    /\ UNCHANGED <<semaforos, PCB, checks, banderas, interr, kernel, vueltas, raras>>

\* liberar_interrupcion_actual: what was written since the test is lost.
Libera ==
    /\ Paso("ciclo", "libera", DespuesDelCheck)
    /\ interrupcion_actual' = "NULL" /\ checks' = checks - 1
    /\ UNCHANGED <<semaforos, PCB, banderas, hay_interrupcion_x_consola, kernel, vueltas, raras>>

-----------------------------------------------------------------------------
Kernel ==
    \/ \E op \in OpDespacho : KernelDespacha(op)
    \/ \E motivo \in {"FIN_QUANTUM", "EXIT_CONSOLA"} : KernelInterrumpe(motivo)
    \/ KernelCierra

Dispatch == DispatchEspera \/ DispatchRecibe \/ DispatchDescarta \/ DispatchAcepta

Interrupcion ==
    \/ InterrupcionAcepta \/ InterrupcionEscribe \/ InterrupcionIgnora \/ InterrupcionCae

Check == CheckSinInterrupcion \/ CheckDesaloja \/ CheckYaDesalojado \/ Libera

Instruccion ==
    \/ Registros \/ Mov \/ Resize \/ CopyString \/ IoGenSleep \/ IoStd \/ IoFs
    \/ Exit \/ Otra \/ EjecutaYMuere

Next == Kernel \/ Dispatch \/ Interrupcion \/ CicloEspera \/ Instruccion \/ Check

Spec == Init /\ [][Next]_vars

\* A thread that can go on is run. SF(Exit) is an assumption on the programs: a script
\* that is fetched again and again reaches its EXIT.
SpecJusta ==
    /\ Spec
    /\ WF_vars(Dispatch) /\ WF_vars(CicloEspera \/ Check) /\ WF_vars(Instruccion)
    /\ SF_vars(Exit)

-----------------------------------------------------------------------------
(* Properties.                                                             *)

TypeOK ==
    /\ vivo \in BOOLEAN
    /\ pc \in [{"dispatch", "ciclo", "interrupcion"} ->
                 {"espera", "recibe", "accept", "fetch", "recv", "check", "libera"}]
    /\ sem_recibir_pcb \in Nat /\ sem_execute \in Nat
    /\ PCB \in Nat /\ checks \in Nat
    /\ es_exit \in BOOLEAN /\ es_bloqueante \in BOOLEAN
    /\ interrupcion_actual \in {"NULL", "basura", "FIN_QUANTUM", "EXIT_CONSOLA"}
    /\ hay_interrupcion_x_consola \in BOOLEAN
    /\ a_dispatch \in Seq([op: {"PCBBITO", "CODE_PCB", "cierre"}, pcb: Nat])
    /\ a_interrupt \in Seq({"FIN_QUANTUM", "EXIT_CONSOLA"})
    /\ enviados \in Nat /\ interrumpidas \in Nat /\ cierres \in Nat
    /\ vueltas \in Seq([pcb: Nat, motivo: {"EXITO", "EXIT_CONSOLA", "FIN_QUANTUM", "SIN_MEMORIA",
                                           "SOLICITAR_INTERFAZ_GENERICA", "SOLICITAR_STDIN"}])
    /\ raras \in Nat

\* Only Conformes have run, and no message took the turn of dispatch without a PCB.
EnRegla == vivo /\ raras = 0

CicloTiene == pc["ciclo"] = "fetch" \/ (pc["ciclo"] = "check" /\ SigueEnCPU)

Uno(b) == IF b THEN 1 ELSE 0

\* While only such instructions have run, exactly one of the four holds the PCB: the
\* dispatch thread (to fill it), a semaphore, or the cycle (to execute with it). Two
\* tokens are two threads on one PCB, none is a CPU that stops. Each instruction and
\* each branch of check_interrupt has to post once between them, interrupted or not.
FichaUnica ==
    EnRegla => sem_recibir_pcb + sem_execute + Uno(pc["dispatch"] = "recibe") + Uno(CicloTiene) = 1

\* And the PCBs go back each once, in the order they came, none overwritten before it
\* is sent (comment of cpu.c 966: "se sabe que no se desalojo al proceso previamente").
VueltasEnOrden ==
    EnRegla => /\ \A k \in DOMAIN vueltas : vueltas[k].pcb = k
               /\ sem_execute > 0 \/ CicloTiene => PCB = Len(vueltas) + 1

\* The CPU keeps the turn that the kernel's scheduler is built on.
Turno == INSTANCE TurnoCPU WITH
    turno <- IF ~EnRegla THEN "fuera" ELSE IF sem_execute > 0 \/ CicloTiene THEN "ocupada" ELSE "libre",
    devueltos <- Len(vueltas)

CumpleElTurno == Turno!Spec

\* Every process that is dispatched comes back.
TodoDespachoVuelve ==
    \A n \in 1..MaxDespachos : enviados >= n ~> (Len(vueltas) >= n \/ ~EnRegla)

=============================================================================
