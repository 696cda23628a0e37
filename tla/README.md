# Verification of the operating-system simulator (kernel, CPU, memory, I/O)

Four programs written in C play the parts of a computer and talk over TCP:
`kernel` schedules processes, `cpu` runs their instructions, `memoria` keeps
their instructions, page tables and frames, and each `entradasalida` is one I/O
interface. `utils` holds the message format and the socket wrappers. This
directory keeps TLA+ models of that code, the TLC runs that check them and the
theorems that TLAPS checks. `PROJECT.json` maps each definition to the lines it
models; line numbers below refer to those files.

All four programs are modelled: the kernel with its threads, the memory's
processes, page tables and frames, the CPU's threads and its MMU, the program of
an interface, the formats of the messages, and, across the programs, who reads
and writes the memory of whom.

## Inventory

| component | state it keeps | operations | talks to |
|---|---|---|---|
| kernel, console (`kernel.c` 88-353) | `generador_pid`, `debe_planificar`, `esta_planificando` | INICIAR/FINALIZAR_PROCESO, INICIAR/DETENER_PLANIFICACION, MULTIPROGRAMACION, PROCESO_ESTADO, scripts | the schedulers (lists and semaphores), memory, CPU (interrupt) |
| kernel, long term (405-532) | `cola_new`, `cola_exit`, `sem_multiprogramacion` | admit a process, free one that ended and its resources | memory (shares the console's socket) |
| kernel, short term (549-712, 873-982) | `cola_ready`, `cola_ready_aux`, `cola_exec`, `sem_despachar`, `sem_atender_rta`, quantum timers | dispatch, attend the CPU's answer, time out | CPU (dispatch and interrupt sockets) |
| kernel, resources (426-445, 720-841) | `instancias` and queue of each resource | WAIT, SIGNAL, give back at exit | the short and long-term schedulers |
| kernel, interfaces (1037-1341) | list of interfaces; queue and semaphore of each | connect, serve a request, disconnect | entradasalida, the schedulers |
| memory (`memoria.c`) | `lista_de_procesos`, page tables, `frames_array`, `memoriaPrincipal` | create and end a process, instruction, frame, resize, read, write | one thread for each connection |
| CPU (`cpu.c`) | registers, PCB, `interrupcion_actual`, TLB | fetch, decode, execute, check interrupt; MMU | kernel (2 sockets), memory |
| interface (`entradasalida.c`) | the request it is serving | GENERICA, STDIN, STDOUT (DialFS is a stub) | kernel, memory |
| utils (`protocolo.c`, `socket.c`) | none | packages, PCB and request formats, sockets | everything |

What is hard in each: in the kernel, five long-lived threads and one more for
each interface and quantum, over some ten lists, with the turn of the CPU
passed by two semaphores posted in many places; kills and disconnections at any
moment; two threads on one socket. In the memory, two threads over one list and
one bit array, with mutexes released between a test and the use of what it
said. In the CPU, the flags and semaphores by which an instruction and the
interrupt check decide who gives the process back, and a TLB that must agree
with page tables in another program. In an interface, translations that were
made by the CPU and are used much later, while the process may be killed and its
frames given to another. In the protocol, fields counted by hand on both sides.

What makes each correct: a process is in one place and moves only along its
life cycle; one process on the CPU; the degree of multiprogramming is exact;
answers reach who asked; every process started ends (kernel). A frame is in one
row of one table; a page that stays keeps its frame; OK means the pages are
there; requests are answered (memory). The PCB has one owner among the threads
and goes back once for each dispatch (CPU). A translation is of the process and
of the page that asked, and the bytes of an access are taken once, in order
(MMU). What an interface reads or writes is in frames of the process that asked;
nobody has two requests; each is answered (interfaces). A reader takes from a
message what its writer put (protocol). `PROJECT.json` lists the hazards, line by line.

## Modules

`KernelEstado` declares the constants and variables of the kernel and the
operations all its threads use. Each of `KernelConsola`, `KernelLargoPlazo`,
`KernelCortoPlazo`, `KernelRecursos` and `KernelInterfaces` has the actions of
one part; `Kernel` composes them, adds fairness and states the properties.
`CicloDeVida` is the abstract specification, and `MCKernel` has the values for
TLC. The proofs are in `KernelTipos` (types), `KernelPruebas` (the turn, the
semaphores, the memory socket), `KernelLugares` (what each thread does to the
places where a process can be) and `KernelCicloPruebas` (what follows from that).

| module | models | abstract specification | values for TLC | proofs |
|---|---|---|---|---|
| `Kernel` and the six it extends | `kernel.c` | `CicloDeVida` | `MCKernel` | `KernelTipos`, `KernelPruebas`, `KernelLugares`, `KernelCicloPruebas` |
| `Memoria` | `memoria.c` | `Paginas` | `MCMemoria` | `MemoriaPruebas` |
| `Cpu` | threads of `cpu.c` | `TurnoCPU` | `MCCpu` | `CpuPruebas` |
| `Mmu` | MMU and TLB of `cpu.c` (operators) | | | in `AccesoPruebas` |
| `EntradaSalida` | `entradasalida.c` (actions of one interface) | | | in `AccesoPruebas` |
| `Acceso` | composition: `Paginas`, `Mmu`, `EntradaSalida`, the kernel's thread for each interface | | `MCAcceso` | `AccesoPruebas` |
| `Protocolo` | `protocolo.c` and both ends of its packages (operators) | | | `ProtocoloPruebas` |

How they fit together: `Kernel` assumes of the CPU only that it gives back what
it was sent (`CPUDevuelve`); `Cpu` assumes of the kernel only that it sends a PCB
when it has back the one before, which is `Alternancia`; `TurnoCPU` is that turn
as the scheduler needs it, and `Cpu` implements it. `Acceso` uses the memory as
`Paginas`, which `Memoria` implements, and messages that arrive as they were
packed, which `ProtocoloPruebas` proves for a process with fifteen resources (and
for no other, see *What the code does*).

State and actions correspond to the code as follows.

* `pc[h]` is where thread `h` is; `mano[h]` and `segundo[h]` are the PCB
  pointers in its locals. An action is the code between two points where
  another thread can see or change something: a wait on a semaphore, a mutex, a
  message, a read of a shared variable that is used later. `list_add` followed
  by `sem_post`, and `sem_wait` followed by the pop it protects, are one action
  where no test of another thread can fall between the two.
* `cola[q]` are the lists, `sem[s]` the semaphores, `pcb[o]` the objects
  `crear_pcb` and `guardar_datos_del_pcb` allocate. A PCB that goes to the CPU
  comes back as another object with the same PID (`EnviarPCB`), so old pointers
  in `cola_exec` and `cola_block` stay, as in the code.
* `a_cpu`, `de_cpu` are the dispatch socket; `rta_memoria` with
  `mutex_envio_memoria` the memory socket; `relojes` the quantum timers that
  were started and have not ended; `bloq[i]`, `sem_io[i]`, `pc_io[i]` belong to
  interface `i`.
* `vivo = FALSE` once a NULL pointer has been dereferenced (`Cae`). What the C
  code leaves undefined is a choice of its outcomes: the not-found branch of a
  kill (105-137) and the uninitialised pointer read under VRR (1213, 1229, 1245).
* In `Memoria` the thread of the kernel's connection and that of the CPU's
  interleave; `tabla[p]` is a page table, `frames` the bits set. The kernel
  ends a process that the CPU has given back: `FinalizarProceso` and
  `Atendible` keep the two threads on different processes. This is an
  assumption about the kernel, which `UnSoloLugar` and `NuncaDoble` support (a
  process that procesos_en_exit has in hand is not in EXEC) and a kill of a
  blocked process, which may come back to READY later, does not keep.

* In `Cpu` a PCB is the number of its dispatch. An action of `ciclo` is an
  instruction, from the answer to its fetch to its last message or post, and then
  each call of `check_interrupt` in two steps, the test and
  `liberar_interrupcion_actual`, since the interrupt thread writes in between.
  Instructions with the same flags, posts and messages are one action. `raras`
  counts what was handled that does not post exactly once (below).
* In `Acceso` scheduling is only the state of each process: `Kernel` has its
  threads. A physical address is its frame and its offset. RESIZE moves one page
  at a time, as `Paginas` does. `mov` are the pieces that a MOV has still to do,
  `bloq[i]` and `mano[i]` the requests the kernel has for interface `i`,
  `de_kernel[i]`, `a_kernel[i]` its socket, `tarea[i]` the request it serves.
  `pc_k[i]` goes round the loop of 1121-1149: `tope` reads `debe_planificar`,
  `toma` waits for a request and sends it, `recibe` waits for the answer,
  `desconecta` and `vacia` are the teardown (1280-1312), `liberada` the loop that
  goes on after it with what was freed. The operator turns `debe_planificar` off
  and on at any moment. An interface may close, as a thread of its own that asks
  nobody: then a send fails or is lost, and recv finds the connection closed.
  `cola_block` are the processes whose PCB that list still holds. Nothing but a
  kill takes one out, so a process that was refused (the answer 0, 1140-1143, goes
  to `cola_exit` with the state BLOCKED it had) can be ended a second time. A
  process that is dispatched again comes back as another PCB, and a kill that finds
  the old one, in EXEC, only interrupts: `Despacha` takes it out.
  `dudosos` is a history variable: processes killed with a request pending or
  shrunk while the TLB had the frame they lost.

Left out, as no property depends on it: logging, `motivo` where nothing reads
it, command parsing, instruction contents, the values of registers and of bytes
in memory, sleeping times.

Reading conventions. The commit does not build as it is (for instance `sizof` in
`protocolo.c`, `=!` in `cpu.c` 838, `solicitar_frame_memory` with two
arguments), so where the code cannot mean what it says literally the models take
the evident meaning: storage that is used before it is allocated or initialised
(the PCB of 160, the list `cola_exec`, the semaphores of an interface, 1075, the
mutexes and the list of the memory) is taken as initialised, `sizeof` of a
pointer in a `malloc` as the size of the object, an int passed for a pointer
(1128, 1158) as its value, `=!` as `!=`, and both names of the page size in
`cpu.c` as the page size of the memory. `sem_destroy` does nothing, as in glibc.
The script accepts `INICIAR_PLANIFICACION` and the console `INICIAR_PLANIFICAION`
(239, 264, 296): both are the same command here.

Constants say how a program behaves where what is committed does not keep its
side, so that what comes after it can be checked too:

* `MemoriaContesta`: FALSE is `memoria.c` as it is (281-327 answers neither
  request of the kernel), TRUE what `kernel.c` waits for (96, 420). With FALSE the
  console and `procesos_en_exit` stop at their first request; the runs take TRUE.
* `CPURecibe`: likewise for the op code of the dispatch (890 against 757).
* `PideInstruccion`: FALSE is `cpu.c` 109, commented out; no instruction is ever
  fetched. The run takes TRUE.
* `Escucha`: `cpu.c` 460, 563 and 594 write to the listening socket. What becomes
  of that is one of three fates, and the run has all of them.
* `SaleSiConecta`: TRUE is `entradasalida.c` 28, which exits when it has
  connected. The runs take FALSE, which is what its log says.

Every resource lookup finds the first resource: 827-829 copy the name out of
the struct itself, so the comparison of 787 is of a name with itself. The model
has one queue and counts `Recursos` only for the loop at exit.

## Runs

All runs of the kernel switch the deadlock check off: it waits for input and
the operator may stop giving it, and the bounds end every behaviour. In the
memory the clients may stop. That threads do not wait for one another for ever
is what the liveness properties say.

| run | what is varied | checks | states |
|---|---|---|---|
| `kernel_base` | VRR, two interfaces, two processes | `Tipado`, `Alternancia`, `UnSoloLugar`, `CuposExactos` | 435 thousand |
| `kernel_ciclo` | FIFO, degree changes, fairness | `CumpleElCiclo` (refinement), `TodoTermina`, `SinCaida` | 53 thousand |
| `kernel_matar` | RR, every command, CPU errors | `Alternancia`, `RespuestaDeQuienPidio` | 861 thousand |
| `kernel_interfaces` | FIFO, two interfaces refuse and leave, and get what they do not do | `NuncaDoble`, `PedidosRespaldados` | 654 thousand |
| `kernel_recursos` | VRR, three processes, one resource | `UnSoloLugar` | 974 thousand |
| `memoria` | 3 processes, 4 frames, resizes up to 5 pages | `TypeOK`, `MarcosExactos`, `ImplementaPaginas` (refinement), `TraduccionEstable`, `TodoPedidoResponde` | 409 thousand |
| `cpu` | every instruction, interruptions at any moment, a closed connection | `FichaUnica`, `VueltasEnOrden`, `CumpleElTurno` (refinement), `TodoDespachoVuelve` | 121 thousand |
| `acceso` | 2 processes, 2 frames, STDIN and STDOUT; resizes, accesses across pages, kills, planning stopped, the STDIN closes | `TypeOK`, `PiezasPropias`, `TlbAcotada`, `BytesEnOrden`, `PedidoUnico`, `TodoPedidoAvisa` | 408 thousand |

Four more runs find a property violated that a comment of the code states:

* `kernel_turno`: a WAIT that gets its resource sends the process back to the CPU
  (757), and `sem_despachar` is posted all the same (712). Nobody posts
  `sem_atender_rta` for the answer to come. (One that blocks posts `sem_despachar`
  at 753 and again at 712.)
* `kernel_cuelgue`: `reducir_quantum` locks one mutex twice (967, 969); the
  scheduler stops.
* `memoria_ajuste`: OK is sent for a resize that did not find its pages (631).
* `acceso_tlb`: the TLB hits for any page of the process (`cpu.c` 846), so the
  second page of an access is read from the frame of the first.

Each property of a passing run is also checked to fail on a mutant of the code
it is about; the mutated definitions stand before the originals and say which
bug they are.

### What the code does

Facts that shape the properties, as the models have them:

* Kernel. With kills, interfaces that leave or GENERICA answering 0, a process
  may be lost and its slot with it (570-586 has no case for EXIT_CONSOLA,
  1109-1114 drops the process), so `kernel_matar` and `kernel_interfaces` check
  what is left: the turn, the socket, no process in two places. A kill in NEW
  gives back a slot that was never taken (416). A kill in READY leaves the
  semaphore one too high and the dispatcher pops NULL; a process that gets a
  resource under FIFO or RR goes to a list that nobody reads there (1247). Both
  crashes are in the model as `ReadyVacia`, and `SinCaida` is checked where
  neither can happen. A process killed while BLOCKED is brought back to READY by
  the answer of its interface (1136). One whose request was answered 0 stays
  BLOCKED in `cola_block` after it has ended (1140-1143), so a kill ends it again.
  The type of an interface is not looked at for STDIN and STDOUT
  (`IOConfundeTipo`). After DETENER_PLANIFICACION no interface is served (1123),
  but for the thread that was already waiting for a request.
* Memory. While a page is being looked for, `buscar_instruccion` (343-358) runs
  past the end of the list if another process is removed: `BuscaFuera`, which ends
  the memory. The model keeps the two threads on different processes.
* CPU. WAIT and SIGNAL take the length of a NULL string and the process dies. MOV
  calls `check_interrupt` twice, RESIZE never, and COPY_STRING waits for an answer
  the memory does not give: the PCB then has two owners or none. A closed
  connection or an unknown op code costs `dispatch` its turn (80-86). An
  interruption that arrives when none was pending writes through NULL (904-917).
  After a kill every later interruption is dropped (911), and a killed process
  goes back as FIN_QUANTUM (985). `FichaUnica`, `VueltasEnOrden` and `TurnoCPU`
  say that nothing else breaks the turn: they hold until the first of these
  (`EnRegla`), for the instructions in `Conformes` and interruptions anywhere.
* MMU. Both replacement algorithms are FIFO, since "LRU" is compared as a
  pointer. The first entry is written through an unassigned pointer (860), so with
  a TLB the first translation may end the CPU (`TraduceYCae`); when it does not,
  the entry is added (`TlbDespues`). An access inside one page takes the
  rest of the page (755), and one of 0 bytes the byte before (717). RESIZE does
  not tell the TLB.
* Interfaces. IO_STDOUT_WRITE is sent with the motive of a STDIN (588) and always
  ends the process. `atender_STDIN` compares the answer of the memory the wrong
  way round (256): the first piece that was written counts as failed and the
  process is ended with the answer 0, unless its access has no pieces.
* Protocol. `fin_pcb` is three times the number of resources instead of 15 plus
  two times (133): the kernel finds the parameters of a PCB only when the process
  has fifteen resources (`FinPcbSoloConQuince`). The path and the PID of a new
  process change places (`DatosDelProcesoCruzados`), so the real memory finds no
  process by its PID; `Memoria` goes on as if it had received the one that was
  sent. `procesar_reajuste` reads a third field of two, and the
  element where the resources start is freed before it is read.

### Bounds

* `MaxProc` (2, or 3 for resources): two processes are enough for one to run
  while the other is created, killed, blocked or waiting for the slot; three
  put two in the queue of a resource while one holds it.
* `MaxVueltas` (0-2): answers of the CPU that do not end the process. One lets a
  process block or be preempted and come back; two let two do so. By hand,
  `kernel_base` was also run with 2: 3.88 million states, no error.
* `MaxOrdenes` (1-2): commands other than INICIAR_PROCESO. Two let the operator
  start the planning and then interfere. In `kernel_base`, `kernel_interfaces`
  and `kernel_recursos` the constraint `CargaPrimero` has every process
  started before the planning, as a script does; `kernel_ciclo` and
  `kernel_matar` have no such constraint.
* The degree starts below, at and above the number of processes in different
  runs, and `MultiInicial` is separate from `GradoConfig` because `sem_init` (54)
  gets a pointer where it takes the number.
* `memoria`: `MaxPaginas` exceeds `CantMarcos`, so OUTOFMEMORY happens; three
  processes let one be removed before and one after the one being sought.
* `cpu`: two dispatches, so that what the first leaves in the flags and in the
  pointer of the interruption meets the second; two interruptions, one while the
  other is being freed; one closed connection and one message or instruction that
  is not in `Conformes` (`MaxRaras`), after which the properties promise nothing.
* `acceso`: two processes compete for two frames of two bytes, so a frame passes
  from one to the other; a TLB of one entry is always full; from address 1, size 3
  (interfaces) and 4 (MOV) cross a page and size 1 does not. Other addresses, no
  bytes, and pieces that are neither first nor last are left to the theorems, which
  are for all of them. Two requests let one process wait behind another, or ask again
  after it was killed and came back. The STDIN may close (`PuedenCerrar`); the
  STDOUT stays. The constraint `Cotas` stops where a program has died, where a second
  process gets into `dudosos` or a third end waits in `cola_exit`, has the interfaces
  connected before a process runs (`ConectanPrimero`), and lets the operator stop the
  planning only outside a MOV and while both interfaces are open (`ParaAntes`): nothing
  else reads `debe_planificar` then. Liveness is checked on the behaviours that stay
  inside; none that must answer a request has to leave. The frames are symmetric: only
  equality of frames is used, and no liveness property names one.

### Fairness

Weak fairness for each thread of the kernel, for the timers, and for the peers
that owe an answer: the C library schedules threads that can run, and a peer
that received a request answers it (the constants say when it does not). The
operator owes only the end of a command that was read. Interfaces may connect
or not. In the memory each thread goes on with the request it has in hand; the
clients owe none. In the CPU each thread goes on, and `SF(Exit)` is an assumption
about the programs: a script that is fetched again and again reaches its EXIT.
In `Acceso` each thread of the kernel and each interface goes on, and the user of
a STDIN types when he is asked (`fgets`, 218): the last is an assumption, no code
gives it. The programs and the operator owe nothing. So a request may wait for
ever while the planning is stopped (1123), and `TodoPedidoAvisa` asks only of
behaviours in which it is on from some moment. A closing interface counts as
well: its requests are answered by the end of their processes.

## Proofs

| theorem | what it says |
|---|---|
| `KernelTipos!TiposCorrectos` | `Spec => []Tipado` |
| `KernelPruebas!RespuestaNoSeCruza` | `Spec => []RespuestaDeQuienPidio` |
| `KernelPruebas!NadiePideDeMas` | `Spec => []PedidosRespaldados` |
| `KernelPruebas!AlternanSinRecursos` | `[]Alternancia` if the CPU sends no WAIT or SIGNAL |
| `KernelCicloPruebas!NadieDosVeces` | `[]NuncaDoble` if the operator kills nobody |
| `KernelCicloPruebas!CadaUnoEnSuLugar` | `[]UnSoloLugar` if nothing takes a process out of the round (`NadaSePierde`) |
| `KernelCicloPruebas!CuposSuman` | `[]CuposExactos` under `NadaSePierde` |
| `KernelCicloPruebas!ImplementaElCiclo` | `CumpleElCiclo` under `NadaSePierde` and without WAIT and SIGNAL: the kernel implements `CicloDeVida` |
| `KernelCicloPruebas!NuncaCae` | `[]SinCaida` under `SinFallas` |
| `MemoriaPruebas!MemoriaTipada` | `Spec => []TypeOK` |
| `MemoriaPruebas!MarcosSiempreExactos` | `Spec => []MarcosExactos` |
| `MemoriaPruebas!TraduccionSiempreEstable` | `Spec => TraduccionEstable` |
| `MemoriaPruebas!MemoriaImplementaPaginas` | `Spec => ImplementaPaginas`: the memory implements `Paginas` |
| `CpuPruebas!FichaSiempreUnica` | `Spec => []FichaUnica` |
| `CpuPruebas!VueltasSiempreEnOrden` | `Spec => []VueltasEnOrden` |
| `CpuPruebas!CpuCumpleElTurno` | `Spec => CumpleElTurno`: the CPU implements `TurnoCPU` |
| `AccesoPruebas!AccesoTipado` | `Spec => []TypeOK` |
| `AccesoPruebas!TlbSiempreAcotada` | `Spec => []TlbAcotada` |
| `AccesoPruebas!PedidoSiempreUnico` | `Spec => []PedidoUnico` |
| `AccesoPruebas!PiezasSiemprePropias` | `Spec => []PiezasPropias` |
| `AccesoPruebas!BytesSiempreEnOrden` | `Spec => []BytesEnOrden` |
| `AccesoPruebas!SinTlbEsFiel` | `[]TraduccionFiel` if `MaxTlb = 0` |
| `ProtocoloPruebas!PCBIdaYVuelta` | a PCB is read as it was written, whatever its resources and parameters |
| `ProtocoloPruebas!RecursosIdaYVuelta`, `TraduccionesIdaYVuelta` | so are the resources and the translations, wherever in a package they are |
| `ProtocoloPruebas!FinPcbSoloConQuince` | `fin_pcb` is the end of the PCB exactly with fifteen resources |
| `ProtocoloPruebas!PeticionConQuince` | and then the kernel reads the request as the CPU wrote it |
| `ProtocoloPruebas!DatosDelProcesoCruzados` | the memory gets the path and the PID of a new process only if they are equal; the other requests to it are read as they were written (`PedidosMemoriaIdaYVuelta`) |

They hold for every value of the constants that satisfies the assumptions of the
module (`ConstantesOK`, `MemoriaOK`, `CpuOK`, `MmuOK`, `InterfacesOK`,
`AccesoOK`), which the runs evaluate; `Protocolo` has none. Where the table says
*if* or *under*, the theorem has that as a hypothesis as well (see *Hypotheses*).

*Kernel types.* `TypeOK` is not inductive: an action that uses the PCB in a
thread's hand is typed only if that hand is not NULL at that point. `Tipado`
adds, for each thread, at which steps its locals hold a PCB (`ManosOK`), and is
inductive. One lemma per thread. What it rests on is that a thread pops the list
it looked at or waited for: the mutant of the run, a dispatcher that forgets
`cola_ready_aux`, has NULL in hand at the next step.

*The others.* Each property is about two or three threads. The `Marco` lemmas
say once what every thread leaves alone (whose `pc`, which semaphores), and
`HilosCreados` that no scheduler thread exists before INICIAR_PLANIFICACION;
then `RespuestaPaso`, `AlternanciaPaso`, `ExitPaso` and `IOPaso` look only at
the threads that matter. `RespuestaDeQuienPidio` and `Alternancia` are
inductive on top of `Base`. For `PedidosRespaldados` the semaphore of an
interface needs the process that has been pushed and not yet announced
(`PorAvisar`), and nothing holds once the interface has been torn down.
`Alternancia` is false with resources (run `kernel_turno`), and the hypothesis
of the theorem is exactly that.

*Places of the kernel.* `UnSoloLugar` and `NuncaDoble` count a PID over
every list, the hands of five threads, both messages of the dispatch socket and the
interfaces. `KernelLugares`
groups them in places (`Sitios`): one for each phase of the life cycle, one for
each interface. `Repartidos` says that a PID is counted once, in one place, or
nowhere, and `Presentes` that every process created is somewhere. For each thread
one lemma says what a step does to the places, and there are only eight things it
can do: nothing, create one process, take one from a place to another (with or
without a slot: `Admite`, `Retira`, `Despachar`, `Traslada`), change the degree, or
lose one (`Perdida`). `Repartidos` is inductive through all eight, and `NuncaDoble`
follows; without `Perdida` so is `Presentes`, and `UnSoloLugar` follows. It takes
two facts more: a thread that has handed a PCB over holds none (`Ociosos`), and a
PCB not allocated yet has no PID (`SinAsignar`), so that a process that comes back
from the CPU as another object is still one. For the slots, the phase of a process
is that of its place (`FaseEs`), so each of the eight changes the semaphore and the
number of admitted processes alike.

*The life cycle.* The same lemma gives the refinement: a move between two places
is the step of `CicloDeVida` between their phases or, inside one phase, a stutter.
The one guard that is not local is that nobody is in EXEC when a process is
dispatched: that is `Alternancia`, by which the dispatcher has its turn only when
the answer to the dispatch before has been attended and its process has left.

*No crash.* `SinCaida` needs that no pop finds its list empty. The dispatcher
looks at two queues, chooses one, and pops it later, while other threads push and
the semaphore it waited for counts both. `ReadyRespaldado`: what
`sem_procesos_ready` promises, what the dispatcher has been promised and what is
queued and not announced yet are together no more than both queues hold; the queue
that was chosen stays non-empty, since nobody else pops it; under FIFO and RR the
second queue is always empty. `NewRespaldado` is the same for NEW, and
`PedidosSirven` says that a block in the list of an interface has the layout that
its thread reads.

*Hypotheses.* Each excludes what the code does wrong, and no more than that.

* `NadieDosVeces` excludes FINALIZAR_PROCESO: a kill takes the element at a position
  that was found before (105-139), and one that is killed while BLOCKED is both on its
  way out and in the list of its interface.
* `NadaSePierde` excludes also EXIT_CONSOLA, which 570-586 have no case for, an
  interface that leaves, and a GENERICA that answers 0 (1109-1114). The CPU sends
  the first only for an instruction it does not know (`cpu.c` 207-208), and the
  GENERICA of `entradasalida.c` never sends the last (335-338).
* No WAIT or SIGNAL: they post `sem_despachar` a second time (712, 753), and then
  two processes may be in EXEC (run `kernel_turno`). `UnSoloLugar` and `CuposExactos`
  hold with them.
* `SinFallas` does not need the last two of `NadaSePierde`, and excludes what ends
  the kernel: resources (`liberar_recursos` pops the queue of a resource with nobody
  in it, 435-440), a request for an interface of another type (607-709 compare the
  instruction with the motive and not with the interface), and, under VRR,
  interfaces other than GENERICA, for which 1192-1255 read a pointer never assigned.

*Memory.* `EnCurso` says what each thread knows of the request in hand: the two
are about different processes, no more pages are left to take out than the
table has, and no more frames are looked at than were counted free. It is what
makes `TypeOK` inductive: the loop of 631 stays in the bit array only because
the count of 650 never exceeds `CantMarcos - 1`. On top of it `MarcosExactos`
is inductive: taking a row out frees its bit (`MarcosQuitar`, for the first and
the last row), adding one takes a bit that was free (`MarcosAsigna`).

*Memory implements Paginas.* The mapping of a table is the column of frames of
its rows. A step that adds a row takes a frame whose bit was 0, and by
`MarcosExactos` no row has it; the rest is what each action does to one column
and to no other.

*CPU.* `FichaUnica` is a count of four places where the PCB can be, and is not
inductive: it needs to know where `checks` stands, that a thread in `libera` has
already given the PCB away or had no need to, and that messages in the dispatch
socket are those sent and not yet received. `IInv` adds that, and the three
properties and the steps of the refinement follow from it.

*Accesses.* `TypeOK` needs that every frame of a translation exists, which rests
on `TlbAcotada` (one entry for each process, so the first found is the only
one) and on the dialogue between the kernel and an interface (`Dialogo`: one
message at a time, about the request in hand); the three are inductive together
(`Bien`). `PedidoUnico` is inductive on `Bien`: a place is added for a process
that had none, moves from the list to the hand, back to the list when its send
fails, and is emptied. A process may stay BLOCKED after its place was emptied by
the answer 0, but then it is on the way out of the memory, and nobody comes back
from there (`SigueSaliendo`). `PiezasPropias` needs three more facts: at most one
process executes and only it has pieces of a MOV left (`UnoEjecuta`); who is on the
way out of the memory is in EXIT, or BLOCKED with no request (`Vive`), unless it was
killed with a request pending; an entry of the TLB is a frame of its process
(`TlbPropia`). Then a table shrinks only under a process with nothing on its
way: one that executes has no request, and one that is out of the memory keeps a
request only if it was killed.

`BytesEnOrden` is about a sum over the pieces of an access. `Antes` is a recursive
function, and `AntesEs` says that whatever adds up as it does is equal to it: the
least piece where two such functions differ would follow one where they agree
(`Menor`, from the well-foundedness of the naturals, is how a proof here gets an
induction). `Hasta` is that sum in closed form, each piece but the last ends its
page, and the rest is arithmetic on pages and offsets. With it `SinTlbEsFiel` shows that without a
TLB the comment that `acceso_tlb` refutes is true, also while other processes grow,
shrink and end: `Fiel` adds that the pages of a request are still in the table,
since whoever shrinks executes and has no request. Both are kept of the request in
the hand too, which goes back to the list when its send fails; `PedidosSabidos` says
once that only IO_STDIN_READ brings a request that was nowhere.

*Protocol.* A package is a sequence of fields and a reader takes field `i` as
`list_get` does, so each theorem is arithmetic on positions: the fields before a
list of pairs, its count, its pairs, and what comes after.

Only model-checked: liveness (`TodoTermina`, `TodoPedidoResponde`,
`TodoDespachoVuelve`, `TodoPedidoAvisa`), which needs fairness and is outside the
proof system. Every invariant, action property and refinement that a passing run
checks is stated by a theorem, those of the kernel under the hypotheses above. The
runs `kernel_base`, `kernel_recursos` and `kernel_interfaces` check them where the
theorems apply too; `kernel_matar` is about kills, where only `Alternancia`,
`RespuestaDeQuienPidio` and the semaphores are proved.

## Not modelled

* The bytes of `memoriaPrincipal` and the values of registers: no property is
  about them; who may touch which bytes is `Acceso`. SUM and SUB add the pointers
  and JNZ tests the pointer, so it always jumps: those are one step of `Cpu`.
* Parsing: console commands, scripts, pseudocode (`instruccion_to_enum` of
  `memoria.c` lacks IO_GEN_SLEEP), configuration.
* Accepting connections and starting threads (`server_escuchar` gives the new
  thread the address of its own local, `memoria.c` 165), the `main` of each
  program, sockets and the greeting: input and output, with no state afterwards.
* DIALFS, whose functions are empty, and its interface, which never answers.
* PROCESO_ESTADO, logs, makefiles. Heap misuse such as `instruccion_destroyer`
  (149-156), which leaves no state that a later step reads.
* How much quantum a process of VRR has left is a choice, not a number.

What is left to do: `SinCaida` with resources, under the conditions that
`liberar_recursos` would need, and what of `NuncaDoble` survives a kill.
