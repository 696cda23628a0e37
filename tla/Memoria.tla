------------------------------ MODULE Memoria ------------------------------
(***************************************************************************)
(* The memory module (memoria.c): its list of processes, their page tables *)
(* and the bit array of frames, served by one thread for each connection.  *)
(* "kernel" is the thread of the kernel's connection (creates and ends     *)
(* processes), "cpu" the one of the CPU's (resizes, looks instructions and *)
(* frames up). Each serves one request at a time.                          *)
(*                                                                         *)
(* Bytes, instructions and the reads that change nothing are left out. The *)
(* kernel ends a process that the CPU has given back, so no request is     *)
(* about a process that the other thread is ending. A process is listed    *)
(* under the PID the kernel sent, although the memory reads it from the    *)
(* field of the path (Protocolo, recibir_datos_del_proceso).               *)
(***************************************************************************)
EXTENDS Integers, Sequences, FiniteSets, SequencesExt

CONSTANTS
    Pids,           \* the processes the kernel loads, each PID once
    Nadie,          \* no process: a thread that waits for a request
    CantMarcos,     \* cant_marcos, tam_memoria / tam_pagina
    MaxPaginas,     \* bound: pages a RESIZE asks for
    CamposAjuste    \* fields of a resize request: 2 as cpu.c sends, 3 as memoria.c reads

Marcos == 0..(CantMarcos - 1)

ASSUME MemoriaOK ==
    /\ Nadie \notin Pids
    /\ CantMarcos \in Nat \ {0} /\ MaxPaginas \in Nat
    /\ CamposAjuste \subseteq {2, 3}

VARIABLES
    vivo,           \* FALSE once the module has dereferenced NULL
    cargados,       \* PIDs of the requests DATOS_PROCESO so far
    lista,          \* lista_de_procesos
    tabla,          \* tabla_de_paginas of each process
    frames,         \* frames_array: the frames whose bit is set
    mutex_frames,   \* mutex_frames_array
    pc, pid,        \* of each thread: next step, process of the request
    paginas, resta, index,  \* cantidad_de_paginas_finales, pages still to move, loop index
    concedidas      \* ghost: the pages of the last OK sent about each process

pedido == <<paginas, resta, index>>
vars == <<vivo, cargados, lista, tabla, frames, mutex_frames, pc, pid, pedido, concedidas>>

Init ==
    /\ vivo = TRUE
    /\ cargados = {} /\ lista = <<>>
    /\ tabla = [p \in Pids |-> <<>>]
    /\ frames = {} /\ mutex_frames = "libre"
    /\ pc = [h \in {"kernel", "cpu"} |-> "recv"]
    /\ pid = [h \in {"kernel", "cpu"} |-> Nadie]
    /\ paginas = 0 /\ resta = 0 /\ index = 0
    /\ concedidas = [p \in Pids |-> 0]

-----------------------------------------------------------------------------
Paso(h, de, a) ==
    /\ vivo /\ vivo' = vivo
    /\ pc[h] = de
    /\ pc' = [pc EXCEPT ![h] = a]
Sirve(h, p) == pid' = [pid EXCEPT ![h] = p]

\* A pointer that is NULL is dereferenced.
Cae == /\ vivo /\ vivo' = FALSE
       /\ UNCHANGED <<cargados, lista, tabla, frames, mutex_frames, pc, pid, pedido, concedidas>>

EnLista(p) == \E n \in DOMAIN lista : lista[n] = p
SinPedido == paginas' = 0 /\ resta' = 0 /\ index' = 0

-----------------------------------------------------------------------------
(* The kernel's connection. Neither request is answered.                   *)

\* iniciar_proceso_a_pedido_de_Kernel.
IniciarProceso(p) ==
    /\ Paso("kernel", "recv", "recv")
    /\ p \notin cargados /\ cargados' = cargados \cup {p}
    /\ lista' = Append(lista, p)
    /\ UNCHANGED <<tabla, frames, mutex_frames, pid, pedido, concedidas>>

\* finalizar_proceso_a_pedido_de_kernel: finds it, takes it out of the list, then
\* gives its frames back one by one, each under the mutex.
FinalizarProceso(p) ==
    /\ Paso("kernel", "recv", "retira")
    /\ EnLista(p) /\ pid["cpu"] # p
    /\ Sirve("kernel", p)
    /\ UNCHANGED <<cargados, lista, tabla, frames, mutex_frames, pedido, concedidas>>

Retira ==
    /\ Paso("kernel", "retira", "libera")
    /\ \E n \in DOMAIN lista : lista[n] = pid["kernel"] /\ lista' = RemoveAt(lista, n)
    /\ UNCHANGED <<cargados, tabla, frames, mutex_frames, pid, pedido, concedidas>>

LiberaFila ==
    LET p == pid["kernel"] IN
    /\ Paso("kernel", "libera", "libera")
    /\ mutex_frames = "libre" /\ tabla[p] # <<>>
    /\ frames' = frames \ {Head(tabla[p]).marco}
    /\ tabla' = [tabla EXCEPT ![p] = Tail(@)]
    /\ UNCHANGED <<cargados, lista, mutex_frames, pid, pedido, concedidas>>

TerminaFinalizar ==
    /\ Paso("kernel", "libera", "recv")
    /\ tabla[pid["kernel"]] = <<>>
    /\ Sirve("kernel", Nadie)
    /\ concedidas' = [concedidas EXCEPT ![pid["kernel"]] = 0]
    /\ UNCHANGED <<cargados, lista, tabla, frames, mutex_frames, pedido>>

-----------------------------------------------------------------------------
(* The CPU's connection: REAJUSTAR_TAMANIO_PROCESO.                        *)

Atendible(p) == EnLista(p) /\ pid["kernel"] # p

PideAjuste(p, n) ==
    /\ Paso("cpu", "recv", "calcula")
    /\ Atendible(p) /\ 3 \in CamposAjuste
    /\ Sirve("cpu", p) /\ paginas' = n
    /\ UNCHANGED <<cargados, lista, tabla, frames, mutex_frames, resta, index, concedidas>>

\* procesar_reajuste_de_memoria takes the PID from the third field: NULL if there are two.
PideAjusteCorto ==
    /\ pc["cpu"] = "recv" /\ 2 \in CamposAjuste
    /\ \E p \in Pids : Atendible(p)
    /\ Cae

Calcula ==
    LET diferencia == paginas - Len(tabla[pid["cpu"]]) IN
    /\ \/ Paso("cpu", "calcula", "acorta") /\ diferencia < 0 /\ resta' = -diferencia
       \/ Paso("cpu", "calcula", "responde_ok") /\ diferencia = 0 /\ resta' = 0
       \/ Paso("cpu", "calcula", "cuenta") /\ diferencia > 0 /\ resta' = diferencia
    /\ UNCHANGED <<cargados, lista, tabla, frames, mutex_frames, pid, paginas, index, concedidas>>

\* acortar_tamanio_proceso takes the last row out, once for each page; only this
\* thread looks at the table, so the row goes with its bit, under the mutex.
\* Mutant of AcortaFila: the row in front.
AcortaPrimera ==
    LET p == pid["cpu"] IN
    /\ Paso("cpu", "acorta", "acorta")
    /\ resta > 0 /\ resta' = resta - 1
    /\ mutex_frames = "libre"
    /\ frames' = frames \ {Head(tabla[p]).marco}
    /\ tabla' = [tabla EXCEPT ![p] = Tail(@)]
    /\ UNCHANGED <<cargados, lista, mutex_frames, pid, paginas, index, concedidas>>

AcortaFila ==
    LET p == pid["cpu"]
        ultima == Len(tabla[p]) IN
    /\ Paso("cpu", "acorta", "acorta")
    /\ resta > 0 /\ resta' = resta - 1
    /\ mutex_frames = "libre"
    /\ frames' = frames \ {tabla[p][ultima].marco}
    /\ tabla' = [tabla EXCEPT ![p] = SubSeq(@, 1, ultima - 1)]
    /\ UNCHANGED <<cargados, lista, mutex_frames, pid, paginas, index, concedidas>>

FinAcorta ==
    /\ Paso("cpu", "acorta", "responde_ok")
    /\ resta = 0
    /\ UNCHANGED <<cargados, lista, tabla, frames, mutex_frames, pid, pedido, concedidas>>

\* cantidad_de_marcos_disponibles never looks at the last frame.
MarcosDisponibles == {m \in 0..(CantMarcos - 2) : m \notin frames}

\* aumentar_tamanio_proceso: it counts under the mutex and takes it again to assign.
\* Mutant of Cuenta: the count is not compared with the pages.
CuentaSinComparar ==
    /\ Paso("cpu", "cuenta", "toma_mutex")
    /\ mutex_frames = "libre"
    /\ UNCHANGED <<cargados, lista, tabla, frames, mutex_frames, pid, pedido, concedidas>>

Cuenta ==
    /\ Paso("cpu", "cuenta", IF Cardinality(MarcosDisponibles) < resta THEN "responde_oom"
                                                                      ELSE "toma_mutex")
    /\ mutex_frames = "libre"
    /\ UNCHANGED <<cargados, lista, tabla, frames, mutex_frames, pid, pedido, concedidas>>

TomaMutex ==
    /\ Paso("cpu", "toma_mutex", "asigna")
    /\ mutex_frames = "libre" /\ mutex_frames' = "cpu"
    /\ UNCHANGED <<cargados, lista, tabla, frames, pid, pedido, concedidas>>

\* The loop goes over the first frames, as many as pages are asked for.
AsignaLibre ==
    /\ Paso("cpu", "asigna", "asigna")
    /\ index < resta /\ index' = index + 1
    /\ index \notin frames /\ frames' = frames \cup {index}
    /\ tabla' = [tabla EXCEPT ![pid["cpu"]] = Append(@, [numpag |-> Len(@) + 1, marco |-> index])]
    /\ UNCHANGED <<cargados, lista, mutex_frames, pid, paginas, resta, concedidas>>

\* Mutant of AsignaOcupado: no bitarray_test_bit.
AsignaSinMirar ==
    /\ Paso("cpu", "asigna", "asigna")
    /\ index < resta /\ index' = index + 1
    /\ index \in frames
    /\ tabla' = [tabla EXCEPT ![pid["cpu"]] = Append(@, [numpag |-> Len(@) + 1, marco |-> index])]
    /\ UNCHANGED <<cargados, lista, frames, mutex_frames, pid, paginas, resta, concedidas>>

AsignaOcupado ==
    /\ Paso("cpu", "asigna", "asigna")
    /\ index < resta /\ index' = index + 1
    /\ index \in frames
    /\ UNCHANGED <<cargados, lista, tabla, frames, mutex_frames, pid, paginas, resta, concedidas>>

\* Mutant of FinAsigna: no pthread_mutex_unlock.
FinAsignaSinSoltar ==
    /\ Paso("cpu", "asigna", "responde_ok")
    /\ index = resta
    /\ UNCHANGED <<cargados, lista, tabla, frames, mutex_frames, pid, pedido, concedidas>>

FinAsigna ==
    /\ Paso("cpu", "asigna", "responde_ok")
    /\ index = resta
    /\ mutex_frames' = "libre"
    /\ UNCHANGED <<cargados, lista, tabla, frames, pid, pedido, concedidas>>

Responde ==
    /\ \/ Paso("cpu", "responde_ok", "recv") /\ concedidas' = [concedidas EXCEPT ![pid["cpu"]] = paginas]
       \/ Paso("cpu", "responde_oom", "recv") /\ UNCHANGED concedidas
    /\ Sirve("cpu", Nadie) /\ SinPedido
    /\ UNCHANGED <<cargados, lista, tabla, frames, mutex_frames>>

-----------------------------------------------------------------------------
(* The CPU's connection: SOLICITUD_MARCO and SOLICITAR_INSTRUCCION.        *)

\* buscar_pagina uses what list_get gives with no test. A program asks for the pages
\* of the size it was granted; one that is in the table is answered and changes nothing.
MarcoFueraDeTabla(p) ==
    /\ pc["cpu"] = "recv" /\ Atendible(p)
    /\ concedidas[p] > Len(tabla[p])
    /\ Cae

\* buscar_instruccion takes the mutex of the list once for each element it looks at.
PideInstruccion(p) ==
    /\ Paso("cpu", "recv", "busca")
    /\ Atendible(p)
    /\ Sirve("cpu", p)
    /\ UNCHANGED <<cargados, lista, tabla, frames, mutex_frames, pedido, concedidas>>

BuscaSigue ==
    /\ Paso("cpu", "busca", "busca")
    /\ index < Len(lista) /\ lista[index + 1] # pid["cpu"]
    /\ index' = index + 1
    /\ UNCHANGED <<cargados, lista, tabla, frames, mutex_frames, pid, paginas, resta, concedidas>>

BuscaHalla ==
    /\ Paso("cpu", "busca", "recv")
    /\ index < Len(lista) /\ lista[index + 1] = pid["cpu"]
    /\ Sirve("cpu", Nadie) /\ SinPedido
    /\ UNCHANGED <<cargados, lista, tabla, frames, mutex_frames, concedidas>>

BuscaFuera ==
    /\ pc["cpu"] = "busca" /\ index >= Len(lista)
    /\ Cae

-----------------------------------------------------------------------------
Finaliza == Retira \/ LiberaFila \/ TerminaFinalizar
Ajusta == \/ Calcula \/ AcortaFila \/ FinAcorta \/ Cuenta \/ TomaMutex
          \/ AsignaLibre \/ AsignaOcupado \/ FinAsigna \/ Responde
Busca == BuscaSigue \/ BuscaHalla \/ BuscaFuera

Next ==
    \/ \E p \in Pids : \/ IniciarProceso(p) \/ FinalizarProceso(p)
                       \/ PideInstruccion(p) \/ MarcoFueraDeTabla(p)
                       \/ \E n \in 0..MaxPaginas : PideAjuste(p, n)
    \/ PideAjusteCorto
    \/ Finaliza
    \/ Ajusta
    \/ Busca

Spec == Init /\ [][Next]_vars

\* A thread that serves a request goes on with it; the clients owe no request.
SpecJusta == Spec /\ WF_vars(Finaliza) /\ WF_vars(Ajusta \/ Busca)

-----------------------------------------------------------------------------
(* Types.                                                                  *)

PasosKernel == {"recv", "retira", "libera"}
PasosCPU == {"recv", "calcula", "acorta", "cuenta", "toma_mutex", "asigna", "responde_ok",
             "responde_oom", "busca"}
Fila == [numpag: Nat, marco: Marcos]

TypeOK ==
    /\ vivo \in BOOLEAN
    /\ cargados \subseteq Pids /\ lista \in Seq(Pids)
    /\ tabla \in [Pids -> Seq(Fila)]
    /\ frames \subseteq Marcos /\ mutex_frames \in {"libre", "cpu"}
    /\ pc \in [{"kernel", "cpu"} -> PasosKernel \cup PasosCPU]
    /\ pc["kernel"] \in PasosKernel /\ pc["cpu"] \in PasosCPU
    /\ pid \in [{"kernel", "cpu"} -> Pids \cup {Nadie}]
    /\ paginas \in Nat /\ resta \in Nat /\ index \in Nat
    /\ concedidas \in [Pids -> Nat]

-----------------------------------------------------------------------------
(* Frames.                                                                 *)

FilasMarcadas == \A p \in Pids : \A n \in DOMAIN tabla[p] : tabla[p][n].marco \in frames
MarcosConFila == \A m \in frames : \E p \in Pids : \E n \in DOMAIN tabla[p] : tabla[p][n].marco = m
UnaFilaPorMarco ==
    \A p, q \in Pids : \A n \in DOMAIN tabla[p] : \A k \in DOMAIN tabla[q] :
       tabla[p][n].marco = tabla[q][k].marco => p = q /\ n = k

\* A bit is set exactly when its frame is in one row of one table: no frame serves two
\* pages and none is lost, while one thread takes frames and another gives them back.
MarcosExactos == FilasMarcadas /\ MarcosConFila /\ UnaFilaPorMarco

\* A page keeps its frame for as long as it is in the table: a resize never changes
\* what the CPU has translated of the pages that stay (comment of memoria.c 472: the
\* number of the page is its place in the list).
TraduccionEstable ==
    [][\A p \in Pids \ {pid["kernel"]} : \A n \in DOMAIN tabla[p] \cap DOMAIN tabla'[p] :
          tabla'[p][n].marco = tabla[p][n].marco]_vars

\* The two threads, with the mutex released between every two steps, do no more than
\* what Paginas says: tables change at their ends, by frames that nobody else has.
Abstracta == INSTANCE Paginas WITH
    tabla <- [p \in Pids |-> [n \in DOMAIN tabla[p] |-> tabla[p][n].marco]]

ImplementaPaginas == Abstracta!Spec

\* The CPU blocks on the answer: every request it makes is answered, or the module dies.
TodoPedidoResponde == pc["cpu"] # "recv" ~> (pc["cpu"] = "recv" \/ ~vivo)

\* What OK promises: the process has the pages it asked for (the programs of cpu.c
\* 237-251 store after a RESIZE in any address below the size).
AjusteCumplido ==
    pc["cpu"] = "recv" => \A p \in Pids : EnLista(p) => Len(tabla[p]) = concedidas[p]

=============================================================================
