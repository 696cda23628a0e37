------------------------------- MODULE Acceso -------------------------------
(***************************************************************************)
(* Who reads and writes the memory of whom: the CPU translates addresses,  *)
(* MOV uses the translations at once, an I/O instruction sends them through*)
(* the kernel to an interface that uses them later, while the process may  *)
(* be killed and its frames given to another. Scheduling is reduced to the *)
(* state of each process (Kernel has its threads) and the memory to its    *)
(* page tables (Memoria implements Paginas). Packages arrive as they were  *)
(* packed (ProtocoloPruebas, for a process with fifteen resources).        *)
(***************************************************************************)
EXTENDS Mmu, EntradaSalida

CONSTANTS
    Direcciones,    \* bound: logical addresses that programs use
    Tamanios,       \* bound: sizes that programs ask an interface for
    MaxPedidos      \* bound: requests to interfaces

\* Sizes of the registers.
TamRegistros == {1, 4}

ASSUME AccesoOK ==
    /\ Direcciones \subseteq Nat /\ Tamanios \subseteq Nat /\ MaxPedidos \in Nat
    /\ Nadie \notin Pids

VARIABLES
    vivo,           \* FALSE once one of the programs has died
    lista,          \* lista_de_procesos of the memory
    debe_planificar,
    estado,         \* state of each process, in its PCB
    cola_block,     \* processes whose PCB it holds; the CPU gives back another PCB
    cola_exit,
    mov,            \* pieces that the MOV of the process in EXEC has still to do
    pc_k, mano,     \* thread of the kernel for each interface, the request in its hand
    bloq,           \* cola_bloqueados of each interface
    pedidos,        \* requests made so far
    dudosos         \* history: killed with a request pending, or shrunk under the TLB

memoria == <<tabla, lista>>
procesos == <<estado, cola_block, cola_exit>>
kernel == <<pc_k, mano, bloq>>
vars == <<vivo, memoria, tlb, debe_planificar, procesos, mov, kernel, pedidos, dudosos, esvars>>

SinPedido == [pid |-> Nadie, dir |-> 0, tam |-> 0, traducciones |-> <<>>]

\* Processes that the memory has created and the long-term scheduler admitted.
Init ==
    /\ EsInit /\ Tablas!Init
    /\ vivo = TRUE
    /\ lista = Pids
    /\ debe_planificar = TRUE
    /\ estado = [p \in Pids |-> "READY"]
    /\ cola_block = {} /\ cola_exit = <<>>
    /\ tlb = <<>> /\ mov = <<>>
    /\ pc_k = [i \in Interfaces |-> "pregunta_nombre"]
    /\ mano = [i \in Interfaces |-> SinPedido]
    /\ bloq = [i \in Interfaces |-> <<>>]
    /\ pedidos = 0 /\ dudosos = {}

-----------------------------------------------------------------------------
Cambia(p, de, a) == estado[p] = de /\ estado' = [estado EXCEPT ![p] = a]

AExit(p) == cola_exit' = Append(cola_exit, p)

Cae ==
    /\ vivo' = FALSE
    /\ UNCHANGED <<memoria, tlb, debe_planificar, procesos, mov, kernel, pedidos, dudosos, esvars>>

\* p executes and its instruction before this one is over.
Ejecuta(p) == vivo /\ estado[p] = "EXEC" /\ mov = <<>>

\* The PCB that cola_block may still hold is now in EXEC: a kill that finds it only
\* interrupts the CPU. The threads look at debe_planificar (Kernel); here they need not.
Despacha(p) ==
    /\ vivo
    /\ \A q \in Pids : estado[q] # "EXEC"
    /\ Cambia(p, "READY", "EXEC") /\ cola_block' = cola_block \ {p}
    /\ UNCHANGED <<vivo, memoria, tlb, debe_planificar, cola_exit, mov, kernel, pedidos, dudosos,
                   esvars>>

Desaloja(p) ==
    /\ Ejecuta(p)
    /\ Cambia(p, "EXEC", "READY")
    /\ UNCHANGED <<vivo, memoria, tlb, debe_planificar, cola_block, cola_exit, mov, kernel, pedidos,
                   dudosos, esvars>>

\* EXIT, and a RESIZE that the memory refuses (SIN_MEMORIA).
Exit(p) ==
    /\ Ejecuta(p)
    /\ Cambia(p, "EXEC", "EXIT") /\ AExit(p)
    /\ UNCHANGED <<vivo, memoria, tlb, debe_planificar, cola_block, mov, kernel, pedidos, dudosos,
                   esvars>>

-----------------------------------------------------------------------------
(* RESIZE, a page at a time. The TLB is not told.                          *)

Amplia(p) ==
    /\ Ejecuta(p) /\ p \in lista
    /\ Tablas!Crece(p)
    /\ UNCHANGED <<vivo, lista, tlb, debe_planificar, procesos, mov, kernel, pedidos, dudosos, esvars>>

Recorta(p) ==
    /\ Ejecuta(p) /\ p \in lista
    /\ Tablas!Achica(p)
    /\ dudosos' = IF \E n \in Entradas(p) : tlb[n].marco = tabla[p][Len(tabla[p])]
                  THEN dudosos \cup {p} ELSE dudosos
    /\ UNCHANGED <<vivo, lista, tlb, debe_planificar, procesos, mov, kernel, pedidos, esvars>>

\* buscar_proceso_en_lista gives NULL for a process that came back after its end.
ResizeSinProceso(p) == Ejecuta(p) /\ p \notin lista /\ Cae

-----------------------------------------------------------------------------
(* Translations.                                                           *)

\* The memory is asked for a page of a process or of a table that it does not have.
PideMarcoQueNoHay(p, dir, tam) ==
    LET paginas == Pedidas(p, dir, tam) IN
    paginas # {} /\ (p \notin lista \/ \E g \in paginas : ~EnTabla(p, g))

Traduce(p, dir, tam) ==
    /\ ~PideMarcoQueNoHay(p, dir, tam)
    /\ tlb' = IF Recorridas(dir, tam) = {} THEN tlb ELSE TlbDespues(p, PaginaDe(dir))

TraduceYCae(p, dir, tam) ==
    /\ Ejecuta(p)
    /\ PideMarcoQueNoHay(p, dir, tam) \/ (EscribeSinAsignar /\ Recorridas(dir, tam) # {})
    /\ Cae

\* MOV_IN and MOV_OUT: the pieces are the same.
Mov(p, dir, tam) ==
    /\ Ejecuta(p)
    /\ Traduce(p, dir, tam)
    /\ mov' = ObtenerTraducciones(p, dir, tam)
    /\ UNCHANGED <<vivo, memoria, debe_planificar, procesos, kernel, pedidos, dudosos, esvars>>

MovPieza ==
    /\ vivo
    /\ mov # <<>> /\ mov' = Tail(mov)
    /\ UNCHANGED <<vivo, memoria, tlb, debe_planificar, procesos, kernel, pedidos, dudosos, esvars>>

\* In interfaces_conectadas: the peer may have gone without the kernel knowing.
Conectada(i) == pc_k[i] \in {"tope", "toma", "recibe", "desconecta"}

\* IO_STDIN_READ, for an interface by its name: the kernel does not look at its type. A
\* GENERICA is left out: its thread faults on the block (IOConfundeTipo in Kernel).
IoStdinRead(p, i, dir, tam) ==
    /\ Ejecuta(p) /\ pedidos < MaxPedidos
    /\ TipoInterfaz[i] # "GENERICA"
    /\ Traduce(p, dir, tam)
    /\ pedidos' = pedidos + 1
    /\ IF Conectada(i)
         THEN /\ bloq' = [bloq EXCEPT ![i] = Append(@,
                   [pid |-> p, dir |-> dir, tam |-> tam,
                    traducciones |-> ObtenerTraducciones(p, dir, tam)])]
              /\ Cambia(p, "EXEC", "BLOCKED") /\ cola_block' = cola_block \cup {p}
              /\ UNCHANGED cola_exit
         ELSE Cambia(p, "EXEC", "EXIT") /\ AExit(p) /\ UNCHANGED <<cola_block, bloq>>
    /\ UNCHANGED <<vivo, memoria, debe_planificar, mov, pc_k, mano, dudosos, esvars>>

\* IO_STDOUT_WRITE goes with the motive SOLICITAR_STDIN, whose case takes only
\* IO_STDIN_READ: the process ends with INTERFAZ_INVALIDA.
IoStdoutWrite(p, dir, tam) ==
    /\ Ejecuta(p)
    /\ Traduce(p, dir, tam)
    /\ Cambia(p, "EXEC", "EXIT") /\ AExit(p)
    /\ UNCHANGED <<vivo, memoria, debe_planificar, cola_block, mov, kernel, pedidos, dudosos, esvars>>

-----------------------------------------------------------------------------
(* The thread of the kernel for an interface.                              *)

PasoK(i, de, a) == vivo /\ pc_k[i] = de /\ pc_k' = [pc_k EXCEPT ![i] = a]

KEnvia(i, op, p, traducciones) ==
    de_kernel' = [de_kernel EXCEPT ![i] =
        Append(@, [op |-> op, pid |-> p, traducciones |-> traducciones])]

KLee(i) == a_kernel[i] # <<>> /\ a_kernel' = [a_kernel EXCEPT ![i] = Tail(@)]

\* preguntar_nombre_interfaz, preguntar_tipo_interfaz.
KPregunta(i) ==
    /\ \/ PasoK(i, "pregunta_nombre", "espera_nombre") /\ KEnvia(i, "INFORMAR_NOMBRE", Nadie, <<>>)
       \/ PasoK(i, "pregunta_tipo", "espera_tipo") /\ KEnvia(i, "INFORMAR_TIPO", Nadie, <<>>)
    /\ UNCHANGED <<vivo, memoria, tlb, debe_planificar, procesos, mov, mano, bloq, pedidos, dudosos,
                   pc_io, tarea, a_kernel>>

KConoce(i) ==
    /\ \/ PasoK(i, "espera_nombre", "pregunta_tipo")
       \/ PasoK(i, "espera_tipo", "tope")
    /\ KLee(i)
    /\ UNCHANGED <<vivo, memoria, tlb, debe_planificar, procesos, mov, mano, bloq, pedidos, dudosos,
                   pc_io, tarea, de_kernel>>

\* The loop: with the planning stopped it spins here, and a request that came while the
\* thread was already waiting for one is served all the same.
KMiraPlan(i) ==
    /\ debe_planificar
    /\ PasoK(i, "tope", "toma")
    /\ UNCHANGED <<vivo, memoria, tlb, debe_planificar, procesos, mov, mano, bloq, pedidos, dudosos,
                   esvars>>

\* The send: to an interface that is gone it fails, or is accepted and lost.
KManda(i, r) ==
    \/ /\ PasoK(i, "toma", "recibe") /\ pc_io[i] # "fin"
       /\ KEnvia(i, "INSTRUCCION", r.pid, r.traducciones)
    \/ PasoK(i, "toma", "recibe") /\ pc_io[i] = "fin" /\ UNCHANGED de_kernel
    \/ PasoK(i, "toma", "desconecta") /\ pc_io[i] = "fin" /\ UNCHANGED de_kernel

\* Mutant of KToma: the request stays in the list.
KTomaSinQuitar(i) ==
    /\ bloq[i] # <<>> /\ bloq' = bloq
    /\ mano' = [mano EXCEPT ![i] = Head(bloq[i])]
    /\ KManda(i, Head(bloq[i]))
    /\ UNCHANGED <<vivo, memoria, tlb, debe_planificar, procesos, mov, pedidos, dudosos, pc_io, tarea,
                   a_kernel>>

KToma(i) ==
    /\ bloq[i] # <<>> /\ bloq' = [bloq EXCEPT ![i] = Tail(@)]
    /\ mano' = [mano EXCEPT ![i] = Head(bloq[i])]
    /\ KManda(i, Head(bloq[i]))
    /\ UNCHANGED <<vivo, memoria, tlb, debe_planificar, procesos, mov, pedidos, dudosos, pc_io, tarea,
                   a_kernel>>

\* 1: to READY, whatever has happened to the process. 0: to cola_exit, with the state it
\* had. Nobody takes its PCB out of cola_block.
KRecibe(i) ==
    /\ PasoK(i, "recibe", "tope")
    /\ KLee(i)
    /\ IF Head(a_kernel[i]) = "1"
         THEN estado' = [estado EXCEPT ![mano[i].pid] = "READY"] /\ UNCHANGED cola_exit
         ELSE AExit(mano[i].pid) /\ UNCHANGED estado
    /\ mano' = [mano EXCEPT ![i] = SinPedido]
    /\ UNCHANGED <<vivo, memoria, tlb, debe_planificar, cola_block, mov, bloq, pedidos, dudosos,
                   pc_io, tarea, de_kernel>>

\* recv finds the connection closed.
KRecibeNada(i) ==
    /\ pc_io[i] = "fin" /\ a_kernel[i] = <<>>
    /\ PasoK(i, "recibe", "desconecta")
    /\ UNCHANGED <<vivo, memoria, tlb, debe_planificar, procesos, mov, mano, bloq, pedidos, dudosos,
                   esvars>>

\* The request goes back to the list and the interface leaves interfaces_conectadas.
KDevuelve(i) ==
    /\ PasoK(i, "desconecta", "vacia")
    /\ bloq' = [bloq EXCEPT ![i] = Append(@, mano[i])]
    /\ mano' = [mano EXCEPT ![i] = SinPedido]
    /\ UNCHANGED <<vivo, memoria, tlb, debe_planificar, procesos, mov, pedidos, dudosos, esvars>>

\* liberar_pcb_block_STDIN and _STDOUT, for each request of the list.
KVacia(i) ==
    /\ PasoK(i, "vacia", "vacia")
    /\ bloq[i] # <<>> /\ bloq' = [bloq EXCEPT ![i] = Tail(@)]
    /\ estado' = [estado EXCEPT ![Head(bloq[i]).pid] = "EXIT"] /\ AExit(Head(bloq[i]).pid)
    /\ UNCHANGED <<vivo, memoria, tlb, debe_planificar, cola_block, mov, mano, pedidos, dudosos, esvars>>

KLibera(i) ==
    /\ PasoK(i, "vacia", "liberada") /\ bloq[i] = <<>>
    /\ UNCHANGED <<vivo, memoria, tlb, debe_planificar, procesos, mov, mano, bloq, pedidos, dudosos,
                   esvars>>

\* Its loop goes on with the structure it has freed, and may fault or wait for ever.
KUsaLiberada(i) == vivo /\ pc_k[i] = "liberada" /\ debe_planificar /\ Cae

-----------------------------------------------------------------------------
(* The operator, and the end of a process.                                 *)

\* INICIAR_PLANIFICACION and DETENER_PLANIFICACION.
Ordena ==
    /\ vivo /\ debe_planificar' = ~debe_planificar
    /\ UNCHANGED <<vivo, memoria, tlb, procesos, mov, kernel, pedidos, dudosos, esvars>>

\* The requests that a thread of the kernel knows of: 0 is the one in its hand.
Lugares(i) == 0..Len(bloq[i])
PedidoDe(i, n) == IF n = 0 THEN mano[i] ELSE bloq[i][n]
Pide(p) == \E i \in Interfaces : \E n \in Lugares(i) : PedidoDe(i, n).pid = p

\* FINALIZAR_PROCESO looks in cola_ready first.
MataEnReady(p) ==
    /\ vivo
    /\ Cambia(p, "READY", "EXIT") /\ AExit(p)
    /\ UNCHANGED <<vivo, memoria, tlb, debe_planificar, cola_block, mov, kernel, pedidos, dudosos,
                   esvars>>

\* Then in cola_block, where the PCB may be of a process that has ended already. A
\* request stays with its interface. The other places it looks in are in Kernel.
MataEnBlock(p) ==
    /\ vivo /\ estado[p] \in {"BLOCKED", "EXIT"}
    /\ p \in cola_block /\ cola_block' = cola_block \ {p}
    /\ estado' = [estado EXCEPT ![p] = "EXIT"] /\ AExit(p)
    /\ dudosos' = IF Pide(p) THEN dudosos \cup {p} ELSE dudosos
    /\ UNCHANGED <<vivo, memoria, tlb, debe_planificar, mov, kernel, pedidos, esvars>>

\* procesos_en_exit, and finalizar_proceso of the memory: out of the list, then a frame
\* at a time.
Soltando == \E p \in Pids \ lista : tabla[p] # <<>>

Retira ==
    /\ vivo /\ ~Soltando
    /\ cola_exit # <<>> /\ cola_exit' = Tail(cola_exit)
    /\ Head(cola_exit) \in lista /\ lista' = lista \ {Head(cola_exit)}
    /\ UNCHANGED <<vivo, tabla, tlb, debe_planificar, estado, cola_block, mov, kernel, pedidos, dudosos,
                   esvars>>

\* A process that ends for the second time is not in the list: NULL.
RetiraDosVeces ==
    /\ vivo /\ ~Soltando
    /\ cola_exit # <<>> /\ Head(cola_exit) \notin lista
    /\ Cae

Suelta(p) ==
    /\ vivo /\ p \notin lista
    /\ Tablas!Suelta(p)
    /\ UNCHANGED <<vivo, lista, tlb, debe_planificar, procesos, mov, kernel, pedidos, dudosos, esvars>>

-----------------------------------------------------------------------------
Resize(p) == Amplia(p) \/ Recorta(p) \/ ResizeSinProceso(p)

Instruccion(p) ==
    \/ Exit(p) \/ Resize(p)
    \/ \E dir \in Direcciones :
         \/ \E tam \in TamRegistros : Mov(p, dir, tam)
         \/ \E tam \in TamRegistros \cup Tamanios : TraduceYCae(p, dir, tam)
         \/ \E tam \in Tamanios :
              IoStdoutWrite(p, dir, tam) \/ \E i \in Interfaces : IoStdinRead(p, i, dir, tam)

Salida == Retira \/ RetiraDosVeces \/ \E p \in Pids : Suelta(p)

Mata(p) == MataEnReady(p) \/ MataEnBlock(p)

Atiende(i) ==
    \/ KPregunta(i) \/ KConoce(i) \/ KMiraPlan(i) \/ KToma(i) \/ KRecibe(i) \/ KRecibeNada(i)
    \/ KDevuelve(i) \/ KVacia(i) \/ KLibera(i)

EnInterfaz(i) ==
    /\ vivo /\ Interfaz(i)
    /\ UNCHANGED <<vivo, memoria, tlb, debe_planificar, procesos, mov, kernel, pedidos, dudosos>>

Escribe(i) ==
    /\ vivo /\ UsuarioEscribe(i)
    /\ UNCHANGED <<vivo, memoria, tlb, debe_planificar, procesos, mov, kernel, pedidos, dudosos>>

\* Bound: once the kernel knows the interface.
Cierra(i) ==
    /\ vivo /\ Conectada(i) /\ EsCierra(i)
    /\ UNCHANGED <<vivo, memoria, tlb, debe_planificar, procesos, mov, kernel, pedidos, dudosos>>

Next ==
    \/ \E p \in Pids : Despacha(p) \/ Desaloja(p) \/ Instruccion(p) \/ Mata(p)
    \/ MovPieza
    \/ \E i \in Interfaces :
         Atiende(i) \/ KUsaLiberada(i) \/ EnInterfaz(i) \/ Escribe(i) \/ Cierra(i)
    \/ Ordena
    \/ Salida

Spec == Init /\ [][Next]_vars

\* Each thread of the kernel and each interface goes on while it can, and the user of a
\* STDIN types when it is asked: the last is an assumption. The programs and the operator
\* owe nothing, and no interface has to close.
SpecJusta ==
    /\ Spec
    /\ \A i \in Interfaces : WF_vars(Atiende(i)) /\ WF_vars(EnInterfaz(i)) /\ WF_vars(Escribe(i))

-----------------------------------------------------------------------------
(* Types.                                                                  *)

Pieza == [marco: Marcos, desplazamiento: 0..(TamPagina - 1), bytes: 1..TamPagina]
Pedido == [pid: Pids \cup {Nadie}, dir: Nat, tam: Nat, traducciones: Seq(Pieza)]
Mensaje == [op: {"INFORMAR_NOMBRE", "INFORMAR_TIPO", "INSTRUCCION"}, pid: Pids \cup {Nadie},
            traducciones: Seq(Pieza)]

TypeOK ==
    /\ vivo \in BOOLEAN /\ debe_planificar \in BOOLEAN
    /\ tabla \in [Pids -> Seq(Marcos)] /\ lista \subseteq Pids
    /\ tlb \in Seq([pid: Pids, num_pag: Nat, marco: Marcos])
    /\ estado \in [Pids -> {"READY", "EXEC", "BLOCKED", "EXIT"}]
    /\ cola_block \subseteq Pids /\ cola_exit \in Seq(Pids)
    /\ mov \in Seq(Pieza)
    /\ pc_k \in [Interfaces -> {"pregunta_nombre", "espera_nombre", "pregunta_tipo",
                                "espera_tipo", "tope", "toma", "recibe", "desconecta",
                                "vacia", "liberada"}]
    /\ mano \in [Interfaces -> Pedido] /\ bloq \in [Interfaces -> Seq(Pedido)]
    /\ pedidos \in Nat /\ dudosos \subseteq Pids
    /\ pc_io \in [Interfaces -> {"conecta", "atiende", "escribe", "opera", "fin"}]
    /\ tarea \in [Interfaces -> [pid: Pids \cup {Nadie}, piezas: Seq(Pieza), exitosa: BOOLEAN]]
    /\ de_kernel \in [Interfaces -> Seq(Mensaje)]
    /\ a_kernel \in [Interfaces -> Seq({"NOMBRE_INFORMADO", "GENERICA", "STDIN", "STDOUT", "0", "1"})]

-----------------------------------------------------------------------------
(* Properties.                                                             *)

\* The piece lies in one frame, and the frame is of p.
EsDe(p, pieza) ==
    /\ pieza.marco \in Tablas!Propios(p)
    /\ pieza.desplazamiento + pieza.bytes <= TamPagina

TodasDe(p, piezas) == \A n \in DOMAIN piezas : EsDe(p, piezas[n])

\* What the CPU, the queues of the kernel, the sockets and the interfaces still have to
\* read or write is in frames of the process that asked, while others grow and end:
\* unless it was killed with its request pending or shrunk with an entry in the TLB.
PiezasPropias ==
    \A p \in Pids \ dudosos :
       /\ estado[p] = "EXEC" => TodasDe(p, mov)
       /\ \A i \in Interfaces :
            /\ \A n \in DOMAIN bloq[i] : bloq[i][n].pid = p => TodasDe(p, bloq[i][n].traducciones)
            /\ \A n \in DOMAIN de_kernel[i] :
                 de_kernel[i][n].pid = p => TodasDe(p, de_kernel[i][n].traducciones)
            /\ tarea[i].pid = p => TodasDe(p, tarea[i].piezas)

\* The TLB keeps its size (atoi of the configuration) and one entry for each process.
TlbAcotada == Len(tlb) <= MaxTlb /\ \A p \in Pids : \A n, k \in Entradas(p) : n = k

\* Where the n-th piece starts, in bytes from the first.
Antes(piezas) ==
    LET hasta[n \in 0..Len(piezas)] == IF n = 0 THEN 0 ELSE hasta[n - 1] + piezas[n].bytes
    IN hasta

\* The k-th byte of the access is in the offset of its logical address, pieces in order,
\* and no byte of those asked is left out.
BytesEnOrden ==
    \A i \in Interfaces : \A m \in DOMAIN bloq[i] :
       LET r == bloq[i][m]
           t == r.traducciones
       IN r.tam > 0 =>
            /\ Antes(t)[Len(t)] >= r.tam
            /\ \A n \in DOMAIN t : (t[n].desplazamiento - r.dir - Antes(t)[n - 1]) % TamPagina = 0

\* And it is the byte of that address, in the frame of its page (comment of cpu.c
\* 226-231: "tengo que leer desde el byte 30 hasta el 33").
TraduccionFiel ==
    \A i \in Interfaces : \A m \in DOMAIN bloq[i] :
       LET r == bloq[i][m]
           t == r.traducciones
       IN r.pid \notin dudosos =>
            \A n \in DOMAIN t :
               LET pagina == PaginaDe(r.dir + Antes(t)[n - 1])
               IN EnTabla(r.pid, pagina) => t[n].marco = tabla[r.pid][pagina + 1]

\* The process has ended at least once: the memory will be told, or was.
Saliendo(p) == p \notin lista \/ \E n \in DOMAIN cola_exit : cola_exit[n] = p

\* A process is BLOCKED for as long as a request of it is on its way, or was refused and
\* ended it; one that has ended leaves a request behind only if it was killed; and nobody
\* ever has two, not even the killed one that the answer brings back to READY.
PedidoUnico ==
    /\ \A i, j \in Interfaces : \A n \in Lugares(i), m \in Lugares(j) :
         PedidoDe(i, n).pid \in Pids /\ PedidoDe(i, n).pid = PedidoDe(j, m).pid => i = j /\ n = m
    /\ \A p \in Pids :
         CASE estado[p] = "BLOCKED" -> Pide(p) \/ Saliendo(p)
           [] estado[p] = "EXIT" -> Pide(p) => p \in dudosos
           [] OTHER -> ~Pide(p)

\* Unless the operator leaves the planning stopped, no request waits for ever: it is
\* answered, or its process ended when the interface is found gone.
TodoPedidoAvisa ==
    <>[]debe_planificar => \A p \in Pids : Pide(p) ~> (~Pide(p) \/ ~vivo)
=============================================================================
