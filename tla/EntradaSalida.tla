--------------------------- MODULE EntradaSalida ---------------------------
(***************************************************************************)
(* An interface (entradasalida.c): it connects, tells the kernel its name  *)
(* and type, and serves one INSTRUCCION after another. STDIN and STDOUT    *)
(* send the memory one piece of the translations at a time and wait for    *)
(* its answer; GENERICA only waits. The sockets to the kernel are queues.  *)
(***************************************************************************)
EXTENDS Integers, Sequences

CONSTANTS
    Nadie,          \* no process
    Interfaces,
    TipoInterfaz,   \* TIPO_INTERFAZ of the configuration of each
    SaleSiConecta,  \* TRUE as line 28 stands (exits when it has connected), FALSE as its log says
    PuedenCerrar    \* interfaces that may be closed while they are connected

ASSUME InterfacesOK ==
    /\ TipoInterfaz \in [Interfaces -> {"GENERICA", "STDIN", "STDOUT"}]
    /\ SaleSiConecta \in BOOLEAN /\ PuedenCerrar \subseteq Interfaces

VARIABLES
    pc_io,          \* "conecta", "atiende" (in atender_kernel), "escribe", "opera" or "fin"
    tarea,          \* the request being served: pieces still to do, and operacion_exitosa
    de_kernel,      \* messages of the kernel not read yet; their pid is history, not sent
    a_kernel        \* answers the kernel has not read yet

SinTarea == [pid |-> Nadie, piezas |-> <<>>, exitosa |-> TRUE]

esvars == <<pc_io, tarea, de_kernel, a_kernel>>

EsInit ==
    /\ pc_io = [i \in Interfaces |-> "conecta"]
    /\ tarea = [i \in Interfaces |-> SinTarea]
    /\ de_kernel = [i \in Interfaces |-> <<>>] /\ a_kernel = [i \in Interfaces |-> <<>>]

-----------------------------------------------------------------------------
PasoEs(i, de, a) == pc_io[i] = de /\ pc_io' = [pc_io EXCEPT ![i] = a]

EsEnvia(i, m) == a_kernel' = [a_kernel EXCEPT ![i] = Append(@, m)]

EsLee(i, op) ==
    /\ de_kernel[i] # <<>> /\ Head(de_kernel[i]).op = op
    /\ de_kernel' = [de_kernel EXCEPT ![i] = Tail(@)]

\* main, up to atender_kernel: iniciar_conexiones answers TRUE when it has connected.
EsConecta(i) ==
    /\ PasoEs(i, "conecta", IF SaleSiConecta THEN "fin" ELSE "atiende")
    /\ UNCHANGED <<tarea, de_kernel, a_kernel>>

\* atender_kernel: INFORMAR_NOMBRE and INFORMAR_TIPO.
EsInforma(i) ==
    /\ PasoEs(i, "atiende", "atiende")
    /\ \/ EsLee(i, "INFORMAR_NOMBRE") /\ EsEnvia(i, "NOMBRE_INFORMADO")
       \/ EsLee(i, "INFORMAR_TIPO") /\ EsEnvia(i, TipoInterfaz[i])
    /\ UNCHANGED tarea

\* atender_instruccion, up to the loop over the translations, of which a GENERICA has
\* none. A STDIN stops at fgets first.
EsInstruccion(i) ==
    /\ PasoEs(i, "atiende", IF TipoInterfaz[i] = "STDIN" THEN "escribe" ELSE "opera")
    /\ EsLee(i, "INSTRUCCION")
    /\ tarea' = [tarea EXCEPT ![i] = [pid |-> Head(de_kernel[i]).pid,
                                      piezas |-> Head(de_kernel[i]).traducciones,
                                      exitosa |-> TRUE]]
    /\ UNCHANGED a_kernel

\* The user of a STDIN types a line, whatever it says. A read that fails is tried again.
UsuarioEscribe(i) == PasoEs(i, "escribe", "opera") /\ UNCHANGED <<tarea, de_kernel, a_kernel>>

\* A piece: the memory reads or writes it and answers. atender_STDIN compares the answer
\* with strcmp, which is 0 when it is "Ok": the piece that was written counts as failed.
EsPieza(i) ==
    /\ PasoEs(i, "opera", "opera")
    /\ tarea[i].piezas # <<>> /\ tarea[i].exitosa
    /\ tarea' = [tarea EXCEPT ![i] = [pid |-> tarea[i].pid,
                                      piezas |-> Tail(tarea[i].piezas),
                                      exitosa |-> TipoInterfaz[i] # "STDIN"]]
    /\ UNCHANGED <<de_kernel, a_kernel>>

\* Mutant of EsAvisa: no answer when it failed.
EsAvisaSiBien(i) ==
    /\ PasoEs(i, "opera", "atiende")
    /\ tarea[i].piezas = <<>> \/ ~tarea[i].exitosa
    /\ IF tarea[i].exitosa THEN EsEnvia(i, "1") ELSE UNCHANGED a_kernel
    /\ tarea' = [tarea EXCEPT ![i] = SinTarea]
    /\ UNCHANGED de_kernel

EsAvisa(i) ==
    /\ PasoEs(i, "opera", "atiende")
    /\ tarea[i].piezas = <<>> \/ ~tarea[i].exitosa
    /\ EsEnvia(i, IF tarea[i].exitosa THEN "1" ELSE "0")
    /\ tarea' = [tarea EXCEPT ![i] = SinTarea]
    /\ UNCHANGED de_kernel

\* The program of the interface ends, wherever it is: what it had not read is lost, what
\* it had answered can still be read.
EsCierra(i) ==
    /\ i \in PuedenCerrar /\ pc_io[i] # "fin"
    /\ pc_io' = [pc_io EXCEPT ![i] = "fin"]
    /\ tarea' = [tarea EXCEPT ![i] = SinTarea] /\ de_kernel' = [de_kernel EXCEPT ![i] = <<>>]
    /\ UNCHANGED a_kernel

\* What the program does by itself.
Interfaz(i) == EsConecta(i) \/ EsInforma(i) \/ EsInstruccion(i) \/ EsPieza(i) \/ EsAvisa(i)
=============================================================================
