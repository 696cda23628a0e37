------------------------- MODULE KernelCicloPruebas -------------------------
(***************************************************************************)
(* Theorems about Kernel: no process is ever in two places, none is lost   *)
(* while nobody kills it and the interfaces stay, the slots add up, the    *)
(* kernel keeps what CicloDeVida promises, and no thread dereferences what *)
(* an empty list gives. The first four follow from what each thread does   *)
(* to the places (KernelLugares).                                          *)
(***************************************************************************)
EXTENDS KernelLugares

USE DEF hilos, plan, procesos, cpu, quantum, memoria, recursos, io, consola

-----------------------------------------------------------------------------
(* The threads let go of what they hand over.                              *)

OciosoSalida == /\ pc["salida"] \in {"sin_crear", "tope", "espera_exit"} => mano["salida"] = Nulo
                /\ pc["salida"] # "desbloquea" => segundo["salida"] = Nulo

\* The threads that a step of the console does not create go on where they were.
LEMMA OciososConsola ==
    ASSUME Base, Ociosos, "FINALIZAR_PROCESO" \notin Comandos, NadieMata, Consola
    PROVE  Ociosos' /\ NadieMata'
<1>a. TypeHilos /\ Tipado /\ HilosCreados BY DEF Base, Tipado, TypeOK
<1>1. CASE IniciarPlanificacion
  <2>1. UNCHANGED <<mano, segundo, io>> /\ pc'["consola"] = pc["consola"]
        /\ \A h \in Duerme : Quieto(h)
    BY <1>a, <1>1, MarcoConsola DEF IniciarPlanificacion, TypeHilos, Hilos
  <2> QED BY <2>1 DEF Ociosos, NadieMata, VueltaTiene, Quieto, Duerme, Hilos
<1>2. CASE ~IniciarPlanificacion
  <2>1. /\ UNCHANGED <<segundo, io>> /\ SoloHilo("consola")
        /\ pc'["consola"] \in {"lee", "sube", "baja", "busca", "quita"} => mano'["consola"] = Nulo
        /\ pc'["consola"] \notin {"busca", "quita", "decide", "a_exit"}
    <3>1. CASE IniciarProceso \/ EncolaEnNew
      BY <1>a, <3>1 DEF IniciarProceso, EncolaEnNew, Paso, Toma, SoloHilo, TypeHilos, Hilos, Ociosos
    <3>2. CASE ConsolaPideMemoria \/ ConsolaRecibeMemoria \/ DetenerPlanificacion
                 \/ CambiarMultiprogramacion \/ SubeGrado \/ BajaGrado \/ TerminaGrado
      BY <1>a, <3>2 DEF ConsolaPideMemoria, ConsolaRecibeMemoria, DetenerPlanificacion,
         CambiarMultiprogramacion, SubeGrado, BajaGrado, TerminaGrado, Paso, SoloHilo, TypeHilos,
         Hilos, Ociosos
    <3>3. CASE FinalizarProceso \/ BuscaEncuentra \/ BuscaSigue \/ Quita \/ QuitaFueraDeRango
                 \/ NoHalladoSigue \/ NoHalladoFalla \/ InterrumpePorConsola \/ DecideSacar
                 \/ FinalizaAExit
      BY <3>3 DEF NadieMata, FinalizarProceso, Ordena, BuscaEncuentra, BuscaSigue, Quita, Paso,
         QuitaFueraDeRango, NoHalladoSigue, NoHalladoFalla, InterrumpePorConsola, DecideSacar,
         FinalizaAExit
    <3> QED BY <1>2, <3>1, <3>2, <3>3 DEF Consola
  <2> QED BY <2>1 DEF Ociosos, NadieMata, VueltaTiene, SoloHilo, Hilos
<1> QED BY <1>1, <1>2

LEMMA OciososVuelta ==
    ASSUME Tipado, Ociosos, VueltaDispatch \/ VueltaRecurso PROVE Ociosos'
<1>a. TypeHilos BY DEF Tipado, TypeOK
<1>1. CASE \/ VueltaMiraPlan \/ BuscaInterfaz \/ EncolaEnInterfaz \/ LeeInstancias
           \/ EscribeInstancias \/ DecideRecurso \/ EncolaEnRecurso \/ VuelveAExec
  <2>1. /\ SoloHilo("vuelta") /\ UNCHANGED <<mano, segundo, pc_io, mano_io>>
        /\ pc["vuelta"] # "desbloquea" /\ pc'["vuelta"] \in PasosVuelta
        /\ \/ pc["vuelta"] \in {"sin_crear", "tope", "espera_rta"}
           \/ pc'["vuelta"] \notin {"sin_crear", "tope", "espera_rta"}
    BY <1>a, <1>1 DEF VueltaMiraPlan, BuscaInterfaz, EncolaEnInterfaz, LeeInstancias, Atiende, Pide,
       EscribeInstancias, DecideRecurso, EncolaEnRecurso, VuelveAExec, Paso, SoloHilo, TypeHilos, Hilos,
       PasosVuelta
  <2>2. VueltaTiene <=> pc["vuelta"] \notin {"sin_crear", "tope", "espera_rta"}
    BY <1>a DEF VueltaTiene, TypeHilos
  <2> QED BY <2>1, <2>2 DEF Ociosos, SoloHilo, VueltaTiene, Hilos
<1>2. CASE RecibeVuelta
  BY <1>a, <1>2 DEF RecibeVuelta, Paso, Toma, Ociosos, VueltaTiene, PasosVuelta, TypeHilos, Hilos
<1>3. CASE \/ AtiendeFinQuantum \/ AtiendeFinal \/ AtiendeOtroMotivo \/ RechazaPedido
           \/ AvisaInterfaz \/ RecursoInvalido \/ BloqueaPorRecurso \/ Reenvia
  <2>1. /\ SoloHilo("vuelta") /\ UNCHANGED <<segundo, pc_io, mano_io>>
        /\ mano'["vuelta"] = Nulo /\ pc["vuelta"] # "desbloquea"
    BY <1>a, <1>3 DEF AtiendeFinQuantum, AtiendeFinal, AtiendeOtroMotivo, RechazaPedido,
       AvisaInterfaz, RecursoInvalido, BloqueaPorRecurso, Reenvia, SueltaVuelta, Toma, Atiende, Pide,
       Paso, SoloHilo, TypeHilos, Hilos
  <2> QED BY <2>1 DEF Ociosos, SoloHilo, Hilos
<1>4. CASE SacaDeRecurso \/ Desbloquea
  BY <1>a, <1>4 DEF SacaDeRecurso, Desbloquea, Paso, Ociosos, VueltaTiene, PasosVuelta, TypeHilos,
     Hilos
<1>5. CASE InterfazLiberada \/ RecursoVacio \/ DesbloqueaLeeSinAsignar
  BY <1>5 DEF InterfazLiberada, RecursoVacio, DesbloqueaLeeSinAsignar, Cae, Ociosos, VueltaTiene
<1> QED BY <1>1, <1>2, <1>3, <1>4, <1>5 DEF VueltaDispatch, VueltaRecurso

LEMMA OciososPaso ==
    ASSUME Base, Ociosos, NadieMata, "FINALIZAR_PROCESO" \notin Comandos, [Next]_vars
    PROVE  Ociosos' /\ NadieMata'
<1>a. TypeHilos /\ TypeIO /\ Tipado /\ HilosCreados BY DEF Base, Tipado, TypeOK
<1>1. CASE Consola BY <1>1, OciososConsola
<1>2. CASE Largo
  <2>1. /\ SoloHilo("largo") /\ UNCHANGED <<segundo, pc_io, mano_io>>
        /\ pc'["largo"] \in {"sin_crear", "espera_new"} => mano'["largo"] = Nulo
    BY <1>a, <1>2 DEF Largo, TomaDeNew, EncolaEnReady, EncolaNulo, MarcaReady, Paso, Toma, Cae,
       SoloHilo, Ociosos, TypeHilos, Hilos
  <2> QED BY <2>1 DEF Ociosos, NadieMata, VueltaTiene, SoloHilo, Hilos
<1>3. CASE Salida
  <2>1. /\ SoloHilo("salida") /\ UNCHANGED <<segundo["vuelta"], pc_io, mano_io>>
    BY <1>a, <1>3 DEF Salida, SalidaMiraPlan, TomaDeExit, SalidaPideMemoria, SalidaRecibeMemoria,
       NoTieneInstancias, LiberaLeeInstancias, LiberaIncrementa, LiberaSacaBloqueado, Archiva,
       LiberaDesbloquea, LiberaSinBloqueado, LiberaLeeSinAsignar, Cae, Paso, Toma, SoloHilo,
       TypeHilos, Hilos
  <2>2. OciosoSalida'
    <3>1. CASE SalidaMiraPlan \/ TomaDeExit \/ SalidaPideMemoria \/ SalidaRecibeMemoria
      BY <1>a, <3>1 DEF SalidaMiraPlan, TomaDeExit, SalidaPideMemoria, SalidaRecibeMemoria, Paso,
         Toma, Ociosos, OciosoSalida, TypeHilos, Hilos
    <3>2. CASE NoTieneInstancias \/ LiberaLeeInstancias \/ LiberaIncrementa \/ Archiva
      BY <1>a, <3>2 DEF NoTieneInstancias, LiberaLeeInstancias, LiberaIncrementa, Archiva, Paso,
         Toma, Ociosos, OciosoSalida, TypeHilos, Hilos
    <3>3. CASE LiberaSacaBloqueado \/ LiberaDesbloquea
      BY <1>a, <3>3 DEF LiberaSacaBloqueado, LiberaDesbloquea, Paso, OciosoSalida, TypeHilos, Hilos
    <3>4. CASE LiberaSinBloqueado \/ LiberaLeeSinAsignar
      BY <3>4 DEF LiberaSinBloqueado, LiberaLeeSinAsignar, Cae, Ociosos, OciosoSalida
    <3> QED BY <1>3, <3>1, <3>2, <3>3, <3>4 DEF Salida
  <2> QED BY <2>1, <2>2 DEF Ociosos, OciosoSalida, NadieMata, VueltaTiene, SoloHilo, Hilos
<1>4. CASE Despachador
  <2>1. SoloHilo("despachador") /\ UNCHANGED <<segundo, pc_io, mano_io>>
    BY <1>a, <1>4 DEF Despachador, DespachadorMiraPlan, Elige, SacaReady, ReadyVacia, MarcaExec,
       PasaAExec, Despacha, LanzaQuantum, Cae, Paso, Toma, SoloHilo, TypeHilos, Hilos
  <2> QED BY <2>1 DEF Ociosos, NadieMata, VueltaTiene, SoloHilo, Hilos
<1>5. CASE VueltaDispatch \/ VueltaRecurso
  <2>1. pc'["consola"] = pc["consola"]
    BY <1>a, <1>5, MarcoVueltaDispatch, MarcoVueltaRecurso DEF Ajenos, Hilos
  <2> QED BY <1>a, <1>5, <2>1, OciososVuelta DEF NadieMata
<1>6. CASE Pares
  <2>1. UNCHANGED <<hilos, mano_io>>
        /\ \A i \in Interfaces : pc_io'[i] = pc_io[i] \/ pc_io[i] = "sin_crear"
    BY <1>a, <1>6 DEF Pares, MemoriaResponde, Reloj, RelojSinExec, RelojVence, CPUDevuelve,
       ConectaInterfaz, CierraInterfaz, PasoIO, TypeIO
  <2> QED BY <2>1 DEF Ociosos, NadieMata, VueltaTiene
<1>7. CASE \E i \in Interfaces : AtiendeInterfaz(i)
  <2> PICK i \in Interfaces : AtiendeInterfaz(i) BY <1>7
  <2>1. /\ UNCHANGED hilos
        /\ \A j \in Interfaces \ {i} : pc_io'[j] = pc_io[j] /\ mano_io'[j] = mano_io[j]
        /\ pc_io'[i] \notin {"envia", "recibe", "vuelve", "finaliza", "desconecta"}
                               => mano_io'[i] = SinBloque
    <3>1. CASE IOMiraPlan(i) \/ IOToma(i) \/ IOEnvia(i) \/ IORecibe(i) \/ IORecibeCeroGenerica(i)
      BY <1>a, <3>1 DEF IOMiraPlan, IOToma, IOEnvia, IORecibe, IORecibeCeroGenerica, PasoIO, TomaIO,
         TypeIO, Ociosos
    <3>2. CASE \/ IOVuelve(i) \/ IOFinaliza(i) \/ IODevuelve(i) \/ IOQuitaInterfaz(i) \/ IOVacia(i)
               \/ IOVaciaFin(i) \/ IODestruye(i)
      BY <1>a, <3>2 DEF IOVuelve, IOFinaliza, IODevuelve, IOQuitaInterfaz, IOVacia, IOVaciaFin,
         IODestruye, PasoIO, TomaIO, TypeIO, Ociosos
    <3>3. CASE IOConfundeTipo(i) \/ IOVuelveLeeSinAsignar(i) \/ IOUsaLiberada(i)
      BY <3>3 DEF IOConfundeTipo, IOVuelveLeeSinAsignar, IOUsaLiberada, Cae, Ociosos
    <3> QED BY <3>1, <3>2, <3>3 DEF AtiendeInterfaz
  <2>2. \A j \in Interfaces : pc_io'[j] \notin {"envia", "recibe", "vuelve", "finaliza", "desconecta"}
                               => mano_io'[j] = SinBloque
    BY <2>1 DEF Ociosos
  <2> QED BY <2>1, <2>2 DEF Ociosos, NadieMata, VueltaTiene
<1>8. CASE UNCHANGED vars BY <1>8 DEF vars, Ociosos, NadieMata, VueltaTiene
<1> QED BY <1>1, <1>2, <1>3, <1>4, <1>5, <1>6, <1>7, <1>8, QuienPasa

\* Only crear_pcb and the PCB that comes back write on an object that had no PID.
LEMMA SinAsignarPaso == ASSUME Tipado, SinAsignar, [Next]_vars PROVE SinAsignar'
<1>a. TypeProcesos BY DEF Tipado, TypeOK
<1>b. SinAsignar <=> \A o \in Objs : o >= libre => PidDe[o] = 0 BY DEF SinAsignar, PidDe
<1>c. SinAsignar' <=> \A o \in Objs : o >= libre' => PidDe'[o] = 0 BY DEF SinAsignar, PidDe
<1>1. CASE UNCHANGED <<PidDe, libre>> BY <1>1, <1>b, <1>c
<1>2. CASE /\ libre \in Objs /\ libre' = libre + 1
           /\ \A a \in Objs \ {libre} : PidDe'[a] = PidDe[a]
  BY <1>2, <1>b, <1>c DEF Objs
<1>3. CASE Consola
  <2>1. CASE IniciarProceso BY <1>a, <1>2, <2>1 DEF IniciarProceso, PidDe, TypeProcesos
  <2>2. CASE FinalizaAExit BY <1>a, <1>1, <2>2, MismosPid DEF FinalizaAExit
  <2>3. CASE ~IniciarProceso /\ ~FinalizaAExit
    <3>1. UNCHANGED <<pcb, libre>>
      BY <1>3, <2>3 DEF Consola, ConsolaPideMemoria, ConsolaRecibeMemoria, EncolaEnNew,
         IniciarPlanificacion, DetenerPlanificacion, CambiarMultiprogramacion, SubeGrado, BajaGrado,
         TerminaGrado, FinalizarProceso, BuscaEncuentra, BuscaSigue, Quita, QuitaFueraDeRango,
         NoHalladoSigue, NoHalladoFalla, InterrumpePorConsola, DecideSacar, Cae
    <3> QED BY <1>1, <3>1 DEF PidDe
  <2> QED BY <2>1, <2>2, <2>3
<1>4. CASE Largo
  <2>1. CASE MarcaReady BY <1>a, <1>1, <2>1, MismosPid DEF MarcaReady
  <2>2. CASE ~MarcaReady
    <3>1. UNCHANGED <<pcb, libre>> BY <1>4, <2>2 DEF Largo, TomaDeNew, EncolaEnReady, EncolaNulo, Cae
    <3> QED BY <1>1, <3>1 DEF PidDe
  <2> QED BY <2>1, <2>2
<1>5. CASE Salida
  <2>1. CASE LiberaDesbloquea
    <3>1. UNCHANGED libre BY <2>1 DEF LiberaDesbloquea
    <3>2. PICK v \in Vuelve("RECURSOVT", segundo["salida"]) :
            CambiarEstado(segundo["salida"], v.estado)
      BY <2>1 DEF LiberaDesbloquea
    <3> QED BY <1>a, <1>1, <3>1, <3>2, MismosPid
  <2>2. CASE ~LiberaDesbloquea
    <3>1. UNCHANGED <<pcb, libre>>
      BY <1>5, <2>2 DEF Salida, SalidaMiraPlan, TomaDeExit, SalidaPideMemoria, SalidaRecibeMemoria,
         NoTieneInstancias, LiberaLeeInstancias, LiberaIncrementa, LiberaSacaBloqueado, Archiva,
         LiberaSinBloqueado, LiberaLeeSinAsignar, Cae
    <3> QED BY <1>1, <3>1 DEF PidDe
  <2> QED BY <2>1, <2>2
<1>6. CASE Despachador
  <2>1. CASE MarcaExec BY <1>a, <1>1, <2>1, MismosPid DEF MarcaExec
  <2>2. CASE Despacha
    <3>1. EnviarPCB(mano["despachador"]) /\ libre \in Objs /\ libre' = libre + 1
      BY <2>2 DEF Despacha, EnviarPCB
    <3> QED BY <1>a, <1>2, <3>1 DEF EnviarPCB, PidDe, TypeProcesos
  <2>3. CASE ~MarcaExec /\ ~Despacha
    <3>1. UNCHANGED <<pcb, libre>>
      BY <1>6, <2>3 DEF Despachador, DespachadorMiraPlan, Elige, SacaReady, ReadyVacia, PasaAExec,
         LanzaQuantum, Cae
    <3> QED BY <1>1, <3>1 DEF PidDe
  <2> QED BY <2>1, <2>2, <2>3
<1>7. CASE VueltaDispatch
  <2>1. CASE AtiendeFinQuantum \/ BuscaInterfaz
    <3>1. UNCHANGED libre BY <2>1 DEF AtiendeFinQuantum, BuscaInterfaz
    <3>2. CASE AtiendeFinQuantum
      BY <1>a, <1>1, <3>1, <3>2 DEF AtiendeFinQuantum, TypeProcesos, PCB, PidDe
    <3>3. CASE BuscaInterfaz
      <4>1. PICK b : pcb' = [pcb EXCEPT ![mano["vuelta"]].pleno = b] BY <3>3 DEF BuscaInterfaz
      <4>2. UNCHANGED PidDe BY <1>a, <4>1 DEF TypeProcesos, PCB, PidDe
      <4> QED BY <1>1, <3>1, <4>2
    <3> QED BY <2>1, <3>2, <3>3
  <2>2. CASE AtiendeFinal \/ RechazaPedido \/ EncolaEnInterfaz
    BY <1>a, <1>1, <2>2, MismosPid DEF AtiendeFinal, RechazaPedido, EncolaEnInterfaz
  <2>3. CASE VueltaMiraPlan \/ RecibeVuelta \/ AtiendeOtroMotivo \/ AvisaInterfaz \/ InterfazLiberada
    <3>1. UNCHANGED <<pcb, libre>>
      BY <2>3 DEF VueltaMiraPlan, RecibeVuelta, AtiendeOtroMotivo, AvisaInterfaz, InterfazLiberada, Cae
    <3> QED BY <1>1, <3>1 DEF PidDe
  <2> QED BY <1>7, <2>1, <2>2, <2>3 DEF VueltaDispatch
<1>8. CASE VueltaRecurso
  <2>1. CASE RecursoInvalido \/ EncolaEnRecurso
    BY <1>a, <1>1, <2>1, MismosPid DEF RecursoInvalido, EncolaEnRecurso
  <2>2. CASE Desbloquea
    <3>1. UNCHANGED libre /\ \E v \in Vuelve("RECURSOVT", segundo["vuelta"]) :
            CambiarEstado(segundo["vuelta"], v.estado)
      BY <2>2 DEF Desbloquea
    <3> QED BY <1>a, <1>1, <3>1, MismosPid
  <2>3. CASE Reenvia
    <3>1. EnviarPCB(mano["vuelta"]) BY <2>3 DEF Reenvia
    <3> QED BY <1>a, <1>2, <3>1 DEF EnviarPCB, PidDe, TypeProcesos
  <2>4. CASE ~RecursoInvalido /\ ~EncolaEnRecurso /\ ~Desbloquea /\ ~Reenvia
    <3>1. UNCHANGED <<pcb, libre>>
      BY <1>8, <2>4 DEF VueltaRecurso, LeeInstancias, EscribeInstancias, DecideRecurso, Pide,
         BloqueaPorRecurso, SacaDeRecurso, RecursoVacio, DesbloqueaLeeSinAsignar, VuelveAExec, Cae
    <3> QED BY <1>1, <3>1 DEF PidDe
  <2> QED BY <2>1, <2>2, <2>3, <2>4
<1>9. CASE Pares
  <2>1. UNCHANGED <<pcb, libre>>
    BY <1>9 DEF Pares, MemoriaResponde, Reloj, RelojSinExec, RelojVence, CPUDevuelve,
       ConectaInterfaz, CierraInterfaz
  <2> QED BY <1>1, <2>1 DEF PidDe
<1>10. CASE \E i \in Interfaces : AtiendeInterfaz(i)
  <2> PICK i \in Interfaces : AtiendeInterfaz(i) BY <1>10
  <2>1. CASE IOVuelve(i)
    <3>1. UNCHANGED libre /\ \E v \in Vuelve(Tipo[i], mano_io[i].o) :
            CambiarEstado(mano_io[i].o, v.estado)
      BY <2>1 DEF IOVuelve
    <3> QED BY <1>a, <1>1, <3>1, MismosPid
  <2>2. CASE IOVacia(i) BY <1>a, <1>1, <2>2, MismosPid DEF IOVacia
  <2>3. CASE ~IOVuelve(i) /\ ~IOVacia(i)
    <3>1. UNCHANGED <<pcb, libre>>
      BY <2>3 DEF AtiendeInterfaz, IOMiraPlan, IOToma, IOConfundeTipo, IOEnvia, IORecibe,
         IORecibeCeroGenerica, IOVuelveLeeSinAsignar, IOFinaliza, IODevuelve, IOQuitaInterfaz,
         IOVaciaFin, IODestruye, IOUsaLiberada, Cae
    <3> QED BY <1>1, <3>1 DEF PidDe
  <2> QED BY <2>1, <2>2, <2>3
<1>11. CASE UNCHANGED vars BY <1>1, <1>11 DEF vars, PidDe
<1> QED BY <1>3, <1>4, <1>5, <1>6, <1>7, <1>8, <1>9, <1>10, <1>11, QuienPasa

-----------------------------------------------------------------------------
(* What the CPU says and which interfaces leave.                           *)

\* What is attended is what the CPU may answer.
Motivados == /\ \A n \in DOMAIN de_cpu : de_cpu[n].r \in Retornos
             /\ ret \in Retornos \cup {SinRetorno}

LEMMA MotivadosPaso == ASSUME Base, Motivados, [Next]_vars PROVE Motivados'
<1>a. Tipado /\ HilosCreados /\ TypeCPU BY DEF Base, Tipado, TypeOK
<1>1. CASE UNCHANGED <<de_cpu, ret>> BY <1>1 DEF Motivados
<1>2. CASE Consola \/ Largo \/ Salida \/ Despachador \/ \E i \in Interfaces : AtiendeInterfaz(i)
  BY <1>2, <1>1, <1>a, MarcoConsola, MarcoLargo, MarcoSalida, MarcoDespachador,
     MarcoAtiendeInterfaz
<1>3. CASE RecibeVuelta
  <2>1. Head(de_cpu) = de_cpu[1] /\ 1 \in DOMAIN de_cpu
        /\ \A n \in DOMAIN Tail(de_cpu) : n + 1 \in DOMAIN de_cpu /\ Tail(de_cpu)[n] = de_cpu[n + 1]
    BY <1>a, <1>3 DEF TypeCPU, RecibeVuelta
  <2>2. ret' = Head(de_cpu).r /\ de_cpu' = Tail(de_cpu) BY <1>3 DEF RecibeVuelta
  <2> QED BY <2>1, <2>2 DEF Motivados
<1>4. CASE VueltaDispatch /\ ~RecibeVuelta
  <2>1. UNCHANGED de_cpu /\ ret' \in {ret, SinRetorno}
    BY <1>4 DEF VueltaDispatch, VueltaMiraPlan, AtiendeFinQuantum, AtiendeFinal, AtiendeOtroMotivo,
       BuscaInterfaz, RechazaPedido, EncolaEnInterfaz, AvisaInterfaz, InterfazLiberada,
       SueltaVuelta, Cae
  <2> QED BY <2>1 DEF Motivados
<1>5. CASE VueltaRecurso
  <2>1. UNCHANGED de_cpu /\ ret' \in {ret, SinRetorno}
    BY <1>5 DEF VueltaRecurso, RecursoInvalido, LeeInstancias, EscribeInstancias, DecideRecurso,
       EncolaEnRecurso, BloqueaPorRecurso, SacaDeRecurso, RecursoVacio, Desbloquea,
       DesbloqueaLeeSinAsignar, VuelveAExec, Reenvia, SueltaVuelta, Cae
  <2> QED BY <2>1 DEF Motivados
<1>6. CASE CPUDevuelve
  <2>1. PICK r \in Retornos : de_cpu' = Append(de_cpu, [o |-> Head(a_cpu), r |-> r])
    BY <1>6 DEF CPUDevuelve
  <2>2. \A n \in DOMAIN de_cpu' : \/ n \in DOMAIN de_cpu /\ de_cpu'[n] = de_cpu[n]
                                  \/ de_cpu'[n].r = r
    BY <1>a, <2>1 DEF TypeCPU
  <2> QED BY <1>6, <2>1, <2>2 DEF CPUDevuelve, Motivados
<1>7. CASE Pares /\ ~CPUDevuelve
  BY <1>1, <1>7 DEF Pares, Reloj, RelojSinExec, RelojVence, MemoriaResponde, ConectaInterfaz,
     CierraInterfaz
<1>8. CASE UNCHANGED vars BY <1>1, <1>8 DEF vars
<1> QED BY <1>2, <1>3, <1>4, <1>5, <1>6, <1>7, <1>8, QuienPasa

\* No connection of an interface is closed, and no thread of one has found it so.
Conexos == /\ cerradas = {}
           /\ \A i \in Interfaces :
                pc_io[i] \notin {"desconecta", "quita_interfaz", "vacia", "destruye", "liberada"}

LEMMA ConexosPaso == ASSUME Base, PuedenCerrar = {}, Conexos, [Next]_vars PROVE Conexos'
<1>a. Tipado /\ HilosCreados /\ TypeIO BY DEF Base, Tipado, TypeOK
<1>1. CASE UNCHANGED <<cerradas, pc_io>> BY <1>1 DEF Conexos
<1>2. CASE Consola \/ Largo \/ Salida \/ Despachador \/ VueltaDispatch \/ VueltaRecurso
  BY <1>2, <1>1, <1>a, MarcoConsola, MarcoLargo, MarcoSalida, MarcoDespachador,
     MarcoVueltaDispatch, MarcoVueltaRecurso
<1>3. CASE Pares
  <2>1. UNCHANGED cerradas /\ \A i \in Interfaces : pc_io'[i] = pc_io[i] \/ pc_io'[i] = "tope"
    BY <1>a, <1>3 DEF Pares, MemoriaResponde, Reloj, RelojSinExec, RelojVence, CPUDevuelve,
       ConectaInterfaz, CierraInterfaz, PasoIO, TypeIO
  <2> QED BY <2>1 DEF Conexos
<1>4. CASE \E i \in Interfaces : AtiendeInterfaz(i)
  <2> PICK i \in Interfaces : AtiendeInterfaz(i) BY <1>4
  <2>1. /\ UNCHANGED cerradas /\ \A j \in Interfaces \ {i} : pc_io'[j] = pc_io[j]
    BY <1>a, MarcoAtiendeInterfaz DEF AtiendeInterfaz, IOMiraPlan, IOToma, IOConfundeTipo, IOEnvia,
       IORecibe, IORecibeCeroGenerica, IOVuelve, IOVuelveLeeSinAsignar, IOFinaliza, IODevuelve,
       IOQuitaInterfaz, IOVacia, IOVaciaFin, IODestruye, IOUsaLiberada, Cae, PasoIO, TypeIO
  <2>2. pc_io'[i] \notin {"desconecta", "quita_interfaz", "vacia", "destruye", "liberada"}
    BY <1>a DEF Conexos, AtiendeInterfaz, IOMiraPlan, IOToma, IOConfundeTipo, IOEnvia,
       IORecibe, IORecibeCeroGenerica, IOVuelve, IOVuelveLeeSinAsignar, IOFinaliza, IODevuelve,
       IOQuitaInterfaz, IOVacia, IOVaciaFin, IODestruye, IOUsaLiberada, Cae, PasoIO, TypeIO
  <2> QED BY <2>1, <2>2 DEF Conexos
<1>5. CASE UNCHANGED vars BY <1>1, <1>5 DEF vars
<1> QED BY <1>2, <1>3, <1>4, <1>5, QuienPasa

-----------------------------------------------------------------------------
(* A step of the kernel, by what it does to the places.                    *)

\* A process goes from one place to another, and from one phase to another, without its
\* slot changing hands.
Cambios == {<<"EXEC", "READY">>, <<"EXEC", "EXIT">>, <<"EXEC", "BLOCKED">>, <<"BLOCKED", "READY">>,
            <<"BLOCKED", "EXIT">>, <<"LIBERANDO", "FIN">>}
Traslada == \E a, b \in Sitios : /\ a # b /\ <<FaseDelSitio(a), FaseDelSitio(b)>> \in Cambios
                                 /\ Mueve(a, b)
Despachar == MarcaExec /\ Mueve(Zona("READY"), Zona("EXEC"))

\* A process goes nowhere: it comes back as EXIT_CONSOLA, which no case takes (kernel.c
\* 570-586), its interface is torn down or the loop of a GENERICA has no branch for its
\* answer (1109-1114).
Perdida == /\ MismosCupos /\ Pierde
           /\ \/ ret.motivo = "EXIT_CONSOLA"
              \/ \E i \in Interfaces : pc_io[i] \in {"destruye", "liberada"}
              \/ 0 \in RespuestasIO /\ \E i \in Interfaces : Tipo[i] = "GENERICA"

LEMMA FasesSon ==
    /\ \A z \in Zonas : Zona(z) \in Sitios /\ FaseDelSitio(Zona(z)) = z
    /\ \A i \in Interfaces : DeIO(i) \in Sitios /\ FaseDelSitio(DeIO(i)) = "BLOCKED"
<1>1. \A z \in Zonas : Zona(z)[1] = "zona" /\ Zona(z)[2] = z BY DEF Zona
<1>2. \A i \in Interfaces : DeIO(i)[1] = "io" BY DEF DeIO
<1> QED BY <1>1, <1>2 DEF Sitios, FaseDelSitio

\* Every step of the kernel, when the operator kills nobody.
LEMMA QuienMueve ==
    ASSUME Base, Ociosos, SinAsignar, NoEsta(0), NadieMata, "FINALIZAR_PROCESO" \notin Comandos,
           [Next]_vars
    PROVE  Queda \/ Crea \/ CambiaGrado \/ Admite \/ Retira \/ Despachar \/ Traslada \/ Perdida
<1>a. Tipado BY DEF Base
<1>b. ASSUME NEW a \in Zonas, NEW b \in Zonas, Mueve(Zona(a), Zona(b)), <<a, b>> \in Cambios
      PROVE  Traslada
  <2>1. a # b BY <1>b DEF Cambios
  <2>2. Zona(a) # Zona(b) BY <2>1, SitiosDistintos
  <2> QED BY <1>b, <2>2, FasesSon DEF Traslada
<1>c. ASSUME NEW i \in Interfaces,
             \/ Mueve(DeIO(i), Zona("READY")) \/ Mueve(DeIO(i), Zona("EXIT"))
             \/ Mueve(Zona("EXEC"), DeIO(i))
      PROVE  Traslada
  <2>1. \A z \in Zonas : Zona(z) # DeIO(i) BY SitiosDistintos
  <2>2. {"READY", "EXIT", "EXEC"} \subseteq Zonas BY DEF Zonas
  <2> QED BY <1>c, <2>1, <2>2, FasesSon DEF Traslada, Cambios
<1>1. CASE Consola BY <1>1, ConsolaMueve
<1>2. CASE Largo BY <1>a, <1>2, LargoMueve
<1>3. CASE Salida
  <2>1. <<"BLOCKED", "READY">> \in Cambios /\ <<"LIBERANDO", "FIN">> \in Cambios BY DEF Cambios
  <2>2. {"BLOCKED", "READY", "LIBERANDO", "FIN"} \subseteq Zonas BY DEF Zonas
  <2> QED BY <1>a, <1>b, <1>3, <2>1, <2>2, SalidaMueve
<1>4. CASE Despachador BY <1>a, <1>4, DespachadorMueve DEF Despachar
<1>5. CASE VueltaDispatch
  <2>1. <<"EXEC", "READY">> \in Cambios /\ <<"EXEC", "EXIT">> \in Cambios BY DEF Cambios
  <2>2. {"EXEC", "READY", "EXIT"} \subseteq Zonas BY DEF Zonas
  <2> QED BY <1>a, <1>b, <1>c, <1>5, <2>1, <2>2, VueltaDispatchMueve DEF Perdida
<1>6. CASE VueltaRecurso
  <2>1. /\ <<"EXEC", "EXIT">> \in Cambios /\ <<"EXEC", "BLOCKED">> \in Cambios
        /\ <<"BLOCKED", "READY">> \in Cambios
    BY DEF Cambios
  <2>2. {"EXEC", "BLOCKED", "READY", "EXIT"} \subseteq Zonas BY DEF Zonas
  <2> QED BY <1>a, <1>b, <1>6, <2>1, <2>2, VueltaRecursoMueve
<1>7. CASE Pares BY <1>a, <1>7, ParesMueve
<1>8. CASE \E i \in Interfaces : AtiendeInterfaz(i)
  BY <1>a, <1>c, <1>8, InterfazMueve DEF Perdida
<1>9. CASE UNCHANGED vars BY <1>9, CaidaQueda
<1> QED BY <1>1, <1>2, <1>3, <1>4, <1>5, <1>6, <1>7, <1>8, <1>9, QuienPasa

-----------------------------------------------------------------------------
(* No process in two places.                                               *)

LEMMA Cuentan == Tipado => \A s \in Sitios : \A p \in Numeros : En(s, p) \in Nat
  BY CuentasNaturales
LEMMA CuentanLuego == Tipado' => (\A s \in Sitios : \A p \in Numeros : En(s, p) \in Nat)'
  BY Cuentan, PTL

\* What moves is a process that was there and nowhere else, and it is now in the other place.
LEMMA PasaSolo ==
    ASSUME Tipado, Tipado', Repartidos, NEW a \in Sitios, NEW b \in Sitios, a # b,
           NEW x \in Numeros, Pasa(a, b, x)
    PROVE  /\ x \in 2..generador_pid /\ EstaSolo(a, x) /\ EstaSolo(b, x)'
           /\ \A p \in Numeros \ {x} : \A s \in Sitios : En(s, p)' = En(s, p)
<1>1. En(a, x) \in Nat /\ En(a, x)' \in Nat BY Cuentan, CuentanLuego
<1>2. En(a, x)' = En(a, x) - 1 /\ En(b, x)' = En(b, x) + 1 BY DEF Pasa, Contar
<1>3. En(a, x) # 0 BY <1>1, <1>2
<1>4. EstaSolo(a, x) /\ x \in 2..generador_pid
  BY <1>3 DEF Repartidos, NoEsta, EstaSolo
<1>5. \A s \in Sitios \ {a, b} : En(s, x)' = 0 BY <1>4 DEF Pasa, EstaSolo
<1>6. En(a, x)' = 0 /\ En(b, x)' = 1 BY <1>2, <1>4 DEF EstaSolo
<1>7. EstaSolo(b, x)' BY <1>5, <1>6 DEF EstaSolo
<1>8. ASSUME NEW p \in Numeros \ {x}, NEW s \in Sitios PROVE En(s, p)' = En(s, p)
  <2>1. Contar(p = x) = 0 BY DEF Contar
  <2>2. En(s, p) \in Nat BY Cuentan
  <2> QED BY <2>1, <2>2 DEF Pasa
<1> QED BY <1>4, <1>7, <1>8

\* What is created is in NEW and nowhere else.
LEMMA NaceSolo ==
    ASSUME Tipado, Tipado', Repartidos, Crea, NEW x, x = generador_pid + 1
    PROVE  /\ x \in Numeros /\ x \in 2..(generador_pid') /\ NoEsta(x) /\ EstaSolo(Zona("NEW"), x)'
           /\ \A p \in Numeros \ {x} : \A s \in Sitios : En(s, p)' = En(s, p)
<1>1. generador_pid \in 1..(MaxProc + 1) /\ generador_pid' \in 1..(MaxProc + 1)
      /\ generador_pid' = x
  BY DEF Tipado, TypeOK, TypeProcesos, Crea
<1>2. x \in Numeros /\ x \in 2..(generador_pid') /\ x \notin 2..generador_pid
  BY <1>1, ConstantesOK DEF Numeros
<1>3. NoEsta(x) BY <1>2 DEF Repartidos
<1>4. Nace(Zona("NEW"), x) BY DEF Crea
<1>5. Zona("NEW") \in Sitios BY FasesSon DEF Zonas
<1>6. En(Zona("NEW"), x)' = 1 /\ \A s \in Sitios \ {Zona("NEW")} : En(s, x)' = 0
  BY <1>2, <1>3, <1>4, <1>5 DEF Nace, NoEsta, Contar
<1>7. EstaSolo(Zona("NEW"), x)' BY <1>6 DEF EstaSolo
<1>8. ASSUME NEW p \in Numeros \ {x}, NEW s \in Sitios PROVE En(s, p)' = En(s, p)
  <2>1. Contar(p = x) = 0 BY DEF Contar
  <2>2. En(s, p) \in Nat BY Cuentan
  <2> QED BY <1>4, <2>1, <2>2 DEF Nace
<1> QED BY <1>2, <1>3, <1>7, <1>8

LEMMA RepartidosInit == ASSUME Init PROVE Repartidos /\ Presentes
<1>1. \A p : Cuantos(PidDe, p, <<>>) = 0 BY CuantosNada
<1>2. /\ \A h \in Hilos : EnMano(h) = <<>>
      /\ Marcando = <<>> /\ Enviando = <<>> /\ a_cpu = <<>> /\ DeLaCpu = <<>>
      /\ Uno(segundo["salida"]) = <<>> /\ Uno(segundo["vuelta"]) = <<>>
  BY DEF Init, EnMano, Uno, Marcando, Enviando, DeLaCpu, Quienes, Hilos
<1>3. \A q \in Colas : cola[q] = <<>> BY DEF Init
<1>4. \A i \in Interfaces : BloqDe(i) = <<>> /\ Uno(mano_io[i].o) = <<>>
  BY DEF Init, BloqDe, Quienes, Uno, SinBloque
<1>5. ASSUME NEW p PROVE \A z \in Zonas : EnZona(z, p) = 0
  BY <1>1, <1>2, <1>3 DEF EnZona, V, Zonas, Hilos, Colas
<1>6. ASSUME NEW p PROVE \A i \in Interfaces : EnIO(i, p) = 0 BY <1>1, <1>4 DEF EnIO, V
<1>7. ASSUME NEW p PROVE NoEsta(p) BY <1>5, <1>6, SitiosSon DEF NoEsta, Sitios
<1>8. generador_pid = 1 BY DEF Init
<1> QED BY <1>7, <1>8 DEF Repartidos, Presentes

\* No step of the kernel puts a process in a second place.
LEMMA RepartidosPaso ==
    ASSUME Tipado, Tipado', Repartidos,
           Queda \/ Crea \/ CambiaGrado \/ Admite \/ Retira \/ Despachar \/ Traslada \/ Perdida
    PROVE  /\ Repartidos'
           /\ Presentes /\ ~Perdida => Presentes'
<1>1. CASE Queda \/ CambiaGrado
  <2>1. \A s \in Sitios : \A p \in Numeros : En(s, p)' = En(s, p)
    BY <1>1 DEF Queda, CambiaGrado, Reposa
  <2>2. UNCHANGED generador_pid BY <1>1 DEF Queda, CambiaGrado, MismosCupos
  <2>3. generador_pid \in 1..(MaxProc + 1) BY DEF Tipado, TypeOK, TypeProcesos
  <2>4. \A p \in 2..generador_pid : p \in Numeros BY <2>3, ConstantesOK DEF Numeros
  <2> QED BY <2>1, <2>2, <2>4 DEF Repartidos, Presentes, NoEsta, EstaSolo
<1>2. CASE Crea
  <2> PICK x : x = generador_pid + 1 OBVIOUS
  <2>1. /\ x \in Numeros /\ x \in 2..(generador_pid') /\ EstaSolo(Zona("NEW"), x)'
        /\ \A p \in Numeros \ {x} : \A s \in Sitios : En(s, p)' = En(s, p)
    BY <1>2, NaceSolo
  <2>2. generador_pid' = x BY <1>2 DEF Crea
  <2>3. generador_pid \in 1..(MaxProc + 1) BY DEF Tipado, TypeOK, TypeProcesos
  <2>4. \A p \in 2..generador_pid : p \in Numeros \ {x} BY <2>3, ConstantesOK DEF Numeros
  <2>5. 2..(generador_pid') = 2..generador_pid \cup {x} BY <2>2, <2>3
  <2>6. \A p \in Numeros \ {x} : /\ NoEsta(p) => NoEsta(p)'
                                 /\ \A s \in Sitios : EstaSolo(s, p) => EstaSolo(s, p)'
    BY <2>1 DEF NoEsta, EstaSolo
  <2>7. Zona("NEW") \in Sitios BY FasesSon DEF Zonas
  <2> QED BY <2>1, <2>4, <2>5, <2>6, <2>7 DEF Repartidos, Presentes
<1>3. CASE Admite \/ Retira \/ Despachar \/ Traslada
  <2>1. PICK a \in Sitios, b \in Sitios : a # b /\ \E x \in Numeros : Pasa(a, b, x)
    <3>1. /\ Zona("NEW") # Zona("READY") /\ Zona("EXIT") # Zona("LIBERANDO")
          /\ Zona("READY") # Zona("EXEC")
      BY SitiosDistintos DEF Zonas
    <3>2. {Zona(z) : z \in {"NEW", "READY", "EXIT", "LIBERANDO", "EXEC"}} \subseteq Sitios
      BY FasesSon DEF Zonas
    <3> QED BY <1>3, <3>1, <3>2 DEF Admite, Retira, Despachar, Traslada, Mueve
  <2>2. PICK x \in Numeros : Pasa(a, b, x) BY <2>1
  <2>3. UNCHANGED generador_pid
    BY <1>3 DEF Admite, Retira, Despachar, Traslada, Mueve, MismosCupos
  <2>4. /\ x \in 2..generador_pid /\ EstaSolo(b, x)'
        /\ \A p \in Numeros \ {x} : \A s \in Sitios : En(s, p)' = En(s, p)
    BY <2>1, <2>2, PasaSolo
  <2>5. generador_pid \in 1..(MaxProc + 1) BY DEF Tipado, TypeOK, TypeProcesos
  <2>6. \A p \in 2..generador_pid : p \in Numeros BY <2>5, ConstantesOK DEF Numeros
  <2>7. \A p \in Numeros \ {x} : /\ NoEsta(p) => NoEsta(p)'
                                 /\ \A s \in Sitios : EstaSolo(s, p) => EstaSolo(s, p)'
    BY <2>4 DEF NoEsta, EstaSolo
  <2> QED BY <2>3, <2>4, <2>6, <2>7 DEF Repartidos, Presentes
<1>4. CASE Perdida
  <2>1. \A s \in Sitios : \A p \in Numeros : En(s, p)' <= En(s, p) BY <1>4 DEF Perdida, Pierde
  <2>2. UNCHANGED generador_pid BY <1>4 DEF Perdida, MismosCupos
  <2>3. \A s \in Sitios : \A p \in Numeros : En(s, p) \in Nat /\ En(s, p)' \in Nat
    BY Cuentan, CuentanLuego
  <2>4. \A p \in Numeros : NoEsta(p) => NoEsta(p)' BY <2>1, <2>3 DEF NoEsta
  <2>5. ASSUME NEW p \in Numeros, NEW s \in Sitios, EstaSolo(s, p)
        PROVE  NoEsta(p)' \/ EstaSolo(s, p)'
    <3>1. \A t \in Sitios \ {s} : En(t, p)' = 0 BY <2>1, <2>3, <2>5 DEF EstaSolo
    <3>2. En(s, p)' = 0 \/ En(s, p)' = 1 BY <2>1, <2>3, <2>5 DEF EstaSolo
    <3> QED BY <3>1, <3>2 DEF NoEsta, EstaSolo
  <2>6. ASSUME NEW p \in Numeros PROVE NoEsta(p)' \/ \E s \in Sitios : EstaSolo(s, p)'
    BY <2>4, <2>5 DEF Repartidos
  <2> QED BY <1>4, <2>2, <2>4, <2>6 DEF Repartidos
<1> QED BY <1>1, <1>2, <1>3, <1>4

Ubicados == Base /\ Ociosos /\ SinAsignar /\ NadieMata /\ Repartidos

LEMMA UbicadosInit == ASSUME Init PROVE Ubicados
<1>1. Ociosos /\ NadieMata BY DEF Init, Ociosos, NadieMata, Hilos, SinBloque
<1>2. SinAsignar BY DEF Init, SinAsignar
<1> QED BY <1>1, <1>2, BaseInit, RepartidosInit DEF Ubicados

LEMMA UbicadosPaso ==
    ASSUME Ubicados, "FINALIZAR_PROCESO" \notin Comandos, [Next]_vars
    PROVE  /\ Ubicados'
           /\ Queda \/ Crea \/ CambiaGrado \/ Admite \/ Retira \/ Despachar \/ Traslada \/ Perdida
<1>a. Base /\ Tipado /\ Ociosos /\ SinAsignar /\ NadieMata /\ Repartidos BY DEF Ubicados, Base
<1>1. NoEsta(0)
  <2>1. 0 \in Numeros \ 2..generador_pid BY ConstantesOK DEF Numeros
  <2> QED BY <1>a, <2>1 DEF Repartidos
<1>2. Queda \/ Crea \/ CambiaGrado \/ Admite \/ Retira \/ Despachar \/ Traslada \/ Perdida
  BY <1>a, <1>1, QuienMueve
<1>3. Base' /\ Tipado' BY <1>a, BasePaso DEF Base
<1>4. Ociosos' /\ NadieMata' BY <1>a, OciososPaso
<1>5. SinAsignar' BY <1>a, SinAsignarPaso
<1>6. Repartidos' BY <1>a, <1>2, <1>3, RepartidosPaso
<1> QED BY <1>2, <1>3, <1>4, <1>5, <1>6 DEF Ubicados

-----------------------------------------------------------------------------
(* The places as the properties of Kernel count them.                      *)

LEMMA VecesEsV ==
    ASSUME NEW s \in Seq(Objs), NEW p
    PROVE  Veces(p, s) = V(p, s) /\ V(p, s) \in Nat /\ (Esta(p, s) <=> V(p, s) # 0)
<1>1. \A n \in DOMAIN s : s[n] \in Objs OBVIOUS
<1>2. \A n \in DOMAIN s : PidDe[s[n]] = pcb[s[n]].pid BY <1>1 DEF PidDe
<1>3. {n \in DOMAIN s : pcb[s[n]].pid = p} = {n \in DOMAIN s : PidDe[s[n]] = p} BY <1>2
<1>4. Veces(p, s) = V(p, s) BY <1>3 DEF Veces, V, Cuantos
<1>5. V(p, s) \in Nat /\ (V(p, s) = 0 <=> \A n \in DOMAIN s : PidDe[s[n]] # p)
  BY CuantosNatural DEF V
<1> QED BY <1>2, <1>4, <1>5 DEF Esta

LEMMA VJunta ==
    ASSUME NEW s \in Seq(Objs), NEW t \in Seq(Objs), NEW p
    PROVE  s \o t \in Seq(Objs) /\ V(p, s \o t) = V(p, s) + V(p, t)
<1>1. s \o t \in Seq(Objs) OBVIOUS
<1> QED BY <1>1, CuantosJunta DEF V

LEMMA LugaresSon ==
    ASSUME Tipado, NEW p
    PROVE  /\ Veces(p, Lugares) = EnZona("NEW", p) + EnZona("READY", p) + EnZona("EXEC", p)
                                    + EnZona("BLOCKED", p) + EnZona("EXIT", p)
                                    + EnZona("LIBERANDO", p) + EnZona("FIN", p)
           /\ Esta(p, EnNew) <=> EnZona("NEW", p) # 0
           /\ Esta(p, EnReady) <=> EnZona("READY", p) # 0
           /\ Esta(p, EnExec) <=> EnZona("EXEC", p) # 0
           /\ Esta(p, EnRecurso) <=> EnZona("BLOCKED", p) # 0
           /\ Esta(p, cola["exit"]) <=> EnZona("EXIT", p) # 0
           /\ Esta(p, EnMano("salida")) <=> EnZona("LIBERANDO", p) # 0
           /\ \A i \in Interfaces : /\ Veces(p, EnInterfaz(i)) = EnIO(i, p)
                                    /\ Esta(p, EnInterfaz(i)) <=> EnIO(i, p) # 0
<1>a. Puestos \subseteq Seq(Objs) BY PuestosTipo
<1>1. EnNew \in Seq(Objs) /\ V(p, EnNew) = EnZona("NEW", p)
  <2> DEFINE r == EnMano("consola")
             s == cola["new"]
             t == EnMano("largo")
  <2>1. r \in Seq(Objs) /\ s \in Seq(Objs) /\ t \in Seq(Objs)
    BY <1>a DEF Puestos, ColasVivas, Colas
  <2>2. r \o s \in Seq(Objs) /\ V(p, r \o s) = V(p, r) + V(p, s) BY <2>1, VJunta
  <2>3. (r \o s) \o t \in Seq(Objs) /\ V(p, (r \o s) \o t) = V(p, r \o s) + V(p, t)
    BY <2>1, <2>2, VJunta
  <2> QED BY <2>2, <2>3 DEF EnNew, EnZona
<1>2. EnReady \in Seq(Objs) /\ V(p, EnReady) = EnZona("READY", p)
  <2> DEFINE r == cola["ready"]
             s == cola["ready_aux"]
  <2>1. r \in Seq(Objs) /\ s \in Seq(Objs) /\ Marcando \in Seq(Objs)
    BY <1>a DEF Puestos, ColasVivas, Colas
  <2>2. r \o s \in Seq(Objs) /\ V(p, r \o s) = V(p, r) + V(p, s) BY <2>1, VJunta
  <2>3. (r \o s) \o Marcando \in Seq(Objs) /\ V(p, (r \o s) \o Marcando) = V(p, r \o s) + V(p, Marcando)
    BY <2>1, <2>2, VJunta
  <2>4. EnReady = (r \o s) \o Marcando BY DEF EnReady, Marcando
  <2> QED BY <2>2, <2>3, <2>4 DEF EnZona
<1>3. EnExec \in Seq(Objs) /\ V(p, EnExec) = EnZona("EXEC", p)
  <2> DEFINE r == Enviando \o a_cpu
             s == r \o DeLaCpu
             t == EnMano("vuelta")
  <2>1. Enviando \in Seq(Objs) /\ a_cpu \in Seq(Objs) /\ DeLaCpu \in Seq(Objs) /\ t \in Seq(Objs)
    BY <1>a DEF Puestos
  <2>2. r \in Seq(Objs) /\ V(p, r) = V(p, Enviando) + V(p, a_cpu) BY <2>1, VJunta
  <2> HIDE DEF r
  <2>3. s \in Seq(Objs) /\ V(p, s) = V(p, r) + V(p, DeLaCpu) BY <2>1, <2>2, VJunta
  <2> HIDE DEF s
  <2>4. s \o t \in Seq(Objs) /\ V(p, s \o t) = V(p, s) + V(p, t) BY <2>1, <2>3, VJunta
  <2>5. EnExec = s \o t BY DEF EnExec, Enviando, DeLaCpu, Quienes, r, s
  <2> QED BY <2>2, <2>3, <2>4, <2>5 DEF EnZona
<1>4. EnRecurso \in Seq(Objs) /\ V(p, EnRecurso) = EnZona("BLOCKED", p)
  <2> DEFINE r == cola["recurso"]
             s == Uno(segundo["salida"])
             t == Uno(segundo["vuelta"])
  <2>1. r \in Seq(Objs) /\ s \in Seq(Objs) /\ t \in Seq(Objs)
    BY <1>a DEF Puestos, ColasVivas, Colas
  <2>2. r \o s \in Seq(Objs) /\ V(p, r \o s) = V(p, r) + V(p, s) BY <2>1, VJunta
  <2>3. (r \o s) \o t \in Seq(Objs) /\ V(p, (r \o s) \o t) = V(p, r \o s) + V(p, t)
    BY <2>1, <2>2, VJunta
  <2> QED BY <2>2, <2>3 DEF EnRecurso, EnZona
<1>5. /\ cola["exit"] \in Seq(Objs) /\ EnMano("salida") \in Seq(Objs)
      /\ cola["liberados"] \in Seq(Objs)
  BY <1>a DEF Puestos, ColasVivas, Colas
<1>6. EnSalida \in Seq(Objs) /\ V(p, EnSalida) = EnZona("LIBERANDO", p) + EnZona("FIN", p)
  BY <1>5, VJunta DEF EnSalida, EnZona
<1>7. V(p, cola["exit"]) = EnZona("EXIT", p) /\ V(p, EnMano("salida")) = EnZona("LIBERANDO", p)
  BY DEF EnZona
<1>8. ASSUME NEW i \in Interfaces
      PROVE  EnInterfaz(i) \in Seq(Objs) /\ V(p, EnInterfaz(i)) = EnIO(i, p)
  <2>1. BloqDe(i) \in Seq(Objs) /\ Uno(mano_io[i].o) \in Seq(Objs) BY <1>a DEF Puestos
  <2>2. EnInterfaz(i) = BloqDe(i) \o Uno(mano_io[i].o) BY DEF EnInterfaz, BloqDe, Quienes
  <2> QED BY <2>1, <2>2, VJunta DEF EnIO
<1>9. Lugares \in Seq(Objs)
      /\ V(p, Lugares) = V(p, EnNew) + V(p, EnReady) + V(p, EnExec) + V(p, EnRecurso)
                           + V(p, cola["exit"]) + V(p, EnSalida)
  <2> DEFINE a == EnNew \o EnReady
             b == a \o EnExec
             c == b \o EnRecurso
             d == c \o cola["exit"]
  <2>1. a \in Seq(Objs) /\ V(p, a) = V(p, EnNew) + V(p, EnReady) BY <1>1, <1>2, VJunta
  <2> HIDE DEF a
  <2>2. b \in Seq(Objs) /\ V(p, b) = V(p, a) + V(p, EnExec) BY <1>3, <2>1, VJunta
  <2> HIDE DEF b
  <2>3. c \in Seq(Objs) /\ V(p, c) = V(p, b) + V(p, EnRecurso) BY <1>4, <2>2, VJunta
  <2> HIDE DEF c
  <2>4. d \in Seq(Objs) /\ V(p, d) = V(p, c) + V(p, cola["exit"]) BY <1>5, <2>3, VJunta
  <2> HIDE DEF d
  <2>5. d \o EnSalida \in Seq(Objs) /\ V(p, d \o EnSalida) = V(p, d) + V(p, EnSalida)
    BY <1>6, <2>4, VJunta
  <2>6. Lugares = d \o EnSalida BY DEF Lugares, a, b, c, d
  <2> QED BY <2>1, <2>2, <2>3, <2>4, <2>5, <2>6
<1>10. \A z \in Zonas : EnZona(z, p) \in Nat BY CuentasNaturales
<1>11. Veces(p, Lugares) = V(p, Lugares) BY <1>9, VecesEsV
<1>12. Veces(p, Lugares) = EnZona("NEW", p) + EnZona("READY", p) + EnZona("EXEC", p)
                             + EnZona("BLOCKED", p) + EnZona("EXIT", p)
                             + EnZona("LIBERANDO", p) + EnZona("FIN", p)
  BY <1>1, <1>2, <1>3, <1>4, <1>6, <1>7, <1>9, <1>10, <1>11 DEF Zonas
<1> QED BY <1>1, <1>2, <1>3, <1>4, <1>5, <1>7, <1>8, <1>12, VecesEsV

EnInterfaces(p) == {i \in Interfaces : Esta(p, EnInterfaz(i))}

LEMMA CuentaDeUno ==
    ASSUME Tipado, NEW p
    PROVE  /\ NoEsta(p) => Veces(p, Lugares) + Cardinality(EnInterfaces(p)) = 0
           /\ \A s \in Sitios : EstaSolo(s, p)
                => Veces(p, Lugares) + Cardinality(EnInterfaces(p)) = 1
           /\ (NoEsta(p) \/ \E s \in Sitios : EstaSolo(s, p))
                => \A i \in EnInterfaces(p) : Veces(p, EnInterfaz(i)) = 1
<1>a. /\ Veces(p, Lugares) = EnZona("NEW", p) + EnZona("READY", p) + EnZona("EXEC", p)
                               + EnZona("BLOCKED", p) + EnZona("EXIT", p)
                               + EnZona("LIBERANDO", p) + EnZona("FIN", p)
      /\ \A i \in Interfaces : /\ Veces(p, EnInterfaz(i)) = EnIO(i, p)
                               /\ Esta(p, EnInterfaz(i)) <=> EnIO(i, p) # 0
  BY LugaresSon
<1>b. EnInterfaces(p) = {i \in Interfaces : EnIO(i, p) # 0} BY <1>a DEF EnInterfaces
<1>c. /\ \A z \in Zonas : Zona(z) \in Sitios /\ En(Zona(z), p) = EnZona(z, p)
      /\ \A i \in Interfaces : DeIO(i) \in Sitios /\ En(DeIO(i), p) = EnIO(i, p)
  BY SitiosSon
<1>d. Cardinality({}) = 0 BY FS_EmptySet
<1>1. ASSUME NoEsta(p)
      PROVE  Veces(p, Lugares) + Cardinality(EnInterfaces(p)) = 0 /\ EnInterfaces(p) = {}
  <2>1. \A z \in Zonas : EnZona(z, p) = 0 BY <1>1, <1>c DEF NoEsta
  <2>2. EnInterfaces(p) = {} BY <1>1, <1>b, <1>c DEF NoEsta
  <2> QED BY <1>a, <1>d, <2>1, <2>2 DEF Zonas
<1>2. ASSUME NEW s \in Sitios, EstaSolo(s, p)
      PROVE  /\ Veces(p, Lugares) + Cardinality(EnInterfaces(p)) = 1
             /\ \A i \in EnInterfaces(p) : Veces(p, EnInterfaz(i)) = 1
  <2>1. CASE \E z \in Zonas : s = Zona(z)
    <3> PICK z \in Zonas : s = Zona(z) BY <2>1
    <3>1. EnZona(z, p) = 1 BY <1>2, <1>c DEF EstaSolo
    <3>2. ASSUME NEW y \in Zonas, y # z PROVE EnZona(y, p) = 0
      <4>1. Zona(y) # s BY <3>2, SitiosDistintos
      <4> QED BY <1>2, <1>c, <4>1 DEF EstaSolo
    <3>3. ASSUME NEW i \in Interfaces PROVE EnIO(i, p) = 0
      <4>1. DeIO(i) # s BY SitiosDistintos
      <4> QED BY <1>2, <1>c, <4>1 DEF EstaSolo
    <3>4. EnInterfaces(p) = {} BY <1>b, <3>3
    <3>5. Veces(p, Lugares) = 1 BY <1>a, <3>1, <3>2 DEF Zonas
    <3> QED BY <1>d, <3>4, <3>5
  <2>2. CASE \E i \in Interfaces : s = DeIO(i)
    <3> PICK j \in Interfaces : s = DeIO(j) BY <2>2
    <3>1. EnIO(j, p) = 1 BY <1>2, <1>c DEF EstaSolo
    <3>2. ASSUME NEW y \in Zonas PROVE EnZona(y, p) = 0
      <4>1. Zona(y) # s BY SitiosDistintos
      <4> QED BY <1>2, <1>c, <4>1 DEF EstaSolo
    <3>3. ASSUME NEW i \in Interfaces, i # j PROVE EnIO(i, p) = 0
      <4>1. DeIO(i) # s BY <3>3, SitiosDistintos
      <4> QED BY <1>2, <1>c, <4>1 DEF EstaSolo
    <3>4. EnInterfaces(p) = {j} BY <1>b, <3>1, <3>3
    <3>5. Cardinality({j}) = 1 BY FS_Singleton
    <3>6. Veces(p, Lugares) = 0 BY <1>a, <3>2 DEF Zonas
    <3> QED BY <1>a, <3>1, <3>4, <3>5, <3>6
  <2> QED BY <2>1, <2>2 DEF Sitios
<1> QED BY <1>1, <1>2

LEMMA DobleSi == ASSUME Tipado, Repartidos PROVE NuncaDoble
<1> SUFFICES ASSUME NEW p \in Pids
             PROVE  /\ Veces(p, Lugares) + Cardinality(EnInterfaces(p)) <= 1
                    /\ \A i \in EnInterfaces(p) : Veces(p, EnInterfaz(i)) = 1
  BY DEF NuncaDoble, EnInterfaces
<1>1. p \in Numeros BY ConstantesOK DEF Pids, Numeros
<1>2. NoEsta(p) \/ \E s \in Sitios : EstaSolo(s, p) BY <1>1 DEF Repartidos
<1> QED BY <1>2, CuentaDeUno

\* No process is in two places, nor twice in one: it is never dispatched while it waits for
\* an interface, queued twice nor finished twice, whatever the CPU answers and whichever
\* interfaces come, fail and leave, with resources or without, under every algorithm, as
\* long as FINALIZAR_PROCESO is not used (kernel.c 105-139 takes a PCB from a list by a
\* position found before).
THEOREM NadieDosVeces ==
    ASSUME "FINALIZAR_PROCESO" \notin Comandos
    PROVE  Spec => []NuncaDoble
<1>1. Init => Ubicados BY UbicadosInit
<1>2. Ubicados /\ [Next]_vars => Ubicados' BY UbicadosPaso
<1>3. Ubicados => NuncaDoble BY DobleSi DEF Ubicados, Base
<1> QED BY <1>1, <1>2, <1>3, PTL DEF Spec

-----------------------------------------------------------------------------
(* No process lost.                                                        *)

\* Nobody takes a process out of the round: the operator kills none, the CPU knows every
\* instruction (it answers EXIT_CONSOLA to another one, cpu.c 207-208), the interfaces
\* stay, and a GENERICA does not answer that it failed (entradasalida.c never does, 335-338).
NadaSePierde == /\ "FINALIZAR_PROCESO" \notin Comandos
                /\ \A r \in Retornos : r.motivo # "EXIT_CONSOLA"
                /\ PuedenCerrar = {}
                /\ 0 \in RespuestasIO => \A i \in Interfaces : Tipo[i] # "GENERICA"

Enteros == Ubicados /\ Presentes /\ Motivados /\ Conexos

LEMMA EnterosInit == ASSUME Init PROVE Enteros
<1>1. Motivados /\ Conexos BY DEF Init, Motivados, Conexos
<1> QED BY <1>1, UbicadosInit, RepartidosInit DEF Enteros

LEMMA EnterosPaso ==
    ASSUME NadaSePierde, Enteros, [Next]_vars
    PROVE  /\ Enteros'
           /\ Queda \/ Crea \/ CambiaGrado \/ Admite \/ Retira \/ Despachar \/ Traslada
<1>a. Ubicados /\ Base /\ Tipado /\ Repartidos /\ Presentes /\ Motivados /\ Conexos
  BY DEF Enteros, Ubicados, Base
<1>1. ~Perdida
  <2>1. ret.motivo # "EXIT_CONSOLA" BY <1>a DEF Motivados, NadaSePierde, SinRetorno
  <2>2. \A i \in Interfaces : pc_io[i] \notin {"destruye", "liberada"} BY <1>a DEF Conexos
  <2> QED BY <2>1, <2>2 DEF Perdida, NadaSePierde
<1>2. /\ Ubicados'
      /\ Queda \/ Crea \/ CambiaGrado \/ Admite \/ Retira \/ Despachar \/ Traslada \/ Perdida
  BY <1>a, UbicadosPaso DEF NadaSePierde
<1>3. Tipado' BY <1>2 DEF Ubicados, Base
<1>4. Presentes' BY <1>a, <1>1, <1>2, <1>3, RepartidosPaso
<1>5. Motivados' /\ Conexos' BY <1>a, MotivadosPaso, ConexosPaso DEF NadaSePierde
<1> QED BY <1>1, <1>2, <1>4, <1>5 DEF Enteros

LEMMA SoloLugarSi == ASSUME Tipado, Repartidos, Presentes PROVE UnSoloLugar
<1> SUFFICES ASSUME NEW p \in Pids
             PROVE  /\ \A i \in EnInterfaces(p) : Veces(p, EnInterfaz(i)) = 1
                    /\ Veces(p, Lugares) + Cardinality(EnInterfaces(p)) = Contar(p <= generador_pid)
  BY DEF UnSoloLugar, EnInterfaces
<1>1. p \in Numeros /\ generador_pid \in Nat /\ p \in Nat \ {0, 1}
  BY ConstantesOK DEF Pids, Numeros, Tipado, TypeOK, TypeProcesos
<1>2. CASE p <= generador_pid
  <2>1. \E s \in Sitios : EstaSolo(s, p) BY <1>1, <1>2 DEF Presentes
  <2> QED BY <1>2, <2>1, CuentaDeUno DEF Contar
<1>3. CASE ~(p <= generador_pid)
  <2>1. NoEsta(p) BY <1>1, <1>3 DEF Repartidos
  <2> QED BY <1>3, <2>1, CuentaDeUno DEF Contar
<1> QED BY <1>2, <1>3

\* Every process created is in one place and in one only, for any number of processes and
\* interfaces, any algorithm, degree and resources: between two queues it is in the hand
\* of one thread (kernel.c 396-445, 496-513, 560-715, 859-982, 1051-1220).
THEOREM CadaUnoEnSuLugar ==
    ASSUME NadaSePierde PROVE Spec => []UnSoloLugar
<1>1. Init => Enteros BY EnterosInit
<1>2. Enteros /\ [Next]_vars => Enteros' BY EnterosPaso
<1>3. Enteros => UnSoloLugar BY SoloLugarSi DEF Enteros, Ubicados, Base
<1> QED BY <1>1, <1>2, <1>3, PTL DEF Spec

-----------------------------------------------------------------------------
(* The phase of a process, by the place where it is.                       *)

LEMMA FaseEs ==
    Tipado /\ Repartidos
      => /\ \A p \in Pids : p > generador_pid => Fase[p] = "SIN_CREAR"
         /\ \A p \in Pids : \A s \in Sitios :
              p <= generador_pid /\ EstaSolo(s, p) => Fase[p] = FaseDelSitio(s)
<1> SUFFICES ASSUME Tipado, Repartidos, NEW p \in Pids
             PROVE  /\ p > generador_pid => Fase[p] = "SIN_CREAR"
                    /\ \A s \in Sitios : p <= generador_pid /\ EstaSolo(s, p)
                                           => Fase[p] = FaseDelSitio(s)
  OBVIOUS
<1>1. Fase[p] = FaseDe(p) BY DEF Fase
<1>2. p \in Nat \ {0, 1} /\ p \in Numeros /\ generador_pid \in Nat
  BY ConstantesOK DEF Pids, Numeros, Tipado, TypeOK, TypeProcesos
<1>3. /\ Esta(p, EnNew) <=> EnZona("NEW", p) # 0
      /\ Esta(p, EnReady) <=> EnZona("READY", p) # 0
      /\ Esta(p, EnExec) <=> EnZona("EXEC", p) # 0
      /\ Esta(p, EnRecurso) <=> EnZona("BLOCKED", p) # 0
      /\ Esta(p, cola["exit"]) <=> EnZona("EXIT", p) # 0
      /\ Esta(p, EnMano("salida")) <=> EnZona("LIBERANDO", p) # 0
      /\ \A i \in Interfaces : Esta(p, EnInterfaz(i)) <=> EnIO(i, p) # 0
  BY LugaresSon
<1>4. /\ \A z \in Zonas : En(Zona(z), p) = EnZona(z, p)
      /\ \A i \in Interfaces : En(DeIO(i), p) = EnIO(i, p)
  BY SitiosSon
<1>5. ASSUME p > generador_pid PROVE Fase[p] = "SIN_CREAR"
  <2>1. NoEsta(p) BY <1>2, <1>5 DEF Repartidos
  <2>2. /\ \A z \in Zonas : EnZona(z, p) = 0
        /\ \A i \in Interfaces : EnIO(i, p) = 0
    BY <1>4, <2>1, FasesSon DEF NoEsta
  <2> QED BY <1>1, <1>3, <1>5, <2>2 DEF FaseDe, Zonas
<1>6. ASSUME NEW s \in Sitios, p <= generador_pid, EstaSolo(s, p)
      PROVE  Fase[p] = FaseDelSitio(s)
  <2>1. ~(p > generador_pid) BY <1>2, <1>6
  <2>2. \A z \in Zonas : s # Zona(z) => EnZona(z, p) = 0
    BY <1>4, <1>6, FasesSon DEF EstaSolo
  <2>3. \A i \in Interfaces : s # DeIO(i) => EnIO(i, p) = 0
    BY <1>4, <1>6, FasesSon DEF EstaSolo
  <2>4. CASE \E z \in Zonas : s = Zona(z)
    <3> PICK z \in Zonas : s = Zona(z) BY <2>4
    <3>1. EnZona(z, p) = 1 BY <1>4, <1>6 DEF EstaSolo
    <3>2. \A y \in Zonas \ {z} : EnZona(y, p) = 0 BY <2>2, SitiosDistintos
    <3>3. \A i \in Interfaces : EnIO(i, p) = 0 BY <2>3, SitiosDistintos
    <3>4. FaseDe(p) = z BY <1>3, <2>1, <3>1, <3>2, <3>3 DEF FaseDe, Zonas
    <3> QED BY <1>1, <3>4, FasesSon
  <2>5. CASE \E i \in Interfaces : s = DeIO(i)
    <3> PICK i \in Interfaces : s = DeIO(i) BY <2>5
    <3>1. EnIO(i, p) = 1 BY <1>4, <1>6 DEF EstaSolo
    <3>2. \A y \in Zonas : EnZona(y, p) = 0 BY <2>2, SitiosDistintos
    <3>3. FaseDe(p) = "BLOCKED" BY <1>3, <2>1, <3>1, <3>2 DEF FaseDe, Zonas
    <3> QED BY <1>1, <3>3, FasesSon
  <2> QED BY <2>4, <2>5 DEF Sitios
<1> QED BY <1>5, <1>6
LEMMA FaseEsLuego ==
    Tipado' /\ Repartidos'
      => (/\ \A p \in Pids : p > generador_pid => Fase[p] = "SIN_CREAR"
          /\ \A p \in Pids : \A s \in Sitios :
               p <= generador_pid /\ EstaSolo(s, p) => Fase[p] = FaseDelSitio(s))'
  BY FaseEs, PTL

\* What a step does to the phases: no more than to the places.
LEMMA FasesQuedan ==
    ASSUME Tipado, Tipado', Repartidos, Repartidos', Presentes, Queda \/ CambiaGrado
    PROVE  Fase' = Fase
<1>a. UNCHANGED generador_pid /\ Reposa BY DEF Queda, CambiaGrado, MismosCupos
<1>b. generador_pid \in Nat /\ \A p \in Pids : p \in Nat \ {0, 1} /\ p \in Numeros
  BY ConstantesOK DEF Pids, Numeros, Tipado, TypeOK, TypeProcesos
<1>1. ASSUME NEW p \in Pids PROVE Fase'[p] = Fase[p]
  <2>1. CASE p > generador_pid BY <1>a, <2>1, FaseEs, FaseEsLuego
  <2>2. CASE p <= generador_pid
    <3>1. PICK s \in Sitios : EstaSolo(s, p) BY <1>b, <2>2 DEF Presentes
    <3>2. EstaSolo(s, p)' BY <1>a, <1>b, <3>1 DEF EstaSolo, Reposa
    <3>3. Fase[p] = FaseDelSitio(s) BY <2>2, <3>1, FaseEs
    <3>4. Fase'[p] = FaseDelSitio(s) BY <1>a, <2>2, <3>2, FaseEsLuego
    <3> QED BY <3>3, <3>4
  <2> QED BY <1>b, <2>1, <2>2
<1> QED BY <1>1 DEF Fase

LEMMA FaseCambia ==
    ASSUME Tipado, Tipado', Repartidos, Repartidos', Presentes, UNCHANGED generador_pid,
           NEW a \in Sitios, NEW b \in Sitios, a # b, NEW x \in Numeros, Pasa(a, b, x)
    PROVE  /\ x \in Pids /\ Fase[x] = FaseDelSitio(a)
           /\ Fase' = [Fase EXCEPT ![x] = FaseDelSitio(b)]
<1>a. /\ generador_pid \in Nat /\ \A p \in Pids : p \in Nat \ {0, 1} /\ p \in Numeros
      /\ 2..generador_pid \subseteq Pids
  BY ConstantesOK DEF Pids, Numeros, Tipado, TypeOK, TypeProcesos
<1>1. /\ x \in 2..generador_pid /\ EstaSolo(a, x) /\ EstaSolo(b, x)'
      /\ \A p \in Numeros \ {x} : \A s \in Sitios : En(s, p)' = En(s, p)
  BY PasaSolo
<1>2. x \in Pids /\ x <= generador_pid BY <1>a, <1>1
<1>3. Fase[x] = FaseDelSitio(a) /\ Fase'[x] = FaseDelSitio(b)
  BY <1>1, <1>2, FaseEs, FaseEsLuego
<1>4. ASSUME NEW p \in Pids \ {x} PROVE Fase'[p] = Fase[p]
  <2>1. CASE p > generador_pid BY <2>1, FaseEs, FaseEsLuego
  <2>2. CASE p <= generador_pid
    <3>1. PICK s \in Sitios : EstaSolo(s, p) BY <1>a, <2>2 DEF Presentes
    <3>2. EstaSolo(s, p)' BY <1>a, <1>1, <3>1 DEF EstaSolo
    <3>3. Fase[p] = FaseDelSitio(s) BY <2>2, <3>1, FaseEs
    <3>4. Fase'[p] = FaseDelSitio(s) BY <2>2, <3>2, FaseEsLuego
    <3> QED BY <3>3, <3>4
  <2> QED BY <1>a, <2>1, <2>2
<1> QED BY <1>2, <1>3, <1>4 DEF Fase

LEMMA FaseNace ==
    ASSUME Tipado, Tipado', Repartidos, Repartidos', Presentes, Crea, NEW x, x = generador_pid + 1
    PROVE  x \in Pids /\ Fase[x] = "SIN_CREAR" /\ Fase' = [Fase EXCEPT ![x] = "NEW"]
<1>a. /\ generador_pid \in 1..(MaxProc + 1) /\ generador_pid' \in 1..(MaxProc + 1)
      /\ generador_pid' = x /\ \A p \in Pids : p \in Nat \ {0, 1} /\ p \in Numeros
  BY ConstantesOK DEF Pids, Numeros, Tipado, TypeOK, TypeProcesos, Crea
<1>1. /\ EstaSolo(Zona("NEW"), x)'
      /\ \A p \in Numeros \ {x} : \A s \in Sitios : En(s, p)' = En(s, p)
  BY NaceSolo
<1>2. x \in Pids /\ x > generador_pid /\ x <= generador_pid' BY <1>a, ConstantesOK DEF Pids
<1>3. Fase[x] = "SIN_CREAR" BY <1>2, FaseEs
<1>4. Fase'[x] = "NEW"
  <2>1. Zona("NEW") \in Sitios /\ FaseDelSitio(Zona("NEW")) = "NEW" BY FasesSon DEF Zonas
  <2> QED BY <1>1, <1>2, <2>1, FaseEsLuego
<1>5. ASSUME NEW p \in Pids \ {x} PROVE Fase'[p] = Fase[p]
  <2>1. CASE p > generador_pid
    <3>1. p > generador_pid' BY <1>a, <2>1
    <3> QED BY <2>1, <3>1, FaseEs, FaseEsLuego
  <2>2. CASE p <= generador_pid
    <3>1. PICK s \in Sitios : EstaSolo(s, p) BY <1>a, <2>2 DEF Presentes
    <3>2. EstaSolo(s, p)' BY <1>a, <1>1, <3>1 DEF EstaSolo
    <3>3. Fase[p] = FaseDelSitio(s) BY <2>2, <3>1, FaseEs
    <3>4. p <= generador_pid' BY <1>a, <2>2
    <3>5. Fase'[p] = FaseDelSitio(s) BY <3>2, <3>4, FaseEsLuego
    <3> QED BY <3>3, <3>5
  <2> QED BY <1>a, <2>1, <2>2
<1> QED BY <1>2, <1>3, <1>4, <1>5 DEF Fase

\* How many processes hold a slot when one of them changes phase.
ConCupo(F) == {p \in Pids : F[p] \in Ciclo!Admitidas}

LEMMA CuposFinitos == ASSUME NEW F PROVE IsFiniteSet(ConCupo(F)) /\ Cardinality(ConCupo(F)) \in Nat
<1>1. IsFiniteSet(Pids) BY ConstantesOK, FS_Interval DEF Pids
<1>2. IsFiniteSet(ConCupo(F)) BY <1>1, FS_Subset DEF ConCupo
<1> QED BY <1>2, FS_CardinalityType

LEMMA CuposCambian ==
    ASSUME NEW F, NEW G, NEW x \in Pids, \A p \in Pids \ {x} : G[p] = F[p]
    PROVE  /\ F[x] \notin Ciclo!Admitidas /\ G[x] \in Ciclo!Admitidas
                => Cardinality(ConCupo(G)) = Cardinality(ConCupo(F)) + 1
           /\ F[x] \in Ciclo!Admitidas /\ G[x] \notin Ciclo!Admitidas
                => Cardinality(ConCupo(G)) = Cardinality(ConCupo(F)) - 1
           /\ (F[x] \in Ciclo!Admitidas <=> G[x] \in Ciclo!Admitidas)
                => Cardinality(ConCupo(G)) = Cardinality(ConCupo(F))
<1>1. ASSUME F[x] \notin Ciclo!Admitidas, G[x] \in Ciclo!Admitidas
      PROVE  Cardinality(ConCupo(G)) = Cardinality(ConCupo(F)) + 1
  <2>1. ConCupo(G) = ConCupo(F) \cup {x} /\ x \notin ConCupo(F) BY <1>1 DEF ConCupo
  <2> QED BY <2>1, CuposFinitos, FS_AddElement
<1>2. ASSUME F[x] \in Ciclo!Admitidas, G[x] \notin Ciclo!Admitidas
      PROVE  Cardinality(ConCupo(G)) = Cardinality(ConCupo(F)) - 1
  <2>1. ConCupo(G) = ConCupo(F) \ {x} /\ x \in ConCupo(F) BY <1>2 DEF ConCupo
  <2> QED BY <2>1, CuposFinitos, FS_RemoveElement
<1>3. ASSUME F[x] \in Ciclo!Admitidas <=> G[x] \in Ciclo!Admitidas
      PROVE  Cardinality(ConCupo(G)) = Cardinality(ConCupo(F))
  <2>1. ConCupo(G) = ConCupo(F) BY <1>3 DEF ConCupo
  <2> QED BY <2>1
<1> QED BY <1>1, <1>2, <1>3

\* Every step of the kernel, by what it does to the phases and the slots.
MismoCupo == UNCHANGED <<grado, sem["multiprogramacion"]>>
Salta(de, a) == \E x \in Pids : Ciclo!Pasa(x, de, a)

LEMMA FasesPaso ==
    ASSUME NadaSePierde, Enteros, [Next]_vars
    PROVE  \/ MismoCupo /\ Fase' = Fase
           \/ CambiaGrado /\ Fase' = Fase
           \/ MismoCupo /\ Salta("SIN_CREAR", "NEW")
           \/ Admite /\ Salta("NEW", "READY")
           \/ Retira /\ Salta("EXIT", "LIBERANDO")
           \/ MismoCupo /\ MarcaExec /\ Salta("READY", "EXEC")
           \/ MismoCupo /\ \E c \in Cambios : Salta(c[1], c[2])
<1>a. /\ Enteros'
      /\ Queda \/ Crea \/ CambiaGrado \/ Admite \/ Retira \/ Despachar \/ Traslada
  BY EnterosPaso
<1>b. Tipado /\ Tipado' /\ Repartidos /\ Repartidos' /\ Presentes
  BY <1>a DEF Enteros, Ubicados, Base
<1>c. ASSUME NEW a \in Sitios, NEW b \in Sitios, a # b, UNCHANGED generador_pid,
             \E x \in Numeros : Pasa(a, b, x)
      PROVE  Salta(FaseDelSitio(a), FaseDelSitio(b))
  <2>1. PICK x \in Numeros : Pasa(a, b, x) BY <1>c
  <2> QED BY <1>b, <1>c, <2>1, FaseCambia DEF Salta, Ciclo!Pasa
<1>d. ASSUME NEW y \in Zonas, NEW z \in Zonas, y # z, UNCHANGED generador_pid,
             \E x \in Numeros : Pasa(Zona(y), Zona(z), x)
      PROVE  Salta(y, z)
  <2>1. Zona(y) # Zona(z) /\ Zona(y) \in Sitios /\ Zona(z) \in Sitios
    BY <1>d, SitiosDistintos, FasesSon
  <2>2. FaseDelSitio(Zona(y)) = y /\ FaseDelSitio(Zona(z)) = z BY FasesSon
  <2> QED BY <1>c, <1>d, <2>1, <2>2
<1>1. CASE Queda BY <1>b, <1>1, FasesQuedan DEF Queda, MismosCupos, MismoCupo
<1>2. CASE CambiaGrado BY <1>b, <1>2, FasesQuedan
<1>3. CASE Crea
  <2> PICK x : x = generador_pid + 1 OBVIOUS
  <2> QED BY <1>b, <1>3, FaseNace DEF Salta, Ciclo!Pasa, MismoCupo, Crea
<1>4. CASE Admite
  <2>1. Salta("NEW", "READY") BY <1>d, <1>4 DEF Admite, Zonas
  <2> QED BY <1>4, <2>1
<1>5. CASE Retira
  <2>1. Salta("EXIT", "LIBERANDO") BY <1>d, <1>5 DEF Retira, Zonas
  <2> QED BY <1>5, <2>1
<1>6. CASE Despachar
  <2>1. Salta("READY", "EXEC") BY <1>d, <1>6 DEF Despachar, Mueve, MismosCupos, Zonas
  <2> QED BY <1>6, <2>1 DEF Despachar, Mueve, MismosCupos, MismoCupo
<1>7. CASE Traslada
  <2>1. PICK a \in Sitios, b \in Sitios :
               a # b /\ <<FaseDelSitio(a), FaseDelSitio(b)>> \in Cambios /\ Mueve(a, b)
    BY <1>7 DEF Traslada
  <2>2. Salta(FaseDelSitio(a), FaseDelSitio(b)) BY <1>c, <2>1 DEF Mueve, MismosCupos
  <2>3. MismoCupo BY <2>1 DEF Mueve, MismosCupos, MismoCupo
  <2> QED BY <2>1, <2>2, <2>3
<1> QED BY <1>a, <1>1, <1>2, <1>3, <1>4, <1>5, <1>6, <1>7

LEMMA SaltaCupos ==
    ASSUME NEW de \in Ciclo!Fases, NEW a \in Ciclo!Fases, Salta(de, a)
    PROVE  /\ de \notin Ciclo!Admitidas /\ a \in Ciclo!Admitidas
                => Cardinality(ConCupo(Fase')) = Cardinality(ConCupo(Fase)) + 1
           /\ de \in Ciclo!Admitidas /\ a \notin Ciclo!Admitidas
                => Cardinality(ConCupo(Fase')) = Cardinality(ConCupo(Fase)) - 1
           /\ (de \in Ciclo!Admitidas <=> a \in Ciclo!Admitidas)
                => Cardinality(ConCupo(Fase')) = Cardinality(ConCupo(Fase))
<1>1. PICK x \in Pids : Fase[x] = de /\ Fase' = [Fase EXCEPT ![x] = a]
  BY DEF Salta, Ciclo!Pasa
<1>2. Fase'[x] = a /\ \A p \in Pids \ {x} : Fase'[p] = Fase[p]
  <2>1. DOMAIN Fase = Pids BY DEF Fase
  <2> QED BY <1>1, <2>1
<1> PICK F, G : F = Fase /\ G = Fase' OBVIOUS
<1>3. F[x] = de /\ G[x] = a /\ \A p \in Pids \ {x} : G[p] = F[p] BY <1>1, <1>2
<1>4. /\ Cardinality(ConCupo(F)) = Cardinality(ConCupo(Fase))
      /\ Cardinality(ConCupo(G)) = Cardinality(ConCupo(Fase'))
  OBVIOUS
<1> QED BY <1>3, <1>4, CuposCambian

LEMMA CuposPaso ==
    ASSUME NadaSePierde, Enteros, CuposExactos, [Next]_vars
    PROVE  CuposExactos'
<1> DEFINE n == Cardinality(ConCupo(Fase))
           m == Cardinality(ConCupo(Fase'))
<1>a. Tipado /\ Tipado' BY EnterosPaso DEF Enteros, Ubicados, Base
<1>b. sem["multiprogramacion"] \in Nat /\ sem'["multiprogramacion"] \in Nat
  BY <1>a DEF Tipado, TypeOK, TypeSem, Semaforos
<1>c. n \in Nat /\ m \in Nat BY CuposFinitos
<1>d. sem["multiprogramacion"] + n = grado BY DEF CuposExactos, Ciclo!Admitidos, ConCupo
<1>e. CuposExactos' <=> sem'["multiprogramacion"] + m = grado'
  BY DEF CuposExactos, Ciclo!Admitidos, ConCupo
<1>1. CASE Fase' = Fase /\ (MismoCupo \/ CambiaGrado)
  <2>1. m = n BY <1>1
  <2> QED BY <1>1, <1>b, <1>c, <1>d, <1>e, <2>1 DEF MismoCupo, CambiaGrado
<1>2. CASE MismoCupo /\ (\/ Salta("SIN_CREAR", "NEW") \/ Salta("READY", "EXEC")
                         \/ \E c \in Cambios : Salta(c[1], c[2]))
  <2>1. m = n BY <1>2, SaltaCupos DEF Ciclo!Fases, Ciclo!Admitidas, Cambios
  <2> QED BY <1>2, <1>b, <1>c, <1>d, <1>e, <2>1 DEF MismoCupo
<1>3. CASE Admite /\ Salta("NEW", "READY")
  <2>1. m = n + 1 BY <1>3, SaltaCupos DEF Ciclo!Fases, Ciclo!Admitidas
  <2> QED BY <1>3, <1>b, <1>c, <1>d, <1>e, <2>1 DEF Admite
<1>4. CASE Retira /\ Salta("EXIT", "LIBERANDO")
  <2>1. m = n - 1 BY <1>4, SaltaCupos DEF Ciclo!Fases, Ciclo!Admitidas
  <2> QED BY <1>4, <1>b, <1>c, <1>d, <1>e, <2>1 DEF Retira
<1> QED BY <1>1, <1>2, <1>3, <1>4, FasesPaso

LEMMA CuposInit == ASSUME Init PROVE CuposExactos /\ Ciclo!Init
<1>1. Tipado /\ Repartidos BY UbicadosInit DEF Ubicados, Base
<1>2. generador_pid = 1 /\ \A p \in Pids : p > 1 BY ConstantesOK DEF Init, Pids
<1>3. \A p \in Pids : Fase[p] = "SIN_CREAR" BY <1>1, <1>2, FaseEs
<1>4. ConCupo(Fase) = {} BY <1>3 DEF ConCupo, Ciclo!Admitidas
<1>5. Cardinality(Ciclo!Admitidos) = 0
  BY <1>4, FS_EmptySet DEF ConCupo, Ciclo!Admitidos
<1>6. grado \in MultiInicial /\ sem["multiprogramacion"] = grado /\ grado \in Nat
  BY ConstantesOK DEF Init, Semaforos
<1>7. Fase = [p \in Pids |-> "SIN_CREAR"] BY <1>3 DEF Fase
<1> QED BY <1>5, <1>6, <1>7 DEF CuposExactos, Ciclo!Init

\* The slots never get lost nor invented: the free ones and the processes between READY
\* and EXIT add up to those given, for any number of processes and interfaces, any
\* algorithm, resources and changes of the degree (sem_multiprogramacion: kernel.c 416,
\* 501 and, for MULTIPROGRAMACION, 340-353).
THEOREM CuposSuman ==
    ASSUME NadaSePierde PROVE Spec => []CuposExactos
<1>1. Init => Enteros /\ CuposExactos BY EnterosInit, CuposInit
<1>2. Enteros /\ CuposExactos /\ [Next]_vars => (Enteros /\ CuposExactos)'
  BY EnterosPaso, CuposPaso
<1> QED BY <1>1, <1>2, PTL DEF Spec

-----------------------------------------------------------------------------
(* The kernel keeps what CicloDeVida promises.                             *)

\* When the dispatcher takes a process to EXEC the turn is its own, so the CPU has answered
\* and what it answered is already somewhere else.
LEMMA NadieEnExec ==
    ASSUME Enteros, SinDeRecursos, Alternancia, MarcaExec
    PROVE  \A p \in Pids : Fase[p] # "EXEC"
<1>a. Tipado /\ Repartidos /\ Presentes /\ Ociosos BY DEF Enteros, Ubicados, Base
<1>b. /\ sem["despachar"] \in Nat /\ sem["atender_rta"] \in Nat
      /\ Len(a_cpu) \in Nat /\ Len(de_cpu) \in Nat
      /\ a_cpu \in Seq(Objs) /\ de_cpu \in Seq([o: Objs, r: Retorno])
  BY <1>a DEF Tipado, TypeOK, TypeSem, TypeCPU, Semaforos
<1>1. pc["despachador"] = "marca_exec" BY DEF MarcaExec, Paso
<1>2. ~VueltaTiene /\ sem["atender_rta"] = 0
  <2>1. DespachadorTiene BY <1>1 DEF DespachadorTiene
  <2> QED BY <1>b, <2>1 DEF Alternancia, TurnoUnico, Contar
<1>3. a_cpu = <<>> /\ de_cpu = <<>> BY <1>b, <1>2 DEF Alternancia, CPUExclusiva
<1>4. Enviando = <<>> /\ DeLaCpu = <<>> BY <1>1, <1>3 DEF Enviando, DeLaCpu, Quienes
<1>5. EnMano("vuelta") = <<>> BY <1>a, <1>2 DEF Ociosos, EnMano, Uno
<1>6. ASSUME NEW p PROVE EnZona("EXEC", p) = 0
  <2>1. V(p, <<>>) = 0 BY CuantosNada DEF V
  <2> QED BY <1>3, <1>4, <1>5, <2>1 DEF EnZona
<1>7. ASSUME NEW p \in Pids PROVE Fase[p] # "EXEC"
  <2>1. p \in Nat \ {0, 1} /\ generador_pid \in Nat
    BY <1>a, ConstantesOK DEF Pids, Tipado, TypeOK, TypeProcesos
  <2>2. CASE p > generador_pid BY <1>a, <2>2, FaseEs
  <2>3. CASE p <= generador_pid
    <3>1. PICK s \in Sitios : EstaSolo(s, p) BY <1>a, <2>1, <2>3 DEF Presentes
    <3>2. Fase[p] = FaseDelSitio(s) BY <1>a, <2>3, <3>1, FaseEs
    <3>3. s # Zona("EXEC")
      <4>1. En(Zona("EXEC"), p) = 0 BY <1>6, SitiosSon DEF Zonas
      <4> QED BY <3>1, <4>1 DEF EstaSolo
    <3>4. FaseDelSitio(s) # "EXEC" BY <3>3, FasesSon DEF Sitios
    <3> QED BY <3>2, <3>4
  <2> QED BY <2>1, <2>2, <2>3
<1> QED BY <1>7

\* CicloDeVida counts with its own instance of FiniteSets.
LEMMA CicloCuenta == ASSUME NEW S PROVE Ciclo!Cardinality(S) = Cardinality(S)
  BY DEF Cardinality, Ciclo!Cardinality

\* A step of the kernel is one of the life cycle or none.
LEMMA PasoDelCiclo ==
    ASSUME NadaSePierde, Enteros, CuposExactos, SinDeRecursos, Alternancia, [Next]_vars
    PROVE  [Ciclo!Next]_(Ciclo!varsCiclo)
<1>a. Tipado BY DEF Enteros, Ubicados, Base
<1>b. sem["multiprogramacion"] > 0 => Ciclo!Cardinality(Ciclo!Admitidos) < grado
  <2>1. sem["multiprogramacion"] \in Nat BY <1>a DEF Tipado, TypeOK, TypeSem, Semaforos
  <2>2. Cardinality(Ciclo!Admitidos) \in Nat BY CuposFinitos DEF ConCupo, Ciclo!Admitidos
  <2> QED BY <2>1, <2>2, CicloCuenta DEF CuposExactos
<1>1. CASE MismoCupo /\ Fase' = Fase BY <1>1 DEF MismoCupo, Ciclo!varsCiclo
<1>2. CASE CambiaGrado /\ Fase' = Fase
  <2>1. Ciclo!CambiarGrado BY <1>b, <1>2 DEF CambiaGrado, Ciclo!CambiarGrado
  <2> QED BY <2>1 DEF Ciclo!Next
<1>3. CASE MismoCupo /\ Salta("SIN_CREAR", "NEW")
  <2>1. \E p \in Pids : Ciclo!Crear(p) BY <1>3 DEF MismoCupo, Salta, Ciclo!Crear
  <2> QED BY <2>1 DEF Ciclo!Next
<1>4. CASE Admite /\ Salta("NEW", "READY")
  <2>1. \E p \in Pids : Ciclo!Admitir(p) BY <1>b, <1>4 DEF Admite, Salta, Ciclo!Admitir
  <2> QED BY <2>1 DEF Ciclo!Next
<1>5. CASE Retira /\ Salta("EXIT", "LIBERANDO")
  <2>1. \E p \in Pids : Ciclo!Retirar(p) BY <1>5 DEF Retira, Salta, Ciclo!Retirar
  <2> QED BY <2>1 DEF Ciclo!Next
<1>6. CASE MismoCupo /\ MarcaExec /\ Salta("READY", "EXEC")
  <2>1. \A p \in Pids : Fase[p] # "EXEC" BY <1>6, NadieEnExec
  <2>2. \E p \in Pids : Ciclo!Despachar(p)
    BY <1>6, <2>1 DEF MismoCupo, Salta, Ciclo!Despachar
  <2> QED BY <2>2 DEF Ciclo!Next
<1>7. CASE MismoCupo /\ \E c \in Cambios : Salta(c[1], c[2])
  <2>1. PICK c \in Cambios, p \in Pids : Ciclo!Pasa(p, c[1], c[2]) BY <1>7 DEF Salta
  <2>2. \/ Ciclo!Desalojar(p) \/ Ciclo!Bloquear(p) \/ Ciclo!Despertar(p)
        \/ Ciclo!Terminar(p) \/ Ciclo!Liberar(p)
    BY <1>7, <2>1 DEF MismoCupo, Cambios, Ciclo!Desalojar, Ciclo!Bloquear, Ciclo!Despertar,
       Ciclo!Terminar, Ciclo!Liberar
  <2> QED BY <2>2 DEF Ciclo!Next
<1> QED BY <1>1, <1>2, <1>3, <1>4, <1>5, <1>6, <1>7, FasesPaso

\* The kernel implements the life cycle: no process skips a state, two are never in EXEC
\* and none is admitted over the degree. WAIT and SIGNAL are left out because their
\* second sem_post(&sem_despachar) (kernel.c 712, 745-770) breaks the turn this rests on.
THEOREM ImplementaElCiclo ==
    ASSUME NadaSePierde,
           \A r \in Retornos : r.motivo \notin {"SOLICITAR_WAIT", "SOLICITAR_SIGNAL"}
    PROVE  Spec => CumpleElCiclo
<1> DEFINE Todo == Enteros /\ CuposExactos /\ SinDeRecursos /\ Alternancia
<1>1. Init => Todo /\ Ciclo!Init BY EnterosInit, CuposInit, AlternanciaInit
<1>2. Todo /\ [Next]_vars => Todo'
  <2> SUFFICES ASSUME Todo, [Next]_vars PROVE Todo' OBVIOUS
  <2>1. Enteros' /\ CuposExactos' BY EnterosPaso, CuposPaso
  <2>2. Base BY DEF Enteros, Ubicados
  <2>3. SinDeRecursos' /\ Alternancia' BY <2>2, SinDeRecursosPaso, AlternanciaPaso DEF DeRecursos
  <2> QED BY <2>1, <2>3
<1>3. Todo /\ [Next]_vars => [Ciclo!Next]_(Ciclo!varsCiclo) BY PasoDelCiclo
<1> QED BY <1>1, <1>2, <1>3, PTL DEF Spec, CumpleElCiclo, Ciclo!Spec

-----------------------------------------------------------------------------
(* No thread dereferences what an empty list gives.                        *)

\* The operator kills nobody, the interfaces stay and each request is for an interface that
\* reads its block as it was written (the instruction is compared with the motive, not with
\* the interface: kernel.c 607-709); the config has no resources, since liberar_recursos
\* pops a list in which nobody may wait (435-440); and under VRR every interface is a
\* GENERICA, the only one that procesar_vuelta_blocked_a_ready reads well (1192-1255).
Sirve(i, tipo) == (tipo = "GENERICA") <=> (Tipo[i] = "GENERICA")
SinFallas ==
    /\ "FINALIZAR_PROCESO" \notin Comandos /\ PuedenCerrar = {} /\ Recursos = 0
    /\ \A r \in Retornos : r.motivo \in PedidosIO /\ r.interfaz \in Interfaces /\ r.acepta
                             => Sirve(r.interfaz, TipoPedido(r.motivo))
    /\ Algoritmo = "VRR" => \A i \in Interfaces : Tipo[i] = "GENERICA"

\* The semaphore of NEW, and the process that planificacion_procesos_ready holds.
NewRespaldado == /\ sem["procesos_new"] <= Len(cola["new"])
                 /\ pc["largo"] = "espera_multi" => mano["largo"] \in Objs

\* The semaphore of READY is behind the two ready queues together, with the process that is
\* queued and not announced yet and the one the dispatcher has been promised. Under FIFO and
\* RR the dispatcher only looks at cola_ready, so the other must stay empty.
Prometido == Contar(pc["despachador"] \in {"saca_ready", "saca_ready_aux"})
PorAnunciar == Contar(pc["largo"] = "marca_ready")
Listos == Len(cola["ready"]) + Len(cola["ready_aux"])
ReadyRespaldado ==
    /\ sem["procesos_ready"] + Prometido + PorAnunciar <= Listos
    /\ pc["despachador"] = "saca_ready" => cola["ready"] # <<>>
    /\ pc["despachador"] = "saca_ready_aux" => cola["ready_aux"] # <<>>
    /\ Algoritmo # "VRR" => cola["ready_aux"] = <<>>

\* Every block waits in an interface that reads it as it was written.
PedidosSirven ==
    /\ pc["vuelta"] = "a_bloqueados" => ret.acepta /\ ret.motivo \in PedidosIO
    /\ \A i \in Interfaces : /\ \A n \in DOMAIN bloq[i] : Sirve(i, bloq[i][n].tipo)
                             /\ pc_io[i] = "envia" => Sirve(i, mano_io[i].tipo)

\* WAIT and SIGNAL find no resource: none of their steps but the first is reached.
SinRama == pc["vuelta"] \in {"sin_crear", "tope", "espera_rta", "atiende", "a_bloqueados",
                             "a_block", "rechaza"}

LEMMA SinRamaPaso == ASSUME Base, Recursos = 0, SinRama, [Next]_vars PROVE SinRama'
<1>a. Tipado /\ HilosCreados /\ TypeHilos BY DEF Base, Tipado, TypeOK
<1>1. CASE Consola BY <1>1, <1>a, MarcoConsola DEF Quieto, Duerme, Hilos, SinRama
<1>2. CASE Largo \/ Salida \/ Despachador
  BY <1>2, <1>a, MarcoLargo, MarcoSalida, MarcoDespachador DEF Ajenos, Hilos, SinRama
<1>3. CASE \E i \in Interfaces : AtiendeInterfaz(i)
  BY <1>3, <1>a, MarcoAtiendeInterfaz DEF SinRama
<1>4. CASE VueltaDispatch
  BY <1>4, <1>a DEF VueltaDispatch, VueltaMiraPlan, RecibeVuelta, AtiendeFinQuantum, AtiendeFinal,
     AtiendeOtroMotivo, BuscaInterfaz, RechazaPedido, EncolaEnInterfaz, AvisaInterfaz,
     InterfazLiberada, Cae, Atiende, Paso, TypeHilos, Hilos, SinRama
<1>5. CASE VueltaRecurso
  BY <1>5, <1>a DEF VueltaRecurso, RecursoInvalido, LeeInstancias, EscribeInstancias,
     DecideRecurso, EncolaEnRecurso, BloqueaPorRecurso, SacaDeRecurso, RecursoVacio, Desbloquea,
     DesbloqueaLeeSinAsignar, VuelveAExec, Reenvia, Cae, Pide, Paso, TypeHilos, Hilos, SinRama
<1>6. CASE Pares BY <1>6, MarcoPares DEF SinRama
<1>7. CASE UNCHANGED vars BY <1>7 DEF vars, SinRama
<1> QED BY <1>1, <1>2, <1>3, <1>4, <1>5, <1>6, <1>7, QuienPasa

\* Only the first step of WAIT and SIGNAL is left, and no branch of liberar_recursos.
LEMMA SinRamas ==
    ASSUME Tipado, Recursos = 0, SinRama
    PROVE  /\ VueltaRecurso => RecursoInvalido
           /\ Salida => \/ SalidaMiraPlan \/ TomaDeExit \/ SalidaPideMemoria
                        \/ SalidaRecibeMemoria \/ Archiva
<1>1. VueltaRecurso => RecursoInvalido
  BY DEF VueltaRecurso, LeeInstancias, EscribeInstancias, DecideRecurso, EncolaEnRecurso,
     BloqueaPorRecurso, SacaDeRecurso, RecursoVacio, Desbloquea, DesbloqueaLeeSinAsignar,
     VuelveAExec, Reenvia, Pide, Paso, SinRama
<1>2. indice \in 1..(Recursos + 1) /\ indice > Recursos
  BY DEF Tipado, TypeOK, TypeRecursos
<1>3. pc["salida"] \notin {"incrementa", "saca_recurso", "desbloquea"}
  BY <1>2 DEF Tipado, ManosOK, ManoSalida
<1>4. /\ ~NoTieneInstancias /\ ~LiberaLeeInstancias /\ ~LiberaIncrementa
      /\ ~LiberaSacaBloqueado /\ ~LiberaSinBloqueado /\ ~LiberaDesbloquea /\ ~LiberaLeeSinAsignar
  BY <1>2, <1>3 DEF NoTieneInstancias, LiberaLeeInstancias, LiberaIncrementa, LiberaSacaBloqueado,
     LiberaSinBloqueado, LiberaDesbloquea, LiberaLeeSinAsignar, Paso
<1> QED BY <1>1, <1>4 DEF Salida

\* Who else leaves NEW and its thread alone.
LEMMA NewQueda ==
    ASSUME Base, NewRespaldado, sem'["procesos_new"] = sem["procesos_new"],
           cola'["new"] = cola["new"], mano'["largo"] = mano["largo"],
           pc'["largo"] = pc["largo"] \/ pc'["largo"] = "espera_new"
    PROVE  NewRespaldado'
  BY DEF NewRespaldado

\* The console posts once for each process it puts in NEW (kernel.c 99-100) and
\* planificacion_procesos_ready waits once for each it takes (499-500).
LEMMA NewPaso ==
    ASSUME Base, NadieMata, SinRama, Recursos = 0, "FINALIZAR_PROCESO" \notin Comandos,
           NewRespaldado, [Next]_vars
    PROVE  NewRespaldado'
<1>a. Tipado /\ HilosCreados /\ TypeHilos /\ TypeSem /\ TypeColas BY DEF Base, Tipado, TypeOK
<1>b. /\ sem["procesos_new"] \in Nat /\ cola["new"] \in Seq(Objs) /\ Len(cola["new"]) \in Nat
      /\ {"procesos_new", "multiprogramacion", "procesos_ready", "procesos_exit", "despachar",
          "atender_rta"} = DOMAIN sem /\ DOMAIN cola = Colas
      /\ DOMAIN pc = Hilos /\ DOMAIN mano = Hilos
  BY <1>a DEF TypeSem, Semaforos, TypeColas, Colas, TypeHilos
<1>1. CASE Consola
  <2>1. CASE EncolaEnNew
    <3>1. /\ cola'["new"] = Append(cola["new"], mano["consola"])
          /\ sem'["procesos_new"] = sem["procesos_new"] + 1
          /\ mano'["largo"] = mano["largo"] /\ pc'["largo"] = pc["largo"]
      BY <1>b, <2>1 DEF EncolaEnNew, Empujar, Post, Paso, Toma, Colas, Hilos
    <3> QED BY <1>b, <3>1 DEF NewRespaldado
  <2>2. CASE SubeGrado \/ BajaGrado
    BY <1>b, <2>2, NewQueda DEF SubeGrado, BajaGrado, Post, Wait, Paso, Hilos
  <2>3. CASE IniciarPlanificacion
    <3>1. pc'["largo"] = pc["largo"] \/ pc'["largo"] = "espera_new"
      BY <1>b, <2>3 DEF IniciarPlanificacion, Hilos
    <3> QED BY <2>3, <3>1, NewQueda DEF IniciarPlanificacion
  <2>4. CASE \/ IniciarProceso \/ ConsolaPideMemoria \/ ConsolaRecibeMemoria
             \/ DetenerPlanificacion \/ CambiarMultiprogramacion \/ TerminaGrado
    BY <1>b, <2>4, NewQueda DEF IniciarProceso, ConsolaPideMemoria, ConsolaRecibeMemoria,
       DetenerPlanificacion, CambiarMultiprogramacion, TerminaGrado, Paso, Toma, Hilos
  <2>5. ~(\/ FinalizarProceso \/ BuscaEncuentra \/ BuscaSigue \/ Quita \/ QuitaFueraDeRango
          \/ NoHalladoSigue \/ NoHalladoFalla \/ InterrumpePorConsola \/ DecideSacar
          \/ FinalizaAExit)
    BY DEF FinalizarProceso, Ordena, BuscaEncuentra, BuscaSigue, Quita, QuitaFueraDeRango,
       NoHalladoSigue, NoHalladoFalla, InterrumpePorConsola, DecideSacar, FinalizaAExit, Paso,
       NadieMata
  <2> QED BY <1>1, <2>1, <2>2, <2>3, <2>4, <2>5 DEF Consola
<1>2. CASE Largo
  <2>1. CASE TomaDeNew
    <3>1. /\ sem["procesos_new"] > 0 /\ sem'["procesos_new"] = sem["procesos_new"] - 1
          /\ mano'["largo"] = Primero(cola["new"]) /\ cola'["new"] = Resto(cola["new"])
      BY <1>b, <2>1 DEF TomaDeNew, Wait, Toma, Sacar, Colas, Hilos
    <3>2. cola["new"] # <<>> BY <1>b, <3>1 DEF NewRespaldado
    <3>3. mano'["largo"] \in Objs /\ Len(cola'["new"]) = Len(cola["new"]) - 1
      BY <1>b, <3>1, <3>2 DEF Primero, Resto
    <3> QED BY <1>b, <3>1, <3>3 DEF NewRespaldado
  <2>2. CASE EncolaEnReady
    <3>1. pc'["largo"] = "marca_ready" BY <1>b, <2>2 DEF EncolaEnReady, Paso, Hilos
    <3>2. sem'["procesos_new"] = sem["procesos_new"] /\ cola'["new"] = cola["new"]
      BY <1>b, <2>2 DEF EncolaEnReady, Wait, Empujar, Colas
    <3> QED BY <3>1, <3>2 DEF NewRespaldado
  <2>3. CASE MarcaReady
    <3>1. pc'["largo"] = "espera_new" BY <1>b, <2>3 DEF MarcaReady, Paso, Hilos
    <3>2. sem'["procesos_new"] = sem["procesos_new"] /\ cola'["new"] = cola["new"]
      BY <1>b, <2>3 DEF MarcaReady, Post
    <3> QED BY <3>1, <3>2 DEF NewRespaldado
  <2>4. CASE EncolaNulo BY <2>4, NewQueda DEF EncolaNulo, Cae
  <2> QED BY <1>2, <2>1, <2>2, <2>3, <2>4 DEF Largo
<1>3. CASE Salida
  <2>1. CASE \/ SalidaMiraPlan \/ TomaDeExit \/ SalidaPideMemoria \/ SalidaRecibeMemoria
             \/ Archiva
    BY <1>b, <2>1, NewQueda DEF SalidaMiraPlan, TomaDeExit, SalidaPideMemoria,
       SalidaRecibeMemoria, Archiva, Paso, Toma, Sacar, Empujar, Colas, Hilos
  <2> QED BY <1>a, <1>3, <2>1, SinRamas
<1>4. CASE Despachador
  <2>1. CASE DespachadorMiraPlan \/ Elige \/ ReadyVacia \/ MarcaExec \/ LanzaQuantum
    BY <1>b, <2>1, NewQueda DEF DespachadorMiraPlan, Elige, ReadyVacia, Cae, MarcaExec,
       LanzaQuantum, Paso, Hilos
  <2>2. CASE SacaReady \/ PasaAExec \/ Despacha
    BY <1>b, <2>2, NewQueda DEF SacaReady, PasaAExec, Despacha, Paso, Toma, Sacar, Empujar, Post,
       Colas, Hilos
  <2> QED BY <1>4, <2>1, <2>2 DEF Despachador
<1>5. CASE VueltaDispatch
  <2>1. CASE VueltaMiraPlan \/ RecibeVuelta \/ AtiendeOtroMotivo \/ BuscaInterfaz
             \/ EncolaEnInterfaz \/ InterfazLiberada
    BY <1>b, <2>1, NewQueda DEF VueltaMiraPlan, RecibeVuelta, AtiendeOtroMotivo, BuscaInterfaz,
       EncolaEnInterfaz, InterfazLiberada, Cae, Atiende, Paso, Toma, SueltaVuelta, Wait, Post, Hilos
  <2>2. CASE AtiendeFinQuantum \/ AtiendeFinal \/ RechazaPedido \/ AvisaInterfaz
    BY <1>b, <2>2, NewQueda DEF AtiendeFinQuantum, AtiendeFinal, RechazaPedido, AvisaInterfaz,
       Atiende, Paso, Toma, SueltaVuelta, Empujar, Post, Colas, Hilos
  <2> QED BY <1>5, <2>1, <2>2 DEF VueltaDispatch
<1>6. CASE VueltaRecurso
  <2>1. RecursoInvalido BY <1>a, <1>6, SinRamas
  <2> QED BY <1>b, <2>1, NewQueda DEF RecursoInvalido, Pide, Paso, Toma, SueltaVuelta, Empujar,
          Colas, Hilos
<1>7. CASE \E i \in Interfaces : AtiendeInterfaz(i)
  <2> PICK i \in Interfaces : AtiendeInterfaz(i) BY <1>7
  <2>1. UNCHANGED pc BY <1>a, MarcoAtiendeInterfaz
  <2>2. CASE IOVuelve(i)
    <3>1. PICK v \in Vuelve(Tipo[i], mano_io[i].o) : Empujar(v.cola, mano_io[i].o)
      BY <2>2 DEF IOVuelve
    <3>2. v.cola \in {"ready", "ready_aux"} BY VuelveAReady
    <3> QED BY <1>b, <2>1, <2>2, <3>1, <3>2, NewQueda DEF IOVuelve, Empujar, Post, Colas
  <2>3. CASE ~IOVuelve(i)
    <3>1. UNCHANGED mano /\ sem'["procesos_new"] = sem["procesos_new"] /\ cola'["new"] = cola["new"]
      BY <1>b, <2>3 DEF AtiendeInterfaz, IOMiraPlan, IOToma, IOConfundeTipo, IOEnvia, IORecibe,
         IORecibeCeroGenerica, IOVuelveLeeSinAsignar, IOFinaliza, IODevuelve, IOQuitaInterfaz,
         IOVacia, IOVaciaFin, IODestruye, IOUsaLiberada, Cae, Empujar, Post, Colas
    <3> QED BY <2>1, <3>1, NewQueda
  <2> QED BY <2>2, <2>3
<1>8. CASE Pares
  <2>1. UNCHANGED mano
    BY <1>8 DEF Pares, MemoriaResponde, Reloj, RelojSinExec, RelojVence, CPUDevuelve,
       ConectaInterfaz, CierraInterfaz
  <2> QED BY <1>8, <2>1, MarcoPares, NewQueda
<1>9. CASE UNCHANGED vars BY <1>9, NewQueda DEF vars
<1> QED BY <1>1, <1>2, <1>3, <1>4, <1>5, <1>6, <1>7, <1>8, <1>9, QuienPasa

\* Who leaves the ready queues and the threads between them alone.
LEMMA ReadyQueda ==
    ASSUME Base, ReadyRespaldado, sem'["procesos_ready"] = sem["procesos_ready"],
           cola'["ready"] = cola["ready"], cola'["ready_aux"] = cola["ready_aux"],
           \/ pc'["despachador"] = pc["despachador"]
           \/ /\ pc["despachador"] \notin {"saca_ready", "saca_ready_aux"}
              /\ pc'["despachador"] \notin {"saca_ready", "saca_ready_aux"},
           \/ pc'["largo"] = pc["largo"]
           \/ pc["largo"] # "marca_ready" /\ pc'["largo"] # "marca_ready"
    PROVE  ReadyRespaldado'
  BY DEF ReadyRespaldado, Listos, Prometido, PorAnunciar, Contar

\* Two queues, one longer or one shorter.
LEMMA DosColas ==
    ASSUME NEW S, NEW s \in Seq(S), NEW t \in Seq(S)
    PROVE  /\ Len(s) + Len(t) \in Nat
           /\ Len(s) + Len(t) > 0 => s # <<>> \/ t # <<>>
<1>1. Len(s) \in Nat /\ Len(t) \in Nat OBVIOUS
<1>2. ASSUME NEW u \in Seq(S), Len(u) > 0 PROVE u # <<>> BY <1>2
<1>3. Len(s) + Len(t) > 0 => Len(s) > 0 \/ Len(t) > 0 BY <1>1
<1> QED BY <1>1, <1>2, <1>3

LEMMA ListosSon ==
    ASSUME Base
    PROVE  Listos \in Nat /\ (Listos > 0 => cola["ready"] # <<>> \/ cola["ready_aux"] # <<>>)
<1>1. cola["ready"] \in Seq(Objs) /\ cola["ready_aux"] \in Seq(Objs)
  BY DEF Base, Tipado, TypeOK, TypeColas, Colas
<1> QED BY <1>1, DosColas DEF Listos

LEMMA ListosCrecen ==
    ASSUME Base, NEW q \in {"ready", "ready_aux"}, NEW o, Empujar(q, o)
    PROVE  /\ Listos' = Listos + 1 /\ cola'[q] # <<>>
           /\ \A r \in {"ready", "ready_aux"} \ {q} : cola'[r] = cola[r]
<1>1. cola \in [Colas -> Seq(Objs)] BY DEF Base, Tipado, TypeOK, TypeColas
<1>2. /\ cola'[q] = Append(cola[q], o)
      /\ \A r \in {"ready", "ready_aux"} \ {q} : cola'[r] = cola[r]
  BY <1>1 DEF Empujar, Colas
<1>3. PICK s, t : s = cola["ready"] /\ t = cola["ready_aux"] OBVIOUS
<1>4. s \in Seq(Objs) /\ t \in Seq(Objs) BY <1>1, <1>3 DEF Colas
<1>5. Len(s) \in Nat /\ Len(t) \in Nat BY <1>4
<1>6. PICK u : u = cola'[q] OBVIOUS
<1>7. CASE q = "ready"
  <2>0. Len(u) = Len(s) + 1 BY <1>2, <1>3, <1>4, <1>6, <1>7
  <2>1. Len(u) = Len(s) + 1 /\ u # <<>> BY <1>5, <2>0
  <2>2. Len(u) + Len(t) = Len(s) + Len(t) + 1 BY <1>5, <2>1
  <2> QED BY <1>2, <1>3, <1>6, <1>7, <2>1, <2>2 DEF Listos
<1>8. CASE q = "ready_aux"
  <2>0. Len(u) = Len(t) + 1 BY <1>2, <1>3, <1>4, <1>6, <1>8
  <2>1. Len(u) = Len(t) + 1 /\ u # <<>> BY <1>5, <2>0
  <2>2. Len(s) + Len(u) = Len(s) + Len(t) + 1 BY <1>5, <2>1
  <2> QED BY <1>2, <1>3, <1>6, <1>8, <2>1, <2>2 DEF Listos
<1> QED BY <1>7, <1>8

LEMMA ListosBajan ==
    ASSUME Base, NEW q \in {"ready", "ready_aux"}, cola[q] # <<>>, Sacar(q)
    PROVE  /\ Listos' = Listos - 1
           /\ \A r \in {"ready", "ready_aux"} \ {q} : cola'[r] = cola[r]
<1>1. cola \in [Colas -> Seq(Objs)] BY DEF Base, Tipado, TypeOK, TypeColas
<1>2. /\ cola'[q] = Tail(cola[q])
      /\ \A r \in {"ready", "ready_aux"} \ {q} : cola'[r] = cola[r]
  BY <1>1 DEF Sacar, Resto, Colas
<1>3. PICK s, t : s = cola["ready"] /\ t = cola["ready_aux"] OBVIOUS
<1>4. s \in Seq(Objs) /\ t \in Seq(Objs) BY <1>1, <1>3 DEF Colas
<1>5. Len(s) \in Nat /\ Len(t) \in Nat BY <1>4
<1>6. PICK u : u = cola'[q] OBVIOUS
<1>7. CASE q = "ready"
  <2>1. u = Tail(s) /\ s # <<>> BY <1>2, <1>3, <1>6, <1>7
  <2>2. Len(u) = Len(s) - 1 BY <1>4, <2>1
  <2>3. PICK n, m, k : n = Len(s) /\ m = Len(t) /\ k = Len(u) OBVIOUS
  <2>4. n \in Nat /\ m \in Nat /\ k = n - 1 BY <1>5, <2>2, <2>3
  <2>5. cola'["ready"] = u /\ cola'["ready_aux"] = t BY <1>2, <1>3, <1>6, <1>7
  <2>6. Listos' = k + m /\ Listos = n + m BY <1>3, <2>3, <2>5 DEF Listos
  <2>7. Listos' = Listos - 1 BY <2>4, <2>6
  <2> QED BY <1>2, <2>7
<1>8. CASE q = "ready_aux"
  <2>1. u = Tail(t) /\ t # <<>> BY <1>2, <1>3, <1>6, <1>8
  <2>2. Len(u) = Len(t) - 1 BY <1>4, <2>1
  <2>3. PICK n, m, k : n = Len(s) /\ m = Len(t) /\ k = Len(u) OBVIOUS
  <2>4. n \in Nat /\ m \in Nat /\ k = m - 1 BY <1>5, <2>2, <2>3
  <2>5. cola'["ready_aux"] = u /\ cola'["ready"] = s BY <1>2, <1>3, <1>6, <1>8
  <2>6. Listos' = n + k /\ Listos = n + m BY <1>3, <2>3, <2>5 DEF Listos
  <2>7. Listos' = Listos - 1 BY <2>4, <2>6
  <2> QED BY <1>2, <2>7
<1> QED BY <1>7, <1>8

\* Who puts a process in a ready queue and announces it in the same step.
LEMMA ReadyCrece ==
    ASSUME Base, ReadyRespaldado, NEW q \in {"ready", "ready_aux"}, Algoritmo # "VRR" => q = "ready",
           NEW o, Empujar(q, o), sem'["procesos_ready"] = sem["procesos_ready"] + 1,
           pc'["despachador"] = pc["despachador"], pc'["largo"] = pc["largo"]
    PROVE  ReadyRespaldado'
<1>a. sem["procesos_ready"] \in Nat BY DEF Base, Tipado, TypeOK, TypeSem, Semaforos
<1>1. Listos' = Listos + 1 /\ Listos \in Nat BY ListosSon, ListosCrecen
<1>2. \A r \in {"ready", "ready_aux"} : cola[r] # <<>> => cola'[r] # <<>> BY ListosCrecen
<1>3. /\ Prometido' = Prometido /\ Prometido \in Nat
      /\ PorAnunciar' = PorAnunciar /\ PorAnunciar \in Nat
  BY DEF Prometido, PorAnunciar, Contar
<1>4. sem'["procesos_ready"] + Prometido' + PorAnunciar' <= Listos'
  BY <1>a, <1>1, <1>3 DEF ReadyRespaldado
<1>5. Algoritmo # "VRR" => cola'["ready_aux"] = <<>> BY ListosCrecen DEF ReadyRespaldado
<1> QED BY <1>2, <1>4, <1>5 DEF ReadyRespaldado

\* Who puts a process in a ready queue posts once (kernel.c 502-503, 574-575, 1192-1255), and
\* the dispatcher waits once for each it takes and looks at the queue it was promised: what
\* it saw in cola_ready_aux is still there when it pops, since only it pops.
LEMMA ReadyPaso ==
    ASSUME Base, NadieMata, SinRama, Recursos = 0, "FINALIZAR_PROCESO" \notin Comandos,
           ReadyRespaldado, [Next]_vars
    PROVE  ReadyRespaldado'
<1>a. Tipado /\ HilosCreados /\ TypeHilos /\ TypeSem /\ TypeColas BY DEF Base, Tipado, TypeOK
<1>b. /\ sem["procesos_ready"] \in Nat /\ DOMAIN sem = Semaforos /\ DOMAIN cola = Colas
      /\ cola["ready"] \in Seq(Objs) /\ cola["ready_aux"] \in Seq(Objs)
      /\ Len(cola["ready"]) \in Nat /\ Len(cola["ready_aux"]) \in Nat
      /\ DOMAIN pc = Hilos
  BY <1>a DEF TypeSem, Semaforos, TypeColas, Colas, TypeHilos
<1>1. CASE Consola
  <2>1. CASE EncolaEnNew
    BY <1>b, <2>1, ReadyQueda DEF EncolaEnNew, Empujar, Post, Paso, Colas, Hilos, Semaforos
  <2>2. CASE SubeGrado \/ BajaGrado
    BY <1>b, <2>2, ReadyQueda DEF SubeGrado, BajaGrado, Post, Wait, Paso, Hilos, Semaforos
  <2>3. CASE IniciarPlanificacion
    <3>1. \/ pc' = pc
          \/ /\ pc["largo"] = "sin_crear" /\ pc["despachador"] = "sin_crear"
             /\ pc'["largo"] = "espera_new" /\ pc'["despachador"] = "tope"
      <4>1. CASE esta_planificando BY <2>3, <4>1 DEF IniciarPlanificacion
      <4>2. CASE ~esta_planificando
        BY <1>a, <1>b, <2>3, <4>2 DEF IniciarPlanificacion, Hilos, HilosCreados
      <4> QED BY <4>1, <4>2
    <3> QED BY <2>3, <3>1, ReadyQueda DEF IniciarPlanificacion
  <2>4. CASE \/ IniciarProceso \/ ConsolaPideMemoria \/ ConsolaRecibeMemoria
             \/ DetenerPlanificacion \/ CambiarMultiprogramacion \/ TerminaGrado
    BY <1>b, <2>4, ReadyQueda DEF IniciarProceso, ConsolaPideMemoria, ConsolaRecibeMemoria,
       DetenerPlanificacion, CambiarMultiprogramacion, TerminaGrado, Paso, Hilos
  <2>5. ~(\/ FinalizarProceso \/ BuscaEncuentra \/ BuscaSigue \/ Quita \/ QuitaFueraDeRango
          \/ NoHalladoSigue \/ NoHalladoFalla \/ InterrumpePorConsola \/ DecideSacar
          \/ FinalizaAExit)
    BY DEF FinalizarProceso, Ordena, BuscaEncuentra, BuscaSigue, Quita, QuitaFueraDeRango,
       NoHalladoSigue, NoHalladoFalla, InterrumpePorConsola, DecideSacar, FinalizaAExit, Paso,
       NadieMata
  <2> QED BY <1>1, <2>1, <2>2, <2>3, <2>4, <2>5 DEF Consola
<1>2. CASE Largo
  <2>1. CASE TomaDeNew
    BY <1>b, <2>1, ReadyQueda DEF TomaDeNew, Wait, Sacar, Paso, Colas, Hilos, Semaforos
  <2>2. CASE EncolaEnReady
    <3>1. /\ pc["largo"] = "espera_multi" /\ pc'["largo"] = "marca_ready"
          /\ pc'["despachador"] = pc["despachador"]
          /\ sem'["procesos_ready"] = sem["procesos_ready"]
          /\ Empujar("ready", mano["largo"])
      BY <1>b, <2>2 DEF EncolaEnReady, Paso, Wait, Hilos, Semaforos
    <3>2. /\ Listos' = Listos + 1 /\ cola'["ready"] # <<>>
          /\ cola'["ready_aux"] = cola["ready_aux"]
      BY <3>1, ListosCrecen
    <3>3. /\ Prometido' = Prometido /\ Prometido \in Nat
          /\ PorAnunciar = 0 /\ PorAnunciar' = 1
      BY <3>1 DEF Prometido, PorAnunciar, Contar
    <3>4. sem'["procesos_ready"] + Prometido' + PorAnunciar' <= Listos'
      <4>1. Listos \in Nat BY ListosSon
      <4>2. sem["procesos_ready"] + Prometido + PorAnunciar <= Listos BY DEF ReadyRespaldado
      <4> QED BY <1>b, <3>1, <3>2, <3>3, <4>1, <4>2
    <3> QED BY <3>1, <3>2, <3>4 DEF ReadyRespaldado
  <2>3. CASE MarcaReady
    <3>1. /\ pc["largo"] = "marca_ready" /\ pc'["largo"] = "espera_new"
          /\ pc'["despachador"] = pc["despachador"] /\ UNCHANGED cola
          /\ sem'["procesos_ready"] = sem["procesos_ready"] + 1
      BY <1>b, <2>3 DEF MarcaReady, Paso, Post, Hilos, Semaforos
    <3>2. /\ Prometido' = Prometido /\ Prometido \in Nat
          /\ PorAnunciar = 1 /\ PorAnunciar' = 0 /\ Listos' = Listos
      BY <3>1 DEF Prometido, PorAnunciar, Contar, Listos
    <3>3. sem'["procesos_ready"] + Prometido' + PorAnunciar' <= Listos'
      BY <1>b, <3>1, <3>2 DEF ReadyRespaldado
    <3> QED BY <3>1, <3>3 DEF ReadyRespaldado
  <2>4. CASE EncolaNulo BY <2>4, ReadyQueda DEF EncolaNulo, Cae
  <2> QED BY <1>2, <2>1, <2>2, <2>3, <2>4 DEF Largo
<1>3. CASE Salida
  <2>1. CASE \/ SalidaMiraPlan \/ TomaDeExit \/ SalidaPideMemoria \/ SalidaRecibeMemoria
             \/ Archiva
    BY <1>b, <2>1, ReadyQueda DEF SalidaMiraPlan, TomaDeExit, SalidaPideMemoria,
       SalidaRecibeMemoria, Archiva, Paso, Sacar, Empujar, Colas, Hilos, Semaforos
  <2> QED BY <1>a, <1>3, <2>1, SinRamas
<1>4. CASE Despachador
  <2>a. pc'["largo"] = pc["largo"] BY <1>a, <1>4, MarcoDespachador DEF Ajenos, Hilos
  <2>b. PorAnunciar \in Nat /\ PorAnunciar' = PorAnunciar BY <2>a DEF PorAnunciar, Contar
  <2>1. CASE Elige
    <3>1. /\ sem["procesos_ready"] > 0 /\ sem'["procesos_ready"] = sem["procesos_ready"] - 1
          /\ pc["despachador"] = "espera" /\ UNCHANGED cola
          /\ pc'["despachador"] = IF Algoritmo = "VRR" /\ cola["ready_aux"] # <<>>
                                  THEN "saca_ready_aux" ELSE "saca_ready"
      BY <1>b, <2>1 DEF Elige, Paso, Hilos, Semaforos
    <3>2. Prometido = 0 /\ Prometido' = 1 /\ Listos' = Listos
      BY <3>1 DEF Prometido, Contar, Listos
    <3>3. Listos > 0
      <4>1. Listos \in Nat BY ListosSon
      <4>2. sem["procesos_ready"] + Prometido + PorAnunciar <= Listos BY DEF ReadyRespaldado
      <4> QED BY <1>b, <2>b, <3>1, <3>2, <4>1, <4>2
    <3>4. ~(Algoritmo = "VRR" /\ cola["ready_aux"] # <<>>) => cola["ready"] # <<>>
      BY <3>3, ListosSon DEF ReadyRespaldado
    <3>5. sem'["procesos_ready"] + Prometido' + PorAnunciar' <= Listos'
      BY <1>b, <2>b, <3>1, <3>2 DEF ReadyRespaldado
    <3> QED BY <3>1, <3>4, <3>5 DEF ReadyRespaldado
  <2>2. CASE SacaReady
    <3>1. PICK q \in {"ready", "ready_aux"} :
               /\ Paso("despachador", IF q = "ready" THEN "saca_ready" ELSE "saca_ready_aux",
                       "marca_exec")
               /\ cola[q] # <<>> /\ Sacar(q)
      BY <2>2 DEF SacaReady
    <3>2. /\ pc'["despachador"] = "marca_exec"
          /\ pc["despachador"] \in {"saca_ready", "saca_ready_aux"} /\ UNCHANGED sem
      BY <1>b, <2>2, <3>1 DEF SacaReady, Paso, Hilos
    <3>3. /\ Listos' = Listos - 1 /\ Listos \in Nat
          /\ \A r \in {"ready", "ready_aux"} \ {q} : cola'[r] = cola[r]
      BY <3>1, ListosBajan, ListosSon
    <3>4. Prometido = 1 /\ Prometido' = 0 BY <3>2 DEF Prometido, Contar
    <3>5. Algoritmo # "VRR" => cola'["ready_aux"] = <<>> BY <3>1, <3>3 DEF ReadyRespaldado
    <3>6. sem'["procesos_ready"] + Prometido' + PorAnunciar' <= Listos'
      BY <1>b, <2>b, <3>2, <3>3, <3>4 DEF ReadyRespaldado
    <3> QED BY <3>2, <3>5, <3>6 DEF ReadyRespaldado
  <2>3. CASE DespachadorMiraPlan \/ ReadyVacia \/ MarcaExec \/ LanzaQuantum
    BY <1>b, <2>a, <2>3, ReadyQueda DEF DespachadorMiraPlan, ReadyVacia, Cae, MarcaExec,
       LanzaQuantum, Paso, Hilos
  <2>4. CASE PasaAExec \/ Despacha
    BY <1>b, <2>a, <2>4, ReadyQueda DEF PasaAExec, Despacha, Paso, Empujar, Post, Colas, Hilos,
       Semaforos
  <2> QED BY <1>4, <2>1, <2>2, <2>3, <2>4 DEF Despachador
<1>5. CASE VueltaDispatch
  <2>a. pc'["largo"] = pc["largo"] /\ pc'["despachador"] = pc["despachador"]
    BY <1>a, <1>5, MarcoVueltaDispatch DEF Ajenos, Hilos
  <2>1. CASE VueltaMiraPlan \/ RecibeVuelta \/ AtiendeOtroMotivo \/ BuscaInterfaz
             \/ EncolaEnInterfaz \/ InterfazLiberada
    BY <1>b, <2>a, <2>1, ReadyQueda DEF VueltaMiraPlan, RecibeVuelta, AtiendeOtroMotivo,
       BuscaInterfaz, EncolaEnInterfaz, InterfazLiberada, Cae, Wait, Post, Semaforos
  <2>2. CASE AtiendeFinal \/ RechazaPedido \/ AvisaInterfaz
    BY <1>b, <2>a, <2>2, ReadyQueda DEF AtiendeFinal, RechazaPedido, AvisaInterfaz, Empujar, Post,
       Colas, Semaforos
  <2>3. CASE AtiendeFinQuantum
    <3>1. Empujar("ready", mano["vuelta"])
          /\ sem'["procesos_ready"] = sem["procesos_ready"] + 1
      BY <1>b, <2>3 DEF AtiendeFinQuantum, Semaforos
    <3> QED BY <2>a, <3>1, ReadyCrece
  <2> QED BY <1>5, <2>1, <2>2, <2>3 DEF VueltaDispatch
<1>6. CASE VueltaRecurso
  <2>1. RecursoInvalido BY <1>a, <1>6, SinRamas
  <2> QED BY <1>b, <2>1, ReadyQueda DEF RecursoInvalido, Pide, Paso, Empujar, Colas, Hilos, Semaforos
<1>7. CASE \E i \in Interfaces : AtiendeInterfaz(i)
  <2> PICK i \in Interfaces : AtiendeInterfaz(i) BY <1>7
  <2>1. UNCHANGED pc BY <1>a, MarcoAtiendeInterfaz
  <2>2. CASE IOVuelve(i)
    <3>1. PICK v \in Vuelve(Tipo[i], mano_io[i].o) : Empujar(v.cola, mano_io[i].o)
      BY <2>2 DEF IOVuelve
    <3>2. v.cola \in {"ready", "ready_aux"} BY VuelveAReady
    <3>3. Tipo[i] # "RECURSOVT" BY ConstantesOK DEF Tipos
    <3>4. Algoritmo # "VRR" => v.cola = "ready" BY <3>3 DEF Vuelve
    <3>5. sem'["procesos_ready"] = sem["procesos_ready"] + 1
      BY <1>b, <2>2 DEF IOVuelve, Post, Semaforos
    <3> QED BY <2>1, <3>1, <3>2, <3>4, <3>5, ReadyCrece
  <2>3. CASE ~IOVuelve(i)
    <3>1. /\ sem'["procesos_ready"] = sem["procesos_ready"]
          /\ cola'["ready"] = cola["ready"] /\ cola'["ready_aux"] = cola["ready_aux"]
      BY <1>b, <2>3 DEF AtiendeInterfaz, IOMiraPlan, IOToma, IOConfundeTipo, IOEnvia, IORecibe,
         IORecibeCeroGenerica, IOVuelveLeeSinAsignar, IOFinaliza, IODevuelve, IOQuitaInterfaz,
         IOVacia, IOVaciaFin, IODestruye, IOUsaLiberada, Cae, Empujar, Post, Colas, Semaforos
    <3> QED BY <2>1, <3>1, ReadyQueda
  <2> QED BY <2>2, <2>3
<1>8. CASE Pares BY <1>8, MarcoPares, ReadyQueda
<1>9. CASE UNCHANGED vars BY <1>9, ReadyQueda DEF vars
<1> QED BY <1>1, <1>2, <1>3, <1>4, <1>5, <1>6, <1>7, <1>8, <1>9, QuienPasa

LEMMA PedidosQuedan ==
    ASSUME PedidosSirven, UNCHANGED <<ret, bloq, pc_io, mano_io>>,
           pc'["vuelta"] = pc["vuelta"] \/ pc'["vuelta"] # "a_bloqueados"
    PROVE  PedidosSirven'
  BY DEF PedidosSirven

\* The thread of an interface takes the requests as they were queued; it puts one back only
\* when the connection is closed.
LEMMA PedidosInterfaz ==
    ASSUME Base, Conexos, PedidosSirven, NEW i \in Interfaces, AtiendeInterfaz(i)
    PROVE  PedidosSirven'
<1>a. Tipado /\ TypeIO BY DEF Base, Tipado, TypeOK
<1>b. pc_io \in [Interfaces -> PasosInterfaz] /\ DOMAIN mano_io = Interfaces
      /\ bloq \in [Interfaces -> Seq(Bloque)] /\ DOMAIN bloq = Interfaces
  BY <1>a DEF TypeIO
<1>c. UNCHANGED <<pc, cpu>> BY <1>a, MarcoAtiendeInterfaz
<1>1. CASE IOToma(i)
  <2>1. /\ bloq[i] # <<>> /\ mano_io' = [mano_io EXCEPT ![i] = Head(bloq[i])]
        /\ bloq' = [bloq EXCEPT ![i] = Tail(@)] /\ pc_io' = [pc_io EXCEPT ![i] = "envia"]
    BY <1>1 DEF IOToma, TomaIO, PasoIO
  <2>2. PICK s : s = bloq[i] /\ s \in Seq(Bloque) /\ s # <<>> BY <1>b, <2>1
  <2>3. /\ Head(s) = s[1] /\ 1 \in DOMAIN s
        /\ \A n \in DOMAIN Tail(s) : n + 1 \in DOMAIN s /\ Tail(s)[n] = s[n + 1]
    BY <2>2
  <2>4. \A n \in DOMAIN s : Sirve(i, s[n].tipo) BY <2>2 DEF PedidosSirven
  <2>5. mano_io'[i] = s[1] /\ bloq'[i] = Tail(s) BY <1>b, <2>1, <2>2, <2>3
  <2>6. \A j \in Interfaces \ {i} : mano_io'[j] = mano_io[j] /\ bloq'[j] = bloq[j] /\ pc_io'[j] = pc_io[j]
    BY <1>b, <2>1
  <2>7. Sirve(i, mano_io'[i].tipo) /\ \A n \in DOMAIN bloq'[i] : Sirve(i, bloq'[i][n].tipo)
    BY <2>3, <2>4, <2>5
  <2>8. \A j \in Interfaces : /\ \A n \in DOMAIN bloq'[j] : Sirve(j, bloq'[j][n].tipo)
                              /\ pc_io'[j] = "envia" => Sirve(j, mano_io'[j].tipo)
    BY <2>6, <2>7 DEF PedidosSirven
  <2> QED BY <1>c, <2>8 DEF PedidosSirven, Sirve
<1>2. CASE ~IOToma(i)
  <2>1. pc_io[i] \notin {"desconecta", "quita_interfaz", "vacia", "destruye", "liberada"}
    BY DEF Conexos
  <2>2. /\ UNCHANGED bloq
        /\ \/ pc_io' = pc_io /\ mano_io' = mano_io
           \/ pc_io'[i] # "envia"
        /\ \A j \in Interfaces \ {i} : mano_io'[j] = mano_io[j] /\ pc_io'[j] = pc_io[j]
    BY <1>b, <1>2, <2>1 DEF AtiendeInterfaz, IOMiraPlan, IOConfundeTipo, IOEnvia, IORecibe,
       IORecibeCeroGenerica, IOVuelve, IOVuelveLeeSinAsignar, IOFinaliza, IODevuelve,
       IOQuitaInterfaz, IOVacia, IOVaciaFin, IODestruye, IOUsaLiberada, Cae, PasoIO, TomaIO
  <2>3. \A j \in Interfaces : /\ \A n \in DOMAIN bloq'[j] : Sirve(j, bloq'[j][n].tipo)
                              /\ pc_io'[j] = "envia" => Sirve(j, mano_io'[j].tipo)
    BY <2>2 DEF PedidosSirven
  <2> QED BY <1>c, <2>3 DEF PedidosSirven, Sirve
<1> QED BY <1>1, <1>2

\* A request is queued where the CPU asked for it (kernel.c 607-709).
LEMMA PedidosPaso ==
    ASSUME Base, Motivados, Conexos, SinFallas, SinRama, PedidosSirven, [Next]_vars
    PROVE  PedidosSirven'
<1>a. Tipado /\ HilosCreados /\ TypeHilos /\ TypeIO /\ Recursos = 0
  BY DEF Base, Tipado, TypeOK, SinFallas
<1>b. DOMAIN pc = Hilos /\ "vuelta" \in Hilos BY <1>a DEF TypeHilos, Hilos
<1>1. CASE Consola
  BY <1>1, <1>a, MarcoConsola, PedidosQuedan DEF Quieto, Duerme, Hilos
<1>2. CASE Largo \/ Salida \/ Despachador
  BY <1>2, <1>a, MarcoLargo, MarcoSalida, MarcoDespachador, PedidosQuedan DEF Ajenos, Hilos
<1>3. CASE \E i \in Interfaces : AtiendeInterfaz(i) BY <1>3, PedidosInterfaz
<1>4. CASE VueltaDispatch
  <2>a. UNCHANGED <<pc_io, mano_io>> BY <1>a, <1>4, MarcoVueltaDispatch
  <2>1. CASE BuscaInterfaz
    <3>1. /\ ret' = ret /\ bloq' = bloq /\ ret.motivo \in PedidosIO
          /\ pc'["vuelta"] = "a_bloqueados" => ret.acepta
      BY <1>b, <2>1 DEF BuscaInterfaz, Atiende, Paso
    <3> QED BY <2>a, <3>1 DEF PedidosSirven, Sirve
  <2>2. CASE EncolaEnInterfaz
    <3> DEFINE j == ret.interfaz
               b == [o |-> mano["vuelta"], tipo |-> TipoPedido(ret.motivo)]
    <3>1. /\ pc["vuelta"] = "a_bloqueados" /\ pc'["vuelta"] = "a_block"
          /\ bloq' = bloq \/ bloq' = [bloq EXCEPT ![j] = Append(@, b)]
      BY <1>b, <2>2 DEF EncolaEnInterfaz, Paso
    <3>2. j \in Interfaces BY <1>a, <3>1 DEF Tipado, ManosOK, ManoVuelta
    <3>3. ret.acepta /\ ret.motivo \in PedidosIO BY <3>1 DEF PedidosSirven
    <3>4. ret \in Retornos
      <4>1. ret = SinRetorno => ret.motivo \notin PedidosIO BY DEF SinRetorno, PedidosIO
      <4> QED BY <3>3, <4>1 DEF Motivados
    <3>5. Sirve(j, b.tipo) BY <3>2, <3>3, <3>4 DEF SinFallas
    <3>6. \A k \in Interfaces : \A n \in DOMAIN bloq'[k] :
            \/ n \in DOMAIN bloq[k] /\ bloq'[k][n] = bloq[k][n]
            \/ k = j /\ bloq'[k][n] = b
      <4>1. bloq \in [Interfaces -> Seq(Bloque)] BY <1>a DEF TypeIO
      <4>2. CASE bloq' = bloq BY <4>2
      <4>3. CASE bloq' # bloq
        <5>1. PICK e : e = b OBVIOUS
        <5>2. bloq' = [bloq EXCEPT ![j] = Append(@, e)] BY <3>1, <4>3, <5>1
        <5>3. PICK s : s = bloq[j] /\ s \in Seq(Bloque) BY <3>2, <4>1
        <5>4. bloq'[j] = Append(s, e) /\ \A k \in Interfaces \ {j} : bloq'[k] = bloq[k]
          BY <3>2, <4>1, <5>2, <5>3
        <5>5. \A n \in DOMAIN Append(s, e) : \/ n \in DOMAIN s /\ Append(s, e)[n] = s[n]
                                             \/ Append(s, e)[n] = e
          BY <5>3
        <5> QED BY <5>1, <5>3, <5>4, <5>5
      <4> QED BY <4>2, <4>3
    <3>7. \A k \in Interfaces : \A n \in DOMAIN bloq'[k] : Sirve(k, bloq'[k][n].tipo)
      BY <3>5, <3>6 DEF PedidosSirven
    <3> QED BY <2>a, <3>1, <3>7 DEF PedidosSirven, Sirve
  <2>3. CASE VueltaDispatch /\ ~BuscaInterfaz /\ ~EncolaEnInterfaz
    <3>1. bloq' = bloq /\ ((pc'["vuelta"] = pc["vuelta"] /\ ret' = ret) \/ pc'["vuelta"] # "a_bloqueados")
      BY <1>b, <2>3 DEF VueltaDispatch, VueltaMiraPlan, RecibeVuelta, AtiendeFinQuantum, AtiendeFinal,
         AtiendeOtroMotivo, RechazaPedido, AvisaInterfaz, InterfazLiberada, Cae, Atiende, Paso
    <3> QED BY <2>a, <3>1 DEF PedidosSirven, Sirve
  <2> QED BY <1>4, <2>1, <2>2, <2>3
<1>5. CASE VueltaRecurso
  <2>1. RecursoInvalido BY <1>a, <1>5, SinRamas
  <2>2. UNCHANGED <<bloq, pc_io, mano_io>> /\ pc'["vuelta"] = "tope"
    BY <1>b, <2>1 DEF RecursoInvalido, Pide, Paso
  <2> QED BY <2>2 DEF PedidosSirven, Sirve
<1>6. CASE Pares
  <2>1. UNCHANGED mano_io /\ \A i \in Interfaces : pc_io'[i] = pc_io[i] \/ pc_io'[i] = "tope"
    BY <1>a, <1>6 DEF Pares, MemoriaResponde, Reloj, RelojSinExec, RelojVence, CPUDevuelve,
       ConectaInterfaz, CierraInterfaz, PasoIO, TypeIO
  <2> QED BY <1>6, <2>1, MarcoPares DEF PedidosSirven, Sirve
<1>7. CASE UNCHANGED vars BY <1>7, PedidosQuedan DEF vars
<1> QED BY <1>1, <1>2, <1>3, <1>4, <1>5, <1>6, <1>7, QuienPasa

\* No thread is at the step that would end the program.
LEMMA NadieCae ==
    ASSUME Base, NadieMata, Conexos, SinFallas, SinRama, NewRespaldado, ReadyRespaldado,
           PedidosSirven, vivo, [Next]_vars
    PROVE  vivo'
<1>a. /\ Tipado /\ HilosCreados /\ Recursos = 0 /\ "FINALIZAR_PROCESO" \notin Comandos
      /\ Algoritmo = "VRR" => \A i \in Interfaces : Tipo[i] = "GENERICA"
  BY DEF Base, SinFallas
<1>1. CASE Consola
  <2>1. ~(\/ FinalizarProceso \/ BuscaEncuentra \/ BuscaSigue \/ Quita \/ QuitaFueraDeRango
          \/ NoHalladoSigue \/ NoHalladoFalla \/ InterrumpePorConsola \/ DecideSacar
          \/ FinalizaAExit)
    BY <1>a DEF FinalizarProceso, Ordena, BuscaEncuentra, BuscaSigue, Quita, QuitaFueraDeRango,
       NoHalladoSigue, NoHalladoFalla, InterrumpePorConsola, DecideSacar, FinalizaAExit, Paso,
       NadieMata
  <2> QED BY <1>1, <2>1 DEF Consola, IniciarProceso, ConsolaPideMemoria, ConsolaRecibeMemoria,
          EncolaEnNew, IniciarPlanificacion, DetenerPlanificacion, CambiarMultiprogramacion,
          SubeGrado, BajaGrado, TerminaGrado, Paso
<1>2. CASE Largo
  <2>1. ~EncolaNulo BY DEF EncolaNulo, NewRespaldado, Objs, Nulo
  <2> QED BY <1>2, <2>1 DEF Largo, TomaDeNew, EncolaEnReady, MarcaReady, Paso
<1>3. CASE Salida
  BY <1>3, <1>a, SinRamas DEF SalidaMiraPlan, TomaDeExit, SalidaPideMemoria, SalidaRecibeMemoria,
     Archiva, Paso
<1>4. CASE Despachador
  <2>1. ~ReadyVacia BY DEF ReadyVacia, ReadyRespaldado
  <2> QED BY <1>4, <2>1 DEF Despachador, DespachadorMiraPlan, Elige, SacaReady, MarcaExec, PasaAExec,
          Despacha, LanzaQuantum, Paso
<1>5. CASE VueltaDispatch
  <2>1. ~InterfazLiberada
    BY <1>a DEF InterfazLiberada, Conexos, Tipado, ManosOK, ManoVuelta
  <2> QED BY <1>5, <2>1 DEF VueltaDispatch, VueltaMiraPlan, RecibeVuelta, AtiendeFinQuantum,
          AtiendeFinal, AtiendeOtroMotivo, BuscaInterfaz, RechazaPedido, EncolaEnInterfaz,
          AvisaInterfaz, Atiende, Paso
<1>6. CASE VueltaRecurso BY <1>6, <1>a, SinRamas DEF RecursoInvalido, Pide, Paso
<1>7. CASE \E i \in Interfaces : AtiendeInterfaz(i)
  <2> PICK i \in Interfaces : AtiendeInterfaz(i) BY <1>7
  <2>1. ~IOConfundeTipo(i) BY DEF IOConfundeTipo, PedidosSirven, Sirve
  <2>2. ~IOVuelveLeeSinAsignar(i) BY <1>a DEF IOVuelveLeeSinAsignar, LeeSinAsignar
  <2>3. ~IOUsaLiberada(i) BY DEF IOUsaLiberada, Conexos
  <2> QED BY <2>1, <2>2, <2>3 DEF AtiendeInterfaz, IOMiraPlan, IOToma, IOEnvia, IORecibe,
          IORecibeCeroGenerica, IOVuelve, IOFinaliza, IODevuelve, IOQuitaInterfaz, IOVacia,
          IOVaciaFin, IODestruye, PasoIO
<1>8. CASE Pares
  BY <1>8 DEF Pares, MemoriaResponde, Reloj, RelojSinExec, RelojVence, CPUDevuelve, ConectaInterfaz,
     CierraInterfaz, PasoIO
<1>9. CASE UNCHANGED vars BY <1>9 DEF vars
<1> QED BY <1>1, <1>2, <1>3, <1>4, <1>5, <1>6, <1>7, <1>8, <1>9, QuienPasa

\* The inductive invariant: every semaphore of a list is behind what the list holds, and no
\* thread is on a branch that the hypotheses close.
Respaldado == /\ Ubicados /\ Motivados /\ Conexos /\ SinRama
              /\ NewRespaldado /\ ReadyRespaldado /\ PedidosSirven /\ SinCaida

LEMMA RespaldadoInit == ASSUME Init PROVE Respaldado
<1>1. Ubicados BY UbicadosInit
<1>2. /\ pc["vuelta"] = "sin_crear" /\ pc["despachador"] = "sin_crear" /\ pc["largo"] = "sin_crear"
      /\ sem["procesos_new"] = 0 /\ sem["procesos_ready"] = 0
      /\ cola["new"] = <<>> /\ cola["ready"] = <<>> /\ cola["ready_aux"] = <<>>
  BY DEF Init, Hilos, Semaforos, Colas
<1>3. Motivados BY DEF Init, Motivados
<1>4. Conexos BY DEF Init, Conexos
<1>5. SinRama /\ NewRespaldado BY <1>2 DEF SinRama, NewRespaldado
<1>6. ReadyRespaldado BY <1>2 DEF ReadyRespaldado, Listos, Prometido, PorAnunciar, Contar
<1>7. PedidosSirven BY <1>2 DEF Init, PedidosSirven
<1>8. SinCaida BY DEF Init, SinCaida
<1> QED BY <1>1, <1>3, <1>4, <1>5, <1>6, <1>7, <1>8 DEF Respaldado

LEMMA RespaldadoPaso == ASSUME SinFallas, Respaldado, [Next]_vars PROVE Respaldado'
<1>a. /\ "FINALIZAR_PROCESO" \notin Comandos /\ PuedenCerrar = {} /\ Recursos = 0
      /\ Ubicados /\ Base /\ NadieMata /\ Motivados /\ Conexos /\ SinRama /\ NewRespaldado
      /\ ReadyRespaldado /\ PedidosSirven /\ vivo
  BY DEF SinFallas, Respaldado, Ubicados, SinCaida
<1>1. Ubicados' BY <1>a, UbicadosPaso
<1>2. Motivados' /\ Conexos' /\ SinRama' BY <1>a, MotivadosPaso, ConexosPaso, SinRamaPaso
<1>3. NewRespaldado' /\ ReadyRespaldado' BY <1>a, NewPaso, ReadyPaso
<1>4. PedidosSirven' BY <1>a, PedidosPaso
<1>5. SinCaida' BY <1>a, NadieCae DEF SinCaida
<1> QED BY <1>1, <1>2, <1>3, <1>4, <1>5 DEF Respaldado

\* While nobody kills a process, the interfaces stay and each request is for an interface
\* that reads it as it was written, no thread of the kernel dereferences what an empty list
\* gives: planificacion_procesos_ready always finds a process in NEW (kernel.c 496-505) and
\* the dispatcher always finds one in the queue it chose, even though it chooses first and
\* pops later, with the mutex of the queue held for the pop alone (881-887, 907-918).
THEOREM NuncaCae ==
    ASSUME SinFallas
    PROVE  Spec => []SinCaida
<1>1. Init => Respaldado BY RespaldadoInit
<1>2. Respaldado /\ [Next]_vars => Respaldado' BY RespaldadoPaso
<1>3. Respaldado => SinCaida BY DEF Respaldado
<1> QED BY <1>1, <1>2, <1>3, PTL DEF Spec
=============================================================================
