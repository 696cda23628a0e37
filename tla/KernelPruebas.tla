---------------------------- MODULE KernelPruebas ----------------------------
(***************************************************************************)
(* Theorems about Kernel: the memory socket, the requests behind the       *)
(* semaphores and the alternation of dispatch and attention. Each of them  *)
(* is about a few threads; what the others leave alone is said once, in    *)
(* the Marco lemmas.                                                       *)
(***************************************************************************)
EXTENDS KernelTipos

-----------------------------------------------------------------------------
(* What each thread leaves alone.                                          *)

USE DEF hilos, plan, procesos, cpu, quantum, memoria, recursos, io, consola

\* Only thread h may move, and only once IniciarPlanificacion has created it.
Ajenos(h) == \A g \in Hilos \ {h} : pc'[g] = pc[g]
Creado(h) == pc'[h] = pc[h] \/ pc[h] # "sin_crear"
MismoSem(S) == \A s \in S : sem'[s] = sem[s]
Turno == {"despachar", "atender_rta"}
MismoExit == sem'["procesos_exit"] = sem["procesos_exit"] /\ cola'["exit"] = cola["exit"]

\* Before INICIAR_PLANIFICACION only the console exists (kernel.c 311-321).
HilosCreados == ~esta_planificando => \A h \in Hilos \ {"consola"} : pc[h] = "sin_crear"

\* What planificacion_procesos_ready may not touch.
LEMMA MarcoLargo ==
    ASSUME Tipado, Largo
    PROVE  /\ Ajenos("largo") /\ Creado("largo") /\ UNCHANGED <<esta_planificando, cpu, memoria, io>>
           /\ MismoSem(Turno) /\ MismoExit
<1>a. TypeHilos /\ TypeSem /\ TypeColas BY DEF Tipado, TypeOK
<1>1. CASE TomaDeNew BY <1>a, <1>1 DEF Ajenos, Creado, MismoSem, Turno, MismoExit, TomaDeNew,
        Paso, Sacar, Wait, TypeHilos, Hilos, TypeSem, Semaforos, TypeColas, Colas
<1>2. CASE EncolaEnReady BY <1>a, <1>2 DEF Ajenos, Creado, MismoSem, Turno, MismoExit,
        EncolaEnReady, Paso, Empujar, Wait, TypeHilos, Hilos, TypeSem, Semaforos, TypeColas, Colas
<1>3. CASE MarcaReady BY <1>a, <1>3 DEF Ajenos, Creado, MismoSem, Turno, MismoExit, MarcaReady,
        Paso, Post, TypeHilos, Hilos, TypeSem, Semaforos, TypeColas, Colas
<1>4. CASE EncolaNulo
  BY <1>4 DEF Ajenos, Creado, MismoSem, Turno, MismoExit, EncolaNulo, Cae
<1> QED BY <1>1, <1>2, <1>3, <1>4 DEF Largo

\* What procesos_en_exit may not touch.
LEMMA MarcoSalida ==
    ASSUME Tipado, Salida
    PROVE  /\ Ajenos("salida") /\ Creado("salida") /\ UNCHANGED <<esta_planificando, cpu, io>>
           /\ MismoSem(Turno)
<1>a. TypeHilos /\ TypeSem /\ TypeColas BY DEF Tipado, TypeOK
<1>1. CASE SalidaMiraPlan BY <1>a, <1>1 DEF Ajenos, Creado, MismoSem, Turno, SalidaMiraPlan, Paso,
        TypeHilos, Hilos, TypeSem, Semaforos
<1>2. CASE TomaDeExit BY <1>a, <1>2 DEF Ajenos, Creado, MismoSem, Turno, TomaDeExit, Paso,
        TypeHilos, Hilos, TypeSem, Semaforos
<1>3. CASE SalidaPideMemoria BY <1>a, <1>3 DEF Ajenos, Creado, MismoSem, Turno, SalidaPideMemoria,
        Paso, TypeHilos, Hilos, TypeSem, Semaforos
<1>4. CASE SalidaRecibeMemoria BY <1>a, <1>4 DEF Ajenos, Creado, MismoSem, Turno,
        SalidaRecibeMemoria, Paso, TypeHilos, Hilos, TypeSem, Semaforos
<1>5. CASE NoTieneInstancias BY <1>a, <1>5 DEF Ajenos, Creado, MismoSem, Turno, NoTieneInstancias,
        Paso, TypeHilos, Hilos, TypeSem, Semaforos
<1>6. CASE LiberaLeeInstancias BY <1>a, <1>6 DEF Ajenos, Creado, MismoSem, Turno,
        LiberaLeeInstancias, Paso, TypeHilos, Hilos, TypeSem, Semaforos
<1>7. CASE LiberaIncrementa BY <1>a, <1>7 DEF Ajenos, Creado, MismoSem, Turno, LiberaIncrementa,
        Paso, TypeHilos, Hilos, TypeSem, Semaforos
<1>8. CASE LiberaSacaBloqueado BY <1>a, <1>8 DEF Ajenos, Creado, MismoSem, Turno,
        LiberaSacaBloqueado, Paso, TypeHilos, Hilos, TypeSem, Semaforos
<1>9. CASE LiberaDesbloquea BY <1>a, <1>9 DEF Ajenos, Creado, MismoSem, Turno, LiberaDesbloquea,
        Paso, TypeHilos, Hilos, TypeSem, Semaforos
<1>10. CASE Archiva BY <1>a, <1>10 DEF Ajenos, Creado, MismoSem, Turno, Archiva, Paso, TypeHilos,
        Hilos, TypeSem, Semaforos
<1>11. CASE LiberaSinBloqueado \/ LiberaLeeSinAsignar
  BY <1>11 DEF Ajenos, Creado, MismoSem,
        Turno, LiberaSinBloqueado, LiberaLeeSinAsignar, Cae
<1> QED BY <1>1, <1>2, <1>3, <1>4, <1>5, <1>6, <1>7, <1>8, <1>9, <1>10, <1>11 DEF Salida

\* What despachador may not touch.
LEMMA MarcoDespachador ==
    ASSUME Tipado, Despachador
    PROVE  /\ Ajenos("despachador") /\ Creado("despachador") /\ UNCHANGED <<esta_planificando, ret, de_cpu, memoria, io>>
           /\ MismoExit
<1>a. TypeHilos /\ TypeSem /\ TypeColas BY DEF Tipado, TypeOK
<1>1. CASE DespachadorMiraPlan BY <1>a, <1>1 DEF Ajenos, Creado, MismoExit, DespachadorMiraPlan,
        Paso, TypeHilos, Hilos, TypeSem, Semaforos, TypeColas, Colas
<1>2. CASE Elige BY <1>a, <1>2 DEF Ajenos, Creado, MismoExit, Elige, Paso, TypeHilos, Hilos,
        TypeSem, Semaforos, TypeColas, Colas
<1>3. CASE SacaReady BY <1>a, <1>3 DEF Ajenos, Creado, MismoExit, SacaReady, Paso, Sacar,
        TypeHilos, Hilos, TypeSem, Semaforos, TypeColas, Colas
<1>4. CASE MarcaExec BY <1>a, <1>4 DEF Ajenos, Creado, MismoExit, MarcaExec, Paso, TypeHilos,
        Hilos, TypeSem, Semaforos, TypeColas, Colas
<1>5. CASE PasaAExec BY <1>a, <1>5 DEF Ajenos, Creado, MismoExit, PasaAExec, Paso, Empujar,
        TypeHilos, Hilos, TypeSem, Semaforos, TypeColas, Colas
<1>6. CASE Despacha BY <1>a, <1>6 DEF Ajenos, Creado, MismoExit, Despacha, Paso, Post, TypeHilos,
        Hilos, TypeSem, Semaforos, TypeColas, Colas
<1>7. CASE LanzaQuantum BY <1>a, <1>7 DEF Ajenos, Creado, MismoExit, LanzaQuantum, Paso,
        TypeHilos, Hilos, TypeSem, Semaforos, TypeColas, Colas
<1>8. CASE ReadyVacia
  BY <1>8 DEF Ajenos, Creado, MismoExit, ReadyVacia, Cae
<1> QED BY <1>1, <1>2, <1>3, <1>4, <1>5, <1>6, <1>7, <1>8 DEF Despachador

\* What atender_vuelta_dispatch may not touch.
LEMMA MarcoVueltaDispatch ==
    ASSUME Tipado, VueltaDispatch
    PROVE  /\ Ajenos("vuelta") /\ Creado("vuelta") /\ UNCHANGED <<esta_planificando, memoria, conectadas, cerradas, pc_io, mano_io>>
<1>a. TypeHilos /\ TypeSem /\ TypeColas BY DEF Tipado, TypeOK
<1>1. CASE VueltaMiraPlan BY <1>a, <1>1 DEF Ajenos, Creado, VueltaMiraPlan, Paso, TypeHilos, Hilos
<1>2. CASE RecibeVuelta BY <1>a, <1>2 DEF Ajenos, Creado, RecibeVuelta, Paso, Wait, TypeHilos,
        Hilos
<1>3. CASE AtiendeFinQuantum BY <1>a, <1>3 DEF Ajenos, Creado, AtiendeFinQuantum, SueltaVuelta,
        Atiende, Paso, TypeHilos, Hilos
<1>4. CASE AtiendeFinal BY <1>a, <1>4 DEF Ajenos, Creado, AtiendeFinal, SueltaVuelta, Atiende,
        Paso, TypeHilos, Hilos
<1>5. CASE AtiendeOtroMotivo BY <1>a, <1>5 DEF Ajenos, Creado, AtiendeOtroMotivo, SueltaVuelta,
        Post, Atiende, Paso, TypeHilos, Hilos
<1>6. CASE BuscaInterfaz BY <1>a, <1>6 DEF Ajenos, Creado, BuscaInterfaz, Atiende, Paso,
        TypeHilos, Hilos
<1>7. CASE RechazaPedido BY <1>a, <1>7 DEF Ajenos, Creado, RechazaPedido, Paso, SueltaVuelta,
        TypeHilos, Hilos
<1>8. CASE EncolaEnInterfaz BY <1>a, <1>8 DEF Ajenos, Creado, EncolaEnInterfaz, Paso, TypeHilos,
        Hilos
<1>9. CASE AvisaInterfaz BY <1>a, <1>9 DEF Ajenos, Creado, AvisaInterfaz, Paso, SueltaVuelta,
        Post, TypeHilos, Hilos
<1>10. CASE InterfazLiberada
  BY <1>10 DEF Ajenos, Creado, InterfazLiberada, Cae
<1> QED BY <1>1, <1>2, <1>3, <1>4, <1>5, <1>6, <1>7, <1>8, <1>9, <1>10 DEF VueltaDispatch

\* What manejar_wait and manejar_signal may not touch.
LEMMA MarcoVueltaRecurso ==
    ASSUME Tipado, VueltaRecurso
    PROVE  /\ Ajenos("vuelta") /\ Creado("vuelta") /\ UNCHANGED <<esta_planificando, memoria, io>>
<1>a. TypeHilos /\ TypeSem /\ TypeColas BY DEF Tipado, TypeOK
<1>1. CASE RecursoInvalido BY <1>a, <1>1 DEF Ajenos, Creado, RecursoInvalido, SueltaVuelta, Pide,
        Paso, TypeHilos, Hilos
<1>2. CASE LeeInstancias BY <1>a, <1>2 DEF Ajenos, Creado, LeeInstancias, Pide, Paso, TypeHilos,
        Hilos
<1>3. CASE EscribeInstancias BY <1>a, <1>3 DEF Ajenos, Creado, EscribeInstancias, Paso, TypeHilos,
        Hilos
<1>4. CASE DecideRecurso BY <1>a, <1>4 DEF Ajenos, Creado, DecideRecurso, Paso, TypeHilos, Hilos
<1>5. CASE EncolaEnRecurso BY <1>a, <1>5 DEF Ajenos, Creado, EncolaEnRecurso, Paso, TypeHilos,
        Hilos
<1>6. CASE BloqueaPorRecurso BY <1>a, <1>6 DEF Ajenos, Creado, BloqueaPorRecurso, Paso,
        SueltaVuelta, TypeHilos, Hilos
<1>7. CASE SacaDeRecurso BY <1>a, <1>7 DEF Ajenos, Creado, SacaDeRecurso, Paso, TypeHilos, Hilos
<1>8. CASE Desbloquea BY <1>a, <1>8 DEF Ajenos, Creado, Desbloquea, Paso, Post, TypeHilos, Hilos
<1>9. CASE VuelveAExec BY <1>a, <1>9 DEF Ajenos, Creado, VuelveAExec, Paso, TypeHilos, Hilos
<1>10. CASE Reenvia BY <1>a, <1>10 DEF Ajenos, Creado, Reenvia, Paso, SueltaVuelta, Post,
        TypeHilos, Hilos
<1>11. CASE RecursoVacio \/ DesbloqueaLeeSinAsignar
  BY <1>11 DEF Ajenos, Creado, RecursoVacio,
        DesbloqueaLeeSinAsignar, Cae
<1> QED BY <1>1, <1>2, <1>3, <1>4, <1>5, <1>6, <1>7, <1>8, <1>9, <1>10, <1>11 DEF VueltaRecurso

\* What an interface thread may not touch.
LEMMA MarcoAtiendeInterfaz ==
    ASSUME Tipado, NEW i \in Interfaces, AtiendeInterfaz(i)
    PROVE  /\ UNCHANGED <<pc, esta_planificando, cpu, memoria>>
           /\ MismoSem(Turno)
<1>a. TypeHilos /\ TypeSem /\ TypeColas BY DEF Tipado, TypeOK
<1>1. CASE IOMiraPlan(i) BY <1>a, <1>1 DEF MismoSem, Turno, IOMiraPlan, TypeHilos, Hilos, TypeSem,
        Semaforos
<1>2. CASE IOToma(i) BY <1>a, <1>2 DEF MismoSem, Turno, IOToma, TypeHilos, Hilos, TypeSem,
        Semaforos
<1>3. CASE IOEnvia(i) BY <1>a, <1>3 DEF MismoSem, Turno, IOEnvia, TypeHilos, Hilos, TypeSem,
        Semaforos
<1>4. CASE IORecibe(i) BY <1>a, <1>4 DEF MismoSem, Turno, IORecibe, TypeHilos, Hilos, TypeSem,
        Semaforos
<1>5. CASE IORecibeCeroGenerica(i) BY <1>a, <1>5 DEF MismoSem, Turno, IORecibeCeroGenerica,
        TypeHilos, Hilos, TypeSem, Semaforos
<1>6. CASE IOVuelve(i) BY <1>a, <1>6 DEF MismoSem, Turno, IOVuelve, Post, TypeHilos, Hilos,
        TypeSem, Semaforos
<1>7. CASE IOFinaliza(i) BY <1>a, <1>7 DEF MismoSem, Turno, IOFinaliza, Post, TypeHilos, Hilos,
        TypeSem, Semaforos
<1>8. CASE IODevuelve(i) BY <1>a, <1>8 DEF MismoSem, Turno, IODevuelve, TypeHilos, Hilos, TypeSem,
        Semaforos
<1>9. CASE IOQuitaInterfaz(i) BY <1>a, <1>9 DEF MismoSem, Turno, IOQuitaInterfaz, TypeHilos,
        Hilos, TypeSem, Semaforos
<1>10. CASE IOVacia(i) BY <1>a, <1>10 DEF MismoSem, Turno, IOVacia, Post, TypeHilos, Hilos,
        TypeSem, Semaforos
<1>11. CASE IOVaciaFin(i) BY <1>a, <1>11 DEF MismoSem, Turno, IOVaciaFin, TypeHilos, Hilos,
        TypeSem, Semaforos
<1>12. CASE IODestruye(i) BY <1>a, <1>12 DEF MismoSem, Turno, IODestruye, TypeHilos, Hilos,
        TypeSem, Semaforos
<1>13. CASE IOConfundeTipo(i) \/ IOVuelveLeeSinAsignar(i) \/ IOUsaLiberada(i)
  BY <1>13 DEF
        MismoSem, Turno, IOConfundeTipo, IOVuelveLeeSinAsignar, IOUsaLiberada, Cae
<1> QED BY <1>1, <1>2, <1>3, <1>4, <1>5, <1>6, <1>7, <1>8, <1>9, <1>10, <1>11, <1>12,
        <1>13 DEF AtiendeInterfaz

\* What a command of the console may not touch; INICIAR_PLANIFICACION creates threads.
Quieto(h) == \/ pc'[h] = pc[h]
             \/ pc[h] = "sin_crear" /\ pc'[h] = IF h = "largo" THEN "espera_new" ELSE "tope"
Duerme == Hilos \ {"consola"}
LEMMA MarcoConsola ==
    ASSUME Tipado, HilosCreados, Consola
    PROVE  /\ UNCHANGED <<cpu, io>> /\ MismoSem(Turno)
           /\ \A h \in Duerme : Quieto(h)
           /\ esta_planificando' \/ (Ajenos("consola") /\ esta_planificando' = esta_planificando)
<1>a. TypeHilos /\ TypeSem /\ TypeColas BY DEF Tipado, TypeOK
<1>1. CASE IniciarProceso \/ ConsolaPideMemoria \/ ConsolaRecibeMemoria
  BY <1>a, <1>1 DEF IniciarProceso, ConsolaPideMemoria, ConsolaRecibeMemoria, Paso, Ajenos,
        MismoSem, Turno, Quieto, Duerme, TypeHilos, Hilos, TypeSem, Semaforos
<1>2. CASE EncolaEnNew
  BY <1>a, <1>2 DEF EncolaEnNew, Post, Paso, Ajenos, MismoSem, Turno, Quieto, Duerme, TypeHilos,
        Hilos, TypeSem, Semaforos
<1>3. CASE IniciarPlanificacion
  <2>1. UNCHANGED <<cpu, io, sem>> /\ esta_planificando' = TRUE BY <1>3 DEF IniciarPlanificacion
  <2>2. CASE esta_planificando BY <1>3, <2>2, <2>1 DEF IniciarPlanificacion, MismoSem, Quieto
  <2>3. CASE ~esta_planificando
    <3>1. \A h \in Duerme : pc[h] = "sin_crear" BY <2>3 DEF HilosCreados, Duerme
    <3>2. pc' = [pc EXCEPT !["largo"] = "espera_new", !["salida"] = "tope",
                           !["despachador"] = "tope", !["vuelta"] = "tope"]
      BY <1>3, <2>3 DEF IniciarPlanificacion
    <3> QED BY <1>a, <2>1, <3>1, <3>2 DEF MismoSem, Quieto, Duerme, TypeHilos, Hilos
  <2> QED BY <2>2, <2>3
<1>4. CASE DetenerPlanificacion \/ FinalizarProceso \/ BuscaEncuentra \/ BuscaSigue
  BY <1>a, <1>4 DEF DetenerPlanificacion, FinalizarProceso, BuscaEncuentra, BuscaSigue, Paso,
        Ajenos, MismoSem, Turno, Quieto, Duerme, TypeHilos, Hilos, TypeSem, Semaforos
<1>5. CASE CambiarMultiprogramacion
  BY <1>a, <1>5 DEF CambiarMultiprogramacion, Paso, Ajenos, MismoSem, Turno, Quieto, Duerme,
        TypeHilos, Hilos, TypeSem, Semaforos
<1>6. CASE SubeGrado \/ BajaGrado
  BY <1>a, <1>6 DEF SubeGrado, BajaGrado, Post, Wait, Paso, Ajenos, MismoSem, Turno, Quieto,
        Duerme, TypeHilos, Hilos, TypeSem, Semaforos
<1>7. CASE TerminaGrado
  BY <1>a, <1>7 DEF TerminaGrado, Paso, Ajenos, MismoSem, Turno, Quieto, Duerme, TypeHilos, Hilos,
        TypeSem, Semaforos
<1>8. CASE Quita \/ NoHalladoSigue \/ InterrumpePorConsola \/ DecideSacar
  BY <1>a, <1>8 DEF Quita, NoHalladoSigue, InterrumpePorConsola, DecideSacar, Paso, Ajenos,
        MismoSem, Turno, Quieto, Duerme, TypeHilos, Hilos, TypeSem, Semaforos
<1>9. CASE FinalizaAExit
  BY <1>a, <1>9 DEF FinalizaAExit, Post, Paso, Ajenos, MismoSem, Turno, Quieto, Duerme, TypeHilos,
        Hilos, TypeSem, Semaforos
<1>10. CASE QuitaFueraDeRango \/ NoHalladoFalla
  BY <1>10 DEF QuitaFueraDeRango, NoHalladoFalla, Cae, Ajenos, MismoSem, Quieto
<1> QED BY <1>1, <1>2, <1>3, <1>4, <1>5, <1>6, <1>7, <1>8, <1>9, <1>10 DEF Consola

\* The peers move no thread of the kernel: memory, CPU, timers and new connections.
Pares == \/ MemoriaResponde \/ Reloj \/ CPUDevuelve
         \/ \E i \in Interfaces : ConectaInterfaz(i) \/ CierraInterfaz(i)
LEMMA MarcoPares ==
    ASSUME Pares
    PROVE  UNCHANGED <<pc, esta_planificando, sem, ret, cola, bloq, sem_io, mutex_envio_memoria>>
  BY DEF Pares, MemoriaResponde, Reloj, RelojSinExec, RelojVence, CPUDevuelve, ConectaInterfaz,
         CierraInterfaz, PasoIO

\* Who takes a step.
LEMMA QuienPasa ==
    ASSUME [Next]_vars
    PROVE  \/ Consola \/ Largo \/ Salida \/ Despachador \/ VueltaDispatch \/ VueltaRecurso
           \/ Pares \/ (\E i \in Interfaces : AtiendeInterfaz(i)) \/ UNCHANGED vars
  BY DEF Next, Pares

\* No scheduler thread exists until INICIAR_PLANIFICACION creates them all (kernel.c 311-321).
LEMMA HilosCreadosPaso == ASSUME Tipado, HilosCreados, [Next]_vars PROVE HilosCreados'
<1>1. CASE Consola BY <1>1, MarcoConsola DEF HilosCreados, Ajenos
<1>2. CASE Largo BY <1>2, MarcoLargo DEF HilosCreados, Ajenos, Creado, Hilos
<1>3. CASE Salida BY <1>3, MarcoSalida DEF HilosCreados, Ajenos, Creado, Hilos
<1>4. CASE Despachador BY <1>4, MarcoDespachador DEF HilosCreados, Ajenos, Creado, Hilos
<1>5. CASE VueltaDispatch BY <1>5, MarcoVueltaDispatch DEF HilosCreados, Ajenos, Creado, Hilos
<1>6. CASE VueltaRecurso BY <1>6, MarcoVueltaRecurso DEF HilosCreados, Ajenos, Creado, Hilos
<1>7. CASE Pares BY <1>7, MarcoPares DEF HilosCreados
<1>8. CASE \E i \in Interfaces : AtiendeInterfaz(i) BY <1>8, MarcoAtiendeInterfaz DEF HilosCreados
<1>9. CASE UNCHANGED vars BY <1>9 DEF HilosCreados, vars
<1> QED BY <1>1, <1>2, <1>3, <1>4, <1>5, <1>6, <1>7, <1>8, <1>9, QuienPasa

Base == Tipado /\ HilosCreados
LEMMA BaseInit == ASSUME Init PROVE Base
<1>1. HilosCreados BY DEF Init, HilosCreados, Hilos
<1> QED BY <1>1, InitTipado DEF Base
LEMMA BasePaso == ASSUME Base, [Next]_vars PROVE Base'
  BY NextTipado, HilosCreadosPaso DEF Base

-----------------------------------------------------------------------------
(* The memory socket.                                                      *)

\* Neither thread answers a request it has not sent, and no step of the others
\* moves them: the mutex of kernel.c 94-97 and 417-420 is enough.
LEMMA RespuestaPaso ==
    ASSUME Base, RespuestaDeQuienPidio, [Next]_vars PROVE RespuestaDeQuienPidio'
<1>a. Tipado /\ HilosCreados /\ TypeHilos BY DEF Base, Tipado, TypeOK
<1>1. CASE Consola
  <2>1. pc'["salida"] = "rta_memoria" <=> pc["salida"] = "rta_memoria"
    BY <1>1, <1>a, MarcoConsola DEF Quieto, Duerme, Hilos
  <2>2. CASE ConsolaPideMemoria
    BY <1>a, <2>1, <2>2 DEF ConsolaPideMemoria, Paso, RespuestaDeQuienPidio, TypeHilos, Hilos
  <2>3. CASE ConsolaRecibeMemoria
    BY <1>a, <2>1, <2>3 DEF ConsolaRecibeMemoria, Paso, RespuestaDeQuienPidio, TypeHilos, Hilos
  <2>4. CASE ~ConsolaPideMemoria /\ ~ConsolaRecibeMemoria
    <3>1. UNCHANGED memoria
      BY <1>1, <2>4 DEF Consola, IniciarProceso, EncolaEnNew, IniciarPlanificacion,
         DetenerPlanificacion, CambiarMultiprogramacion, SubeGrado, BajaGrado, TerminaGrado,
         FinalizarProceso, BuscaEncuentra, BuscaSigue, Quita, QuitaFueraDeRango, NoHalladoSigue,
         NoHalladoFalla, InterrumpePorConsola, DecideSacar, FinalizaAExit, Cae
    <3>2. pc'["consola"] = "rta_memoria" <=> pc["consola"] = "rta_memoria"
      BY <1>1, <1>a, <2>4 DEF Consola, IniciarProceso, EncolaEnNew, IniciarPlanificacion,
         DetenerPlanificacion, CambiarMultiprogramacion, SubeGrado, BajaGrado, TerminaGrado,
         FinalizarProceso, BuscaEncuentra, BuscaSigue, Quita, QuitaFueraDeRango, NoHalladoSigue,
         NoHalladoFalla, InterrumpePorConsola, DecideSacar, FinalizaAExit, Cae, Paso, TypeHilos,
         Hilos
    <3> QED BY <2>1, <3>1, <3>2 DEF RespuestaDeQuienPidio
  <2> QED BY <2>2, <2>3, <2>4
<1>2. CASE Salida
  <2>1. pc'["consola"] = pc["consola"] BY <1>2, <1>a, MarcoSalida DEF Ajenos, Hilos
  <2>2. CASE SalidaPideMemoria
    BY <1>a, <2>1, <2>2 DEF SalidaPideMemoria, Paso, RespuestaDeQuienPidio, TypeHilos, Hilos
  <2>3. CASE SalidaRecibeMemoria
    BY <1>a, <2>1, <2>3 DEF SalidaRecibeMemoria, Paso, RespuestaDeQuienPidio, TypeHilos, Hilos
  <2>4. CASE ~SalidaPideMemoria /\ ~SalidaRecibeMemoria
    <3>1. UNCHANGED memoria
      BY <1>2, <2>4 DEF Salida, SalidaMiraPlan, TomaDeExit, NoTieneInstancias,
         LiberaLeeInstancias, LiberaIncrementa, LiberaSacaBloqueado, LiberaSinBloqueado,
         LiberaDesbloquea, LiberaLeeSinAsignar, Archiva, Cae
    <3>2. pc'["salida"] = "rta_memoria" <=> pc["salida"] = "rta_memoria"
      BY <1>2, <1>a, <2>4 DEF Salida, SalidaMiraPlan, TomaDeExit, NoTieneInstancias,
         LiberaLeeInstancias, LiberaIncrementa, LiberaSacaBloqueado, LiberaSinBloqueado,
         LiberaDesbloquea, LiberaLeeSinAsignar, Archiva, Cae, Paso, TypeHilos, Hilos
    <3> QED BY <2>1, <3>1, <3>2 DEF RespuestaDeQuienPidio
  <2> QED BY <2>2, <2>3, <2>4
<1>3. CASE Largo
  BY <1>3, <1>a, MarcoLargo DEF Ajenos, Hilos, RespuestaDeQuienPidio
<1>4. CASE Despachador
  BY <1>4, <1>a, MarcoDespachador DEF Ajenos, Hilos, RespuestaDeQuienPidio
<1>5. CASE VueltaDispatch
  BY <1>5, <1>a, MarcoVueltaDispatch DEF Ajenos, Hilos, RespuestaDeQuienPidio
<1>6. CASE VueltaRecurso
  BY <1>6, <1>a, MarcoVueltaRecurso DEF Ajenos, Hilos, RespuestaDeQuienPidio
<1>7. CASE \E i \in Interfaces : AtiendeInterfaz(i)
  BY <1>7, <1>a, MarcoAtiendeInterfaz DEF RespuestaDeQuienPidio
<1>8. CASE MemoriaResponde
  BY <1>8 DEF MemoriaResponde, RespuestaDeQuienPidio
<1>9. CASE Pares /\ ~MemoriaResponde
  BY <1>9 DEF Pares, Reloj, RelojSinExec, RelojVence, CPUDevuelve, ConectaInterfaz,
     CierraInterfaz, PasoIO, RespuestaDeQuienPidio
<1>10. CASE UNCHANGED vars BY <1>10 DEF RespuestaDeQuienPidio, vars
<1> QED BY <1>1, <1>2, <1>3, <1>4, <1>5, <1>6, <1>7, <1>8, <1>9, <1>10, QuienPasa

\* An answer of the memory module is never taken by the thread that did not ask for it
\* (kernel.c 94-97, 417-420).
THEOREM RespuestaNoSeCruza == Spec => []RespuestaDeQuienPidio
<1>1. Init => Base /\ RespuestaDeQuienPidio
  BY BaseInit DEF Init, RespuestaDeQuienPidio, Hilos
<1>2. Base /\ RespuestaDeQuienPidio /\ [Next]_vars => (Base /\ RespuestaDeQuienPidio)'
  BY BasePaso, RespuestaPaso
<1> QED BY <1>1, <1>2, PTL DEF Spec

-----------------------------------------------------------------------------
(* A-B-A-B.                                                                *)

DeRecursos == {"SOLICITAR_WAIT", "SOLICITAR_SIGNAL"}

\* No instruction WAIT or SIGNAL is on its way from the CPU or being attended.
SinDeRecursos ==
    /\ \A n \in DOMAIN de_cpu : de_cpu[n].r.motivo \notin DeRecursos
    /\ ret.motivo \notin DeRecursos
    /\ pc["vuelta"] \in {"sin_crear", "tope", "espera_rta", "atiende", "a_bloqueados", "a_block",
                         "rechaza"}

\* Then the branches of kernel.c 588-601, and the second sem_post with them, are not reached.
LEMMA SinVueltaRecurso == ASSUME SinDeRecursos PROVE ~VueltaRecurso
  BY DEF SinDeRecursos, DeRecursos, VueltaRecurso, RecursoInvalido, LeeInstancias,
     EscribeInstancias, DecideRecurso, EncolaEnRecurso, BloqueaPorRecurso, SacaDeRecurso,
     RecursoVacio, Desbloquea, DesbloqueaLeeSinAsignar, VuelveAExec, Reenvia, Pide, Paso

\* They stay out of reach while the CPU does not send them.
LEMMA SinDeRecursosPaso ==
    ASSUME \A r \in Retornos : r.motivo \notin DeRecursos,
           Base, SinDeRecursos, [Next]_vars
    PROVE  SinDeRecursos'
<1>a. Tipado /\ HilosCreados /\ TypeHilos /\ TypeCPU BY DEF Base, Tipado, TypeOK
<1>1. CASE Consola
  BY <1>1, <1>a, MarcoConsola DEF Quieto, Duerme, Hilos, SinDeRecursos
<1>2. CASE Largo BY <1>2, <1>a, MarcoLargo DEF Ajenos, Hilos, SinDeRecursos
<1>3. CASE Salida BY <1>3, <1>a, MarcoSalida DEF Ajenos, Hilos, SinDeRecursos
<1>4. CASE Despachador BY <1>4, <1>a, MarcoDespachador DEF Ajenos, Hilos, SinDeRecursos
<1>5. CASE \E i \in Interfaces : AtiendeInterfaz(i)
  BY <1>5, <1>a, MarcoAtiendeInterfaz DEF SinDeRecursos
<1>6. CASE VueltaDispatch
  <2>1. CASE VueltaMiraPlan \/ BuscaInterfaz \/ EncolaEnInterfaz
    BY <1>a, <2>1 DEF VueltaMiraPlan, BuscaInterfaz, EncolaEnInterfaz, Atiende, Paso, TypeHilos,
       Hilos, SinDeRecursos
  <2>2. CASE RecibeVuelta
    <3>1. Head(de_cpu) = de_cpu[1] /\ 1 \in DOMAIN de_cpu
          /\ \A n \in DOMAIN Tail(de_cpu) : n + 1 \in DOMAIN de_cpu /\ Tail(de_cpu)[n] = de_cpu[n + 1]
      BY <1>a, <2>2 DEF TypeCPU, RecibeVuelta
    <3>2. ret' = Head(de_cpu).r /\ de_cpu' = Tail(de_cpu) BY <2>2 DEF RecibeVuelta
    <3>3. pc'["vuelta"] = "atiende" BY <1>a, <2>2 DEF RecibeVuelta, Paso, TypeHilos, Hilos
    <3> QED BY <3>1, <3>2, <3>3 DEF SinDeRecursos
  <2>3. CASE AtiendeFinQuantum \/ AtiendeFinal \/ AtiendeOtroMotivo \/ RechazaPedido \/ AvisaInterfaz
    <3>1. ret' = SinRetorno /\ UNCHANGED de_cpu
      BY <2>3 DEF AtiendeFinQuantum, AtiendeFinal, AtiendeOtroMotivo, RechazaPedido, AvisaInterfaz,
         SueltaVuelta
    <3>2. pc'["vuelta"] = "tope"
      BY <1>a, <2>3 DEF AtiendeFinQuantum, AtiendeFinal, AtiendeOtroMotivo, RechazaPedido,
         AvisaInterfaz, Atiende, Paso, TypeHilos, Hilos
    <3> QED BY <3>1, <3>2 DEF SinDeRecursos, DeRecursos, SinRetorno
  <2>4. CASE InterfazLiberada BY <2>4 DEF InterfazLiberada, Cae, SinDeRecursos
  <2> QED BY <1>6, <2>1, <2>2, <2>3, <2>4 DEF VueltaDispatch
<1>7. CASE CPUDevuelve
  <2>1. PICK r \in Retornos : de_cpu' = Append(de_cpu, [o |-> Head(a_cpu), r |-> r])
    BY <1>7 DEF CPUDevuelve
  <2>2. \A n \in DOMAIN de_cpu' : \/ n \in DOMAIN de_cpu /\ de_cpu'[n] = de_cpu[n]
                                  \/ de_cpu'[n].r = r
    BY <1>a, <2>1 DEF TypeCPU
  <2> QED BY <1>7, <2>1, <2>2 DEF CPUDevuelve, SinDeRecursos
<1>8. CASE Pares /\ ~CPUDevuelve
  BY <1>8 DEF Pares, Reloj, RelojSinExec, RelojVence, MemoriaResponde, ConectaInterfaz,
     CierraInterfaz, PasoIO, SinDeRecursos
<1>9. CASE UNCHANGED vars BY <1>9 DEF SinDeRecursos, vars
<1> QED BY <1>1, <1>2, <1>3, <1>4, <1>5, <1>6, <1>7, <1>8, <1>9, QuienPasa, SinVueltaRecurso

\* The steps of the two threads that hand the turn over, and of the CPU between them.
LEMMA AlternanciaPaso ==
    ASSUME Base, SinDeRecursos, Alternancia, [Next]_vars
    PROVE  Alternancia'
<1>a. Tipado /\ HilosCreados /\ TypeHilos /\ TypeCPU /\ TypeSem BY DEF Base, Tipado, TypeOK
<1>b. /\ sem["despachar"] \in Nat /\ sem["atender_rta"] \in Nat
      /\ Len(a_cpu) \in Nat /\ Len(de_cpu) \in Nat
  BY <1>a DEF TypeSem, Semaforos, TypeCPU
<1> USE DEF Alternancia, TurnoUnico, CPUExclusiva
<1>1. CASE Consola
  <2>1. UNCHANGED cpu /\ MismoSem(Turno) /\ Quieto("despachador") /\ Quieto("vuelta")
    BY <1>1, <1>a, MarcoConsola DEF Duerme, Hilos
  <2>2. DespachadorTiene' = DespachadorTiene BY <2>1 DEF Quieto, DespachadorTiene
  <2>3. VueltaTiene' = VueltaTiene BY <2>1 DEF Quieto, VueltaTiene, PasosVuelta
  <2> QED BY <2>1, <2>2, <2>3 DEF MismoSem, Turno
<1>2. CASE Largo
  BY <1>2, <1>a, MarcoLargo DEF Ajenos, Hilos, MismoSem, Turno, DespachadorTiene, VueltaTiene
<1>3. CASE Salida
  BY <1>3, <1>a, MarcoSalida DEF Ajenos, Hilos, MismoSem, Turno, DespachadorTiene, VueltaTiene
<1>4. CASE \E i \in Interfaces : AtiendeInterfaz(i)
  BY <1>4, <1>a, MarcoAtiendeInterfaz DEF MismoSem, Turno, DespachadorTiene, VueltaTiene
<1>5. CASE Despachador
  <2>a. UNCHANGED de_cpu /\ VueltaTiene' = VueltaTiene
    BY <1>5, <1>a, MarcoDespachador DEF Ajenos, Hilos, VueltaTiene
  <2>1. CASE Elige
    <3>1. ~DespachadorTiene /\ DespachadorTiene'
      BY <1>a, <2>1 DEF Elige, Paso, DespachadorTiene, TypeHilos, Hilos
    <3>2. /\ sem'["despachar"] = sem["despachar"] - 1
          /\ sem'["atender_rta"] = sem["atender_rta"] /\ UNCHANGED a_cpu
      BY <1>a, <2>1 DEF Elige, TypeSem, Semaforos
    <3> QED BY <1>b, <2>a, <3>1, <3>2 DEF Contar
  <2>2. CASE Despacha
    <3>1. DespachadorTiene /\ ~DespachadorTiene'
      BY <1>a, <2>2 DEF Despacha, Paso, DespachadorTiene, TypeHilos, Hilos
    <3>2. /\ sem'["despachar"] = sem["despachar"]
          /\ sem'["atender_rta"] = sem["atender_rta"] + 1
      BY <1>a, <2>2 DEF Despacha, Post, TypeSem, Semaforos
    <3>3. Len(a_cpu') = Len(a_cpu) + 1
      BY <1>a, <2>2 DEF Despacha, EnviarPCB, TypeCPU
    <3> QED BY <1>b, <2>a, <3>1, <3>2, <3>3 DEF Contar
  <2>3. CASE DespachadorMiraPlan \/ SacaReady \/ MarcaExec \/ PasaAExec \/ LanzaQuantum
    <3>1. DespachadorTiene' = DespachadorTiene
      BY <1>a, <2>3 DEF DespachadorMiraPlan, SacaReady, MarcaExec, PasaAExec, LanzaQuantum, Paso,
         DespachadorTiene, TypeHilos, Hilos
    <3>2. UNCHANGED <<sem, a_cpu>>
      BY <2>3 DEF DespachadorMiraPlan, SacaReady, MarcaExec, PasaAExec, LanzaQuantum
    <3> QED BY <2>a, <3>1, <3>2
  <2>4. CASE ReadyVacia BY <2>4 DEF ReadyVacia, Cae, DespachadorTiene, VueltaTiene
  <2> QED BY <1>5, <2>1, <2>2, <2>3, <2>4 DEF Despachador
<1>6. CASE VueltaDispatch
  <2>a. DespachadorTiene' = DespachadorTiene
    BY <1>6, <1>a, MarcoVueltaDispatch DEF Ajenos, Hilos, DespachadorTiene
  <2>1. CASE RecibeVuelta
    <3>1. ~VueltaTiene /\ VueltaTiene'
      BY <1>a, <2>1 DEF RecibeVuelta, Paso, VueltaTiene, PasosVuelta, TypeHilos, Hilos
    <3>2. /\ sem'["atender_rta"] = sem["atender_rta"] - 1
          /\ sem'["despachar"] = sem["despachar"] /\ UNCHANGED a_cpu
      BY <1>a, <2>1 DEF RecibeVuelta, Wait, TypeSem, Semaforos
    <3>3. Len(de_cpu') = Len(de_cpu) - 1
      BY <1>a, <2>1 DEF RecibeVuelta, TypeCPU
    <3> QED BY <1>b, <2>a, <3>1, <3>2, <3>3 DEF Contar
  <2>2. CASE AtiendeFinQuantum \/ AtiendeFinal \/ AtiendeOtroMotivo \/ RechazaPedido \/ AvisaInterfaz
    <3>1. VueltaTiene /\ ~VueltaTiene'
      BY <1>a, <2>2 DEF AtiendeFinQuantum, AtiendeFinal, AtiendeOtroMotivo, RechazaPedido,
         AvisaInterfaz, Atiende, Paso, VueltaTiene, PasosVuelta, TypeHilos, Hilos
    <3>2. /\ sem'["despachar"] = sem["despachar"] + 1
          /\ sem'["atender_rta"] = sem["atender_rta"]
      BY <1>a, <2>2 DEF AtiendeFinQuantum, AtiendeFinal, AtiendeOtroMotivo, RechazaPedido,
         AvisaInterfaz, Post, TypeSem, Semaforos
    <3>3. UNCHANGED <<a_cpu, de_cpu>>
      BY <2>2 DEF AtiendeFinQuantum, AtiendeFinal, AtiendeOtroMotivo, RechazaPedido, AvisaInterfaz
    <3> QED BY <1>b, <2>a, <3>1, <3>2, <3>3 DEF Contar
  <2>3. CASE VueltaMiraPlan \/ BuscaInterfaz \/ EncolaEnInterfaz
    <3>1. VueltaTiene' = VueltaTiene
      <4>1. \/ pc["vuelta"] = "tope" /\ pc'["vuelta"] = "espera_rta"
            \/ pc["vuelta"] = "atiende" /\ pc'["vuelta"] \in {"a_bloqueados", "rechaza"}
            \/ pc["vuelta"] = "a_bloqueados" /\ pc'["vuelta"] = "a_block"
        BY <1>a, <2>3 DEF VueltaMiraPlan, BuscaInterfaz, EncolaEnInterfaz, Atiende, Paso,
           TypeHilos, Hilos
      <4> QED BY <4>1 DEF VueltaTiene, PasosVuelta
    <3>2. UNCHANGED <<sem, a_cpu, de_cpu>>
      BY <2>3 DEF VueltaMiraPlan, BuscaInterfaz, EncolaEnInterfaz
    <3> QED BY <2>a, <3>1, <3>2
  <2>4. CASE InterfazLiberada BY <2>4 DEF InterfazLiberada, Cae, DespachadorTiene, VueltaTiene
  <2> QED BY <1>6, <2>1, <2>2, <2>3, <2>4 DEF VueltaDispatch
<1>7. CASE CPUDevuelve
  <2>1. PICK r \in Retornos : de_cpu' = Append(de_cpu, [o |-> Head(a_cpu), r |-> r])
    BY <1>7 DEF CPUDevuelve
  <2>2. Len(a_cpu') = Len(a_cpu) - 1 BY <1>a, <1>7 DEF CPUDevuelve, TypeCPU
  <2>3. Len(de_cpu') = Len(de_cpu) + 1 BY <1>a, <2>1 DEF TypeCPU
  <2> QED BY <1>b, <1>7, <2>2, <2>3 DEF CPUDevuelve, DespachadorTiene, VueltaTiene
<1>8. CASE Pares /\ ~CPUDevuelve
  BY <1>8 DEF Pares, Reloj, RelojSinExec, RelojVence, MemoriaResponde, ConectaInterfaz,
     CierraInterfaz, PasoIO, DespachadorTiene, VueltaTiene
<1>9. CASE UNCHANGED vars BY <1>9 DEF vars, DespachadorTiene, VueltaTiene
<1> QED BY <1>1, <1>2, <1>3, <1>4, <1>5, <1>6, <1>7, <1>8, <1>9, QuienPasa, SinVueltaRecurso

\* The kernel starts with the turn in sem_despachar (kernel.c 57, sem_init to 1).
LEMMA AlternanciaInit == ASSUME Init PROVE SinDeRecursos /\ Alternancia
<1>1. SinDeRecursos BY DEF Init, SinDeRecursos, DeRecursos, SinRetorno, Hilos
<1>2. sem["despachar"] = 1 /\ sem["atender_rta"] = 0 BY DEF Init, Semaforos
<1>3. ~DespachadorTiene /\ ~VueltaTiene BY DEF Init, DespachadorTiene, VueltaTiene, Hilos
<1>4. Len(a_cpu) = 0 /\ Len(de_cpu) = 0 BY DEF Init
<1> QED BY <1>1, <1>2, <1>3, <1>4 DEF Alternancia, TurnoUnico, CPUExclusiva, Contar

\* Dispatch and attention alternate and the CPU has one process at most (comment of
\* kernel.c 876-879), for any number of processes, algorithm, interfaces that come and go
\* and processes killed, as long as no process uses WAIT or SIGNAL.
THEOREM AlternanSinRecursos ==
    ASSUME \A r \in Retornos : r.motivo \notin {"SOLICITAR_WAIT", "SOLICITAR_SIGNAL"}
    PROVE  Spec => []Alternancia
<1>1. Init => Base /\ SinDeRecursos /\ Alternancia BY BaseInit, AlternanciaInit
<1>2. Base /\ SinDeRecursos /\ Alternancia /\ [Next]_vars => (Base /\ SinDeRecursos /\ Alternancia)'
  BY BasePaso, SinDeRecursosPaso, AlternanciaPaso DEF DeRecursos
<1> QED BY <1>1, <1>2, PTL DEF Spec

-----------------------------------------------------------------------------
(* Semaphores and the lists behind them.                                   *)

\* The request that the attending thread has put in the list of i and not announced yet.
PorAvisar(i) == Contar(pc["vuelta"] = "a_block" /\ ret.interfaz = i)
EnUso(i) == pc_io[i] \notin {"vacia", "destruye", "liberada"}

ExitRespaldado == sem["procesos_exit"] <= Len(cola["exit"])
IORespaldado(i) == EnUso(i) => sem_io[i] + PorAvisar(i) <= Len(bloq[i])
Respaldados == ExitRespaldado /\ \A i \in Interfaces : IORespaldado(i)

LEMMA RespaldadosAlcanza == ASSUME Tipado, Respaldados PROVE PedidosRespaldados
<1>1. TypeIO BY DEF Tipado, TypeOK
<1>2. ASSUME NEW i \in Interfaces, EnUso(i) PROVE sem_io[i] <= Len(bloq[i])
  <2>1. sem_io[i] \in Nat /\ Len(bloq[i]) \in Nat /\ PorAvisar(i) \in Nat
    BY <1>1 DEF TypeIO, PorAvisar, Contar
  <2> QED BY <1>2, <2>1 DEF Respaldados, IORespaldado
<1> QED BY <1>2 DEF PedidosRespaldados, Respaldados, ExitRespaldado, EnUso

\* Who pushes to cola_exit posts once, whoever it is (kernel.c 152-153, 577-585, 635-636,
\* 670-671, 705-706, 743-744, 768-769, 1141-1142, 1171-1172, 1318-1339), and procesos_en_exit waits once for each it takes.
LEMMA ExitPaso == ASSUME Base, ExitRespaldado, [Next]_vars PROVE ExitRespaldado'
<1>a. Tipado /\ HilosCreados /\ TypeSem /\ TypeColas /\ TypeIO BY DEF Base, Tipado, TypeOK
<1>b. sem["procesos_exit"] \in Nat /\ Len(cola["exit"]) \in Nat /\ cola["exit"] \in Seq(Objs)
  BY <1>a DEF TypeSem, Semaforos, TypeColas, Colas
<1>c. ASSUME NEW o, cola'["exit"] = Append(cola["exit"], o),
             sem'["procesos_exit"] = sem["procesos_exit"] + 1
      PROVE  ExitRespaldado'
  BY <1>b, <1>c DEF ExitRespaldado
<1>d. ASSUME MismoExit PROVE ExitRespaldado' BY <1>d DEF MismoExit, ExitRespaldado
<1>1. CASE Consola
  <2>1. CASE FinalizaAExit
    BY <1>a, <1>c, <2>1 DEF FinalizaAExit, Empujar, Post, TypeSem, Semaforos, TypeColas, Colas
  <2>2. CASE Quita
    <3>1. ColasBuscadas[orden.k] # "exit"
      BY <1>a, <2>2 DEF Quita, Paso, Tipado, TypeOK, ManosOK, ManoConsola, TypeConsola,
         ColasBuscadas
    <3> QED BY <1>a, <1>d, <2>2, <3>1 DEF Quita, MismoExit, TypeColas, Colas
  <2>3. CASE SubeGrado \/ BajaGrado
    BY <1>a, <1>d, <2>3 DEF SubeGrado, BajaGrado, Post, Wait, MismoExit, TypeSem, Semaforos
  <2>4. CASE EncolaEnNew
    BY <1>a, <1>d, <2>4 DEF EncolaEnNew, Empujar, Post, MismoExit, TypeSem, Semaforos, TypeColas,
       Colas
  <2>5. CASE ~FinalizaAExit /\ ~Quita /\ ~SubeGrado /\ ~BajaGrado /\ ~EncolaEnNew
    BY <1>1, <1>d, <2>5 DEF Consola, IniciarProceso, ConsolaPideMemoria, ConsolaRecibeMemoria,
       IniciarPlanificacion, DetenerPlanificacion, CambiarMultiprogramacion, TerminaGrado,
       FinalizarProceso, BuscaEncuentra, BuscaSigue, QuitaFueraDeRango, NoHalladoSigue,
       NoHalladoFalla, InterrumpePorConsola, DecideSacar, Cae, MismoExit
  <2> QED BY <2>1, <2>2, <2>3, <2>4, <2>5
<1>2. CASE Largo BY <1>2, <1>a, <1>d, MarcoLargo
<1>3. CASE Despachador BY <1>3, <1>a, <1>d, MarcoDespachador
<1>4. CASE Salida
  <2>1. CASE TomaDeExit
    <3>1. cola'["exit"] = Tail(cola["exit"]) /\ cola["exit"] # <<>>
      BY <1>a, <2>1 DEF TomaDeExit, Sacar, Resto, TypeColas, Colas
    <3>2. sem'["procesos_exit"] = sem["procesos_exit"] - 1
      BY <1>a, <2>1 DEF TomaDeExit, TypeSem, Semaforos
    <3> QED BY <1>b, <3>1, <3>2 DEF ExitRespaldado
  <2>2. CASE LiberaSacaBloqueado \/ Archiva
    BY <1>a, <1>d, <2>2 DEF LiberaSacaBloqueado, Archiva, Sacar, Empujar, MismoExit, TypeColas,
       Colas
  <2>3. CASE LiberaDesbloquea
    <3>1. PICK v \in Vuelve("RECURSOVT", segundo["salida"]) : Empujar(v.cola, segundo["salida"])
      BY <2>3 DEF LiberaDesbloquea
    <3>2. v.cola # "exit" BY DEF Vuelve
    <3> QED BY <1>a, <1>d, <2>3, <3>1, <3>2 DEF LiberaDesbloquea, Empujar, MismoExit, TypeSem,
            Semaforos, TypeColas, Colas
  <2>4. CASE ~TomaDeExit /\ ~LiberaSacaBloqueado /\ ~Archiva /\ ~LiberaDesbloquea
    BY <1>4, <1>d, <2>4 DEF Salida, SalidaMiraPlan, SalidaPideMemoria, SalidaRecibeMemoria,
       NoTieneInstancias, LiberaLeeInstancias, LiberaIncrementa, LiberaSinBloqueado,
       LiberaLeeSinAsignar, Cae, MismoExit
  <2> QED BY <2>1, <2>2, <2>3, <2>4
<1>5. CASE VueltaDispatch
  <2>1. CASE AtiendeFinal \/ RechazaPedido
    BY <1>a, <1>c, <2>1 DEF AtiendeFinal, RechazaPedido, Empujar, TypeSem, Semaforos, TypeColas,
       Colas
  <2>2. CASE RecibeVuelta \/ AtiendeOtroMotivo
    BY <1>a, <1>d, <2>2 DEF RecibeVuelta, AtiendeOtroMotivo, Wait, Post, MismoExit, TypeSem,
       Semaforos
  <2>3. CASE AtiendeFinQuantum \/ AvisaInterfaz
    BY <1>a, <1>d, <2>3 DEF AtiendeFinQuantum, AvisaInterfaz, Empujar, Post, MismoExit, TypeSem,
       Semaforos, TypeColas, Colas
  <2>4. CASE VueltaMiraPlan \/ BuscaInterfaz \/ EncolaEnInterfaz \/ InterfazLiberada
    BY <1>d, <2>4 DEF VueltaMiraPlan, BuscaInterfaz, EncolaEnInterfaz, InterfazLiberada, Cae,
       MismoExit
  <2> QED BY <1>5, <2>1, <2>2, <2>3, <2>4 DEF VueltaDispatch
<1>6. CASE VueltaRecurso
  <2>1. CASE RecursoInvalido
    BY <1>a, <1>c, <2>1 DEF RecursoInvalido, Empujar, TypeSem, Semaforos, TypeColas, Colas
  <2>2. CASE EncolaEnRecurso \/ BloqueaPorRecurso \/ VuelveAExec
    BY <1>a, <1>d, <2>2 DEF EncolaEnRecurso, BloqueaPorRecurso, VuelveAExec, Empujar, MismoExit,
       TypeSem, Semaforos, TypeColas, Colas
  <2>3. CASE SacaDeRecurso \/ Reenvia
    BY <1>a, <1>d, <2>3 DEF SacaDeRecurso, Reenvia, Sacar, Post, MismoExit, TypeSem, Semaforos,
       TypeColas, Colas
  <2>4. CASE Desbloquea
    <3>1. PICK v \in Vuelve("RECURSOVT", segundo["vuelta"]) : Empujar(v.cola, segundo["vuelta"])
      BY <2>4 DEF Desbloquea
    <3>2. v.cola # "exit" BY DEF Vuelve
    <3> QED BY <1>a, <1>d, <2>4, <3>1, <3>2 DEF Desbloquea, Empujar, Post, MismoExit, TypeSem,
            Semaforos, TypeColas, Colas
  <2>5. CASE ~RecursoInvalido /\ ~EncolaEnRecurso /\ ~BloqueaPorRecurso /\ ~VuelveAExec
             /\ ~SacaDeRecurso /\ ~Reenvia /\ ~Desbloquea
    BY <1>6, <1>d, <2>5 DEF VueltaRecurso, LeeInstancias, EscribeInstancias, DecideRecurso,
       RecursoVacio, DesbloqueaLeeSinAsignar, Cae, MismoExit
  <2> QED BY <2>1, <2>2, <2>3, <2>4, <2>5
<1>7. CASE \E i \in Interfaces : AtiendeInterfaz(i)
  <2> PICK i \in Interfaces : AtiendeInterfaz(i) BY <1>7
  <2>1. CASE IOFinaliza(i)
    BY <1>a, <1>c, <2>1 DEF IOFinaliza, Empujar, Post, TypeSem, Semaforos, TypeColas, Colas
  <2>2. CASE IOVacia(i)
    BY <1>a, <1>c, <2>2 DEF IOVacia, Empujar, Post, TypeSem, Semaforos, TypeColas, Colas
  <2>3. CASE IOVuelve(i)
    <3>1. PICK v \in Vuelve(Tipo[i], mano_io[i].o) : Empujar(v.cola, mano_io[i].o)
      BY <2>3 DEF IOVuelve
    <3>2. v.cola # "exit" BY DEF Vuelve
    <3> QED BY <1>a, <1>d, <2>3, <3>1, <3>2 DEF IOVuelve, Empujar, Post, MismoExit, TypeSem,
            Semaforos, TypeColas, Colas
  <2>4. CASE ~IOFinaliza(i) /\ ~IOVacia(i) /\ ~IOVuelve(i)
    BY <1>d, <2>4 DEF AtiendeInterfaz, IOMiraPlan, IOToma, IOConfundeTipo, IOEnvia, IORecibe,
       IORecibeCeroGenerica, IOVuelveLeeSinAsignar, IODevuelve, IOQuitaInterfaz, IOVaciaFin,
       IODestruye, IOUsaLiberada, Cae, MismoExit
  <2> QED BY <2>1, <2>2, <2>3, <2>4
<1>8. CASE Pares BY <1>8, <1>d, MarcoPares DEF MismoExit
<1>9. CASE UNCHANGED vars BY <1>9, <1>d DEF vars, MismoExit
<1> QED BY <1>1, <1>2, <1>3, <1>4, <1>5, <1>6, <1>7, <1>8, <1>9, QuienPasa

\* Each request in the list of an interface is announced once (kernel.c 607-709 and the
\* loops of 1096-1179): the scheduler pushes before it posts, the interface waits before
\* it takes, and while the interface is connected nobody else touches the list.
LEMMA IOPaso ==
    ASSUME Base, [Next]_vars, NEW i \in Interfaces, IORespaldado(i)
    PROVE  IORespaldado(i)'
<1>a. Tipado /\ HilosCreados /\ TypeHilos /\ TypeIO BY DEF Base, Tipado, TypeOK
<1>b. /\ bloq[i] \in Seq(Bloque) /\ Len(bloq[i]) \in Nat /\ sem_io[i] \in Nat
      /\ PorAvisar(i) \in {0, 1} /\ pc_io[i] \in PasosInterfaz
  BY <1>a DEF TypeIO, PorAvisar, Contar
<1>c. ASSUME UNCHANGED <<bloq, sem_io, pc_io>>, pc'["vuelta"] = "a_block" => UNCHANGED <<pc, ret>>
      PROVE  IORespaldado(i)'
  BY <1>b, <1>c DEF IORespaldado, EnUso, PorAvisar, Contar
<1>1. CASE Consola \/ Largo \/ Salida \/ Despachador
  <2>1. UNCHANGED <<bloq, sem_io, pc_io, ret>>
    BY <1>1, <1>a, MarcoConsola, MarcoLargo, MarcoSalida, MarcoDespachador
  <2>2. pc'["vuelta"] = "a_block" <=> pc["vuelta"] = "a_block"
    BY <1>1, <1>a, MarcoConsola, MarcoLargo, MarcoSalida, MarcoDespachador
       DEF Quieto, Duerme, Ajenos, Hilos
  <2> QED BY <2>1, <2>2 DEF IORespaldado, EnUso, PorAvisar
<1>2. CASE VueltaDispatch
  <2>1. CASE EncolaEnInterfaz
    <3>1. pc["vuelta"] = "a_bloqueados" /\ UNCHANGED <<sem_io, pc_io, ret>>
      BY <2>1 DEF EncolaEnInterfaz, Paso
    <3>2. CASE i = ret.interfaz /\ EnUso(i)
      <4>1. bloq'[i] = Append(bloq[i], [o |-> mano["vuelta"], tipo |-> TipoPedido(ret.motivo)])
        BY <1>a, <2>1, <3>2 DEF EncolaEnInterfaz, EnUso, TypeIO
      <4>2. Len(bloq'[i]) = Len(bloq[i]) + 1 BY <1>b, <4>1
      <4> QED BY <1>b, <3>1, <3>2, <4>2 DEF IORespaldado, PorAvisar, Contar
    <3>3. CASE i # ret.interfaz
      BY <1>a, <2>1, <3>1, <3>3 DEF EncolaEnInterfaz, IORespaldado, PorAvisar, Contar, EnUso, TypeIO
    <3>4. CASE ~EnUso(i) BY <3>1, <3>4 DEF IORespaldado, EnUso
    <3> QED BY <3>2, <3>3, <3>4
  <2>2. CASE AvisaInterfaz
    <3>1. /\ pc["vuelta"] = "a_block" /\ pc'["vuelta"] = "tope" /\ UNCHANGED <<bloq, pc_io>>
          /\ sem_io'[i] = sem_io[i] + Contar(i = ret.interfaz)
      BY <1>a, <1>b, <2>2 DEF AvisaInterfaz, Paso, TypeHilos, Hilos, TypeIO, Contar
    <3> QED BY <1>b, <3>1 DEF IORespaldado, PorAvisar, Contar, EnUso
  <2>3. CASE VueltaMiraPlan \/ RecibeVuelta \/ AtiendeFinQuantum \/ AtiendeFinal
             \/ AtiendeOtroMotivo \/ BuscaInterfaz \/ RechazaPedido
    <3>1. UNCHANGED <<bloq, sem_io, pc_io>>
      BY <2>3 DEF VueltaMiraPlan, RecibeVuelta, AtiendeFinQuantum, AtiendeFinal,
         AtiendeOtroMotivo, BuscaInterfaz, RechazaPedido
    <3>2. pc'["vuelta"] # "a_block"
      BY <1>a, <2>3 DEF VueltaMiraPlan, RecibeVuelta, AtiendeFinQuantum, AtiendeFinal,
         AtiendeOtroMotivo, BuscaInterfaz, RechazaPedido, Atiende, Paso, TypeHilos, Hilos
    <3> QED BY <1>c, <3>1, <3>2
  <2>4. CASE InterfazLiberada BY <1>c, <2>4 DEF InterfazLiberada, Cae
  <2> QED BY <1>2, <2>1, <2>2, <2>3, <2>4 DEF VueltaDispatch
<1>3. CASE VueltaRecurso
  <2>1. UNCHANGED <<bloq, sem_io, pc_io>> BY <1>3, <1>a, MarcoVueltaRecurso
  <2>2. CASE RecursoVacio \/ DesbloqueaLeeSinAsignar
    BY <1>c, <2>2 DEF RecursoVacio, DesbloqueaLeeSinAsignar, Cae
  <2>3. CASE ~RecursoVacio /\ ~DesbloqueaLeeSinAsignar
    <3>1. pc'["vuelta"] # "a_block"
      BY <1>3, <1>a, <2>3 DEF VueltaRecurso, RecursoInvalido, LeeInstancias, EscribeInstancias,
         DecideRecurso, EncolaEnRecurso, BloqueaPorRecurso, SacaDeRecurso, Desbloquea,
         VuelveAExec, Reenvia, Pide, Paso, TypeHilos, Hilos
    <3> QED BY <1>c, <2>1, <3>1
  <2> QED BY <2>2, <2>3
<1>4. CASE \E j \in Interfaces : AtiendeInterfaz(j)
  <2> PICK j \in Interfaces : AtiendeInterfaz(j) BY <1>4
  <2>a. UNCHANGED <<pc, ret>> BY <1>a, MarcoAtiendeInterfaz
  <2>1. CASE j # i
    <3>1. bloq'[i] = bloq[i] /\ sem_io'[i] = sem_io[i] /\ pc_io'[i] = pc_io[i]
      BY <1>a, <2>1 DEF AtiendeInterfaz, IOMiraPlan, IOToma, IOConfundeTipo, IOEnvia, IORecibe,
         IORecibeCeroGenerica, IOVuelve, IOVuelveLeeSinAsignar, IOFinaliza, IODevuelve,
         IOQuitaInterfaz, IOVacia, IOVaciaFin, IODestruye, IOUsaLiberada, Cae, PasoIO, TypeIO
    <3> QED BY <2>a, <3>1 DEF IORespaldado, EnUso, PorAvisar
  <2>2. CASE j = i
    <3>1. CASE IOToma(i)
      <4>1. /\ sem_io'[i] = sem_io[i] - 1 /\ bloq'[i] = Tail(bloq[i]) /\ bloq[i] # <<>>
            /\ pc_io[i] = "espera"
        BY <1>a, <3>1 DEF IOToma, PasoIO, TypeIO
      <4> QED BY <1>b, <2>a, <4>1 DEF IORespaldado, EnUso, PorAvisar, Contar
    <3>2. CASE IODevuelve(i)
      <4>1. /\ sem_io'[i] = sem_io[i] /\ bloq'[i] = Append(bloq[i], mano_io[i])
            /\ pc_io[i] = "desconecta"
        BY <1>a, <3>2 DEF IODevuelve, PasoIO, TypeIO
      <4>2. Len(bloq'[i]) = Len(bloq[i]) + 1 BY <1>b, <4>1
      <4> QED BY <1>b, <2>a, <4>1, <4>2 DEF IORespaldado, EnUso, PorAvisar, Contar
    <3>3. CASE IOQuitaInterfaz(i) \/ IOVacia(i) \/ IOVaciaFin(i) \/ IODestruye(i)
      BY <1>a, <3>3 DEF IOQuitaInterfaz, IOVacia, IOVaciaFin, IODestruye, PasoIO, TypeIO,
         IORespaldado, EnUso
    <3>4. CASE IOMiraPlan(i) \/ IOEnvia(i) \/ IORecibe(i) \/ IORecibeCeroGenerica(i)
               \/ IOVuelve(i) \/ IOFinaliza(i)
      <4>1. UNCHANGED <<bloq, sem_io>> /\ EnUso(i)
        BY <3>4 DEF IOMiraPlan, IOEnvia, IORecibe, IORecibeCeroGenerica, IOVuelve, IOFinaliza,
           PasoIO, EnUso
      <4> QED BY <2>a, <4>1 DEF IORespaldado, PorAvisar
    <3>5. CASE IOConfundeTipo(i) \/ IOVuelveLeeSinAsignar(i) \/ IOUsaLiberada(i)
      BY <1>c, <3>5 DEF IOConfundeTipo, IOVuelveLeeSinAsignar, IOUsaLiberada, Cae
    <3> QED BY <2>2, <3>1, <3>2, <3>3, <3>4, <3>5 DEF AtiendeInterfaz
  <2> QED BY <2>1, <2>2
<1>5. CASE Pares
  <2>1. CASE \E j \in Interfaces : ConectaInterfaz(j)
    <3> PICK j \in Interfaces : ConectaInterfaz(j) BY <2>1
    <3>1. UNCHANGED <<bloq, sem_io, pc, ret>> BY DEF ConectaInterfaz
    <3>2. EnUso(i)' => EnUso(i) BY <1>a DEF ConectaInterfaz, PasoIO, EnUso, TypeIO
    <3> QED BY <3>1, <3>2 DEF IORespaldado, PorAvisar
  <2>2. CASE ~\E j \in Interfaces : ConectaInterfaz(j)
    BY <1>5, <1>c, <2>2 DEF Pares, MemoriaResponde, Reloj, RelojSinExec, RelojVence, CPUDevuelve,
       CierraInterfaz
  <2> QED BY <2>1, <2>2
<1>6. CASE UNCHANGED vars BY <1>6, <1>c DEF vars
<1> QED BY <1>1, <1>2, <1>3, <1>4, <1>5, <1>6, QuienPasa

\* No thread pops an empty cola_exit nor an empty list of an interface that is connected
\* (kernel.c 412-413, 1099-1100, 1124-1125, 1154-1155), whatever is killed, refused or disconnected.
THEOREM NadiePideDeMas == Spec => []PedidosRespaldados
<1>1. Init => Base /\ Respaldados
  <2>1. Init => ExitRespaldado BY DEF Init, ExitRespaldado, Semaforos, Colas
  <2>2. Init => \A i \in Interfaces : IORespaldado(i)
    BY DEF Init, IORespaldado, PorAvisar, Contar, Hilos
  <2> QED BY <2>1, <2>2, BaseInit DEF Respaldados
<1>2. Base /\ Respaldados /\ [Next]_vars => (Base /\ Respaldados)'
  BY BasePaso, ExitPaso, IOPaso DEF Respaldados
<1>3. Base /\ Respaldados => PedidosRespaldados BY RespaldadosAlcanza DEF Base
<1> QED BY <1>1, <1>2, <1>3, PTL DEF Spec
=============================================================================
