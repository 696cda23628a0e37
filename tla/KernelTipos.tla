---------------------------- MODULE KernelTipos ----------------------------
(***************************************************************************)
(* Kernel is well typed: whatever the algorithm, the interfaces, the       *)
(* commands and the number of processes, every queue holds PCB objects and *)
(* every semaphore a natural number. TypeOK is not inductive: a thread     *)
(* pushes the PCB it has in hand, so what must be kept as well is that     *)
(* after a pop that was no fault the hand is not empty (ManosOK).          *)
(***************************************************************************)
EXTENDS Kernel, TLAPS

-----------------------------------------------------------------------------
(* Operators.                                                              *)

\* What list_remove gives and leaves, on a list that is not empty.
LEMMA CabezaTipo ==
    ASSUME NEW S, NEW s \in Seq(S), s # <<>> PROVE Head(s) \in S /\ Tail(s) \in Seq(S)
  OBVIOUS

\* remove_con_mutex (FINALIZAR_PROCESO): a list without one of its elements is a list.
LEMMA QuitarTipo ==
    ASSUME NEW S, NEW s \in Seq(S), NEW n \in 1..Len(s) PROVE RemoveAt(s, n) \in Seq(S)
  BY DEF RemoveAt

\* procesar_vuelta_blocked_a_ready: whatever the reading of the unassigned variable.
LEMMA VuelveTipo ==
    \A tipo, o : \A v \in Vuelve(tipo, o) : v.estado \in Estados /\ v.cola \in Colas
<1> SUFFICES ASSUME NEW tipo, NEW o, NEW v \in Vuelve(tipo, o)
             PROVE v.estado \in Estados /\ v.cola \in Colas
  OBVIOUS
<1>1. CASE Algoritmo # "VRR" BY <1>1 DEF Vuelve, Estados, Colas
<1>2. CASE Algoritmo = "VRR" /\ tipo = "GENERICA" BY <1>2 DEF Vuelve, Estados, Colas
<1>3. CASE Algoritmo = "VRR" /\ tipo # "GENERICA" BY <1>3 DEF Vuelve, Estados, Colas
<1> QED BY <1>1, <1>2, <1>3

-----------------------------------------------------------------------------
(* Steps.                                                                  *)

USE DEF hilos, plan, procesos, cpu, quantum, memoria, recursos, io, consola

\* The kernel starts well typed, before any thread but the console's exists.
LEMMA InitTipado == ASSUME Init PROVE Tipado
<1>1. TypeHilos BY DEF Init, TypeHilos, Hilos, Punteros, Nulo, Pasos, PasosConsola, PasosLargo,
        PasosSalida, PasosVuelta, PasosDespachador
<1>2. TypeProcesos /\ TypeColas BY ConstantesOK DEF Init, TypeProcesos, TypeColas, PCB, Estados
<1>3. TypeSem BY ConstantesOK DEF Init, TypeSem
<1>4. TypeCPU BY ConstantesOK DEF Init, TypeCPU, SinRetorno, SinInterfaz, Retorno, Motivos
<1>5. TypeMutex /\ TypeRecursos BY ConstantesOK DEF Init, TypeMutex, TypeRecursos
<1>6. TypeIO BY DEF Init, TypeIO, PasosInterfaz
<1>7. TypeConsola BY ConstantesOK DEF Init, TypeConsola, SinOrden, ColasBuscadas
<1>8. ManosOK BY DEF Init, ManosOK, ManoConsola, ManoLargo, ManoSalida, ManoDespachador, ManoVuelta,
        ManoIO, VueltaTiene, Hilos, PasosVuelta
<1> QED BY <1>1, <1>2, <1>3, <1>4, <1>5, <1>6, <1>7, <1>8 DEF Tipado, TypeOK

\* A fault changes nothing but vivo, and so does a step of nobody.
LEMMA QuietoTipado == ASSUME Tipado, Cae \/ UNCHANGED vars PROVE Tipado'
<1>1. UNCHANGED <<hilos, plan, procesos, cola, sem, grado, cpu, quantum, memoria, recursos, io,
                  consola>> /\ vivo' \in BOOLEAN
  BY DEF Cae, vars, Tipado, TypeOK, TypeHilos
<1>2. TypeHilos' /\ TypeProcesos' /\ TypeColas' /\ TypeSem'
  BY <1>1 DEF Tipado, TypeOK, TypeHilos, TypeProcesos, TypeColas, TypeSem
<1>3. TypeCPU' /\ TypeMutex' /\ TypeRecursos'
  BY <1>1 DEF Tipado, TypeOK, TypeCPU, TypeMutex, TypeRecursos
<1>4. TypeIO' /\ TypeConsola' BY <1>1 DEF Tipado, TypeOK, TypeIO, TypeConsola
<1>5. ManosOK'
  BY <1>1 DEF Tipado, ManosOK, ManoConsola, ManoLargo, ManoSalida, ManoDespachador, ManoVuelta,
        ManoIO, VueltaTiene
<1> QED BY <1>2, <1>3, <1>4, <1>5 DEF Tipado, TypeOK

\* Every step of planificacion_procesos_ready (kernel.c 496-513).
LEMMA LargoTipado ==
    ASSUME Tipado, Largo PROVE Tipado'
<1>a. TypeOK /\ ManosOK BY DEF Tipado
<1>1. CASE TomaDeNew
  <2>1. TypeHilos' BY <1>a, <1>1 DEF TypeHilos, TypeOK, TomaDeNew, Paso, Toma, Primero, Hilos,
          Punteros, Pasos, PasosLargo, TypeColas, Colas
  <2>2. TypeColas' BY <1>a, <1>1 DEF TypeColas, TypeOK, TomaDeNew, Sacar, Resto, Colas
  <2>3. TypeSem' BY <1>a, <1>1 DEF TypeSem, TypeOK, TomaDeNew, Wait, Semaforos
  <2>4. ManosOK' BY <1>a, <1>1 DEF ManosOK, TomaDeNew, Paso, Toma, Primero, ManoConsola,
          ManoLargo, ManoSalida, ManoDespachador, ManoVuelta, ManoIO, VueltaTiene, TypeOK,
          TypeHilos, Hilos, TypeColas, Colas, Punteros
  <2> QED BY <1>a, <1>1, <2>1, <2>2, <2>3, <2>4 DEF Tipado, TypeOK, TypeProcesos, TypeCPU,
          TypeMutex, TypeRecursos, TypeIO, TypeConsola, TomaDeNew
<1>2. CASE EncolaEnReady
  <2>1. TypeHilos' BY <1>a, <1>2 DEF TypeHilos, TypeOK, EncolaEnReady, Paso, Hilos, Punteros,
          Pasos, PasosLargo
  <2>2. TypeColas' BY <1>a, <1>2 DEF TypeColas, TypeOK, EncolaEnReady, Empujar, Colas, Paso,
          TypeHilos, Hilos, Punteros
  <2>3. TypeSem' BY <1>a, <1>2 DEF TypeSem, TypeOK, EncolaEnReady, Wait, Semaforos
  <2>4. ManosOK' BY <1>a, <1>2 DEF ManosOK, EncolaEnReady, Paso, ManoConsola, ManoLargo,
          ManoSalida, ManoDespachador, ManoVuelta, ManoIO, VueltaTiene, TypeOK, TypeHilos, Hilos,
          Punteros
  <2> QED BY <1>a, <1>2, <2>1, <2>2, <2>3, <2>4 DEF Tipado, TypeOK, TypeProcesos, TypeCPU,
          TypeMutex, TypeRecursos, TypeIO, TypeConsola, EncolaEnReady
<1>3. CASE MarcaReady
  <2>1. TypeHilos' BY <1>a, <1>3 DEF TypeHilos, TypeOK, MarcaReady, Paso, Toma, Hilos, Punteros,
          Pasos, PasosLargo
  <2>2. TypeProcesos' BY <1>a, <1>3 DEF TypeProcesos, TypeOK, MarcaReady, CambiarEstado, PCB,
          Estados, ManosOK, ManoLargo, Paso
  <2>3. TypeSem' BY <1>a, <1>3 DEF TypeSem, TypeOK, MarcaReady, Post, Semaforos
  <2>4. ManosOK' BY <1>a, <1>3 DEF ManosOK, MarcaReady, Paso, Toma, ManoConsola, ManoLargo,
          ManoSalida, ManoDespachador, ManoVuelta, ManoIO, VueltaTiene, TypeOK, TypeHilos, Hilos
  <2> QED BY <1>a, <1>3, <2>1, <2>2, <2>3, <2>4 DEF Tipado, TypeOK, TypeColas, TypeCPU,
          TypeMutex, TypeRecursos, TypeIO, TypeConsola, MarcaReady
<1>4. CASE EncolaNulo
  BY <1>4, QuietoTipado DEF EncolaNulo
<1> QED BY <1>1, <1>2, <1>3, <1>4 DEF Largo

\* Every step of procesos_en_exit and liberar_recursos (kernel.c 407-445).
LEMMA SalidaTipado ==
    ASSUME Tipado, Salida PROVE Tipado'
<1>a. TypeOK /\ ManosOK BY DEF Tipado
<1>1. CASE SalidaMiraPlan
  <2>1. TypeHilos' BY <1>a, <1>1 DEF TypeHilos, TypeOK, SalidaMiraPlan, Paso, Hilos, Punteros,
          Pasos, PasosSalida
  <2>2. ManosOK' BY <1>a, <1>1 DEF ManosOK, SalidaMiraPlan, Paso, ManoConsola, ManoLargo,
          ManoSalida, ManoDespachador, ManoVuelta, ManoIO, VueltaTiene, TypeOK, TypeHilos, Hilos
  <2>3. TypeProcesos' /\ TypeColas' /\ TypeSem' /\ TypeCPU' BY <1>a, <1>1 DEF TypeOK,
          TypeProcesos, TypeColas, TypeSem, TypeCPU, SalidaMiraPlan
  <2>4. TypeMutex' /\ TypeRecursos' /\ TypeIO' /\ TypeConsola' BY <1>a, <1>1 DEF TypeOK,
          TypeMutex, TypeRecursos, TypeIO, TypeConsola, SalidaMiraPlan
  <2> QED BY <1>a, <1>1, <2>1, <2>2, <2>3, <2>4 DEF Tipado, TypeOK
<1>2. CASE TomaDeExit
  <2>1. TypeHilos' BY <1>a, <1>2 DEF TypeHilos, TypeOK, TomaDeExit, Paso, Toma, Hilos, Punteros,
          Pasos, PasosSalida, TypeColas, Colas
  <2>2. TypeColas' BY <1>a, <1>2 DEF TypeColas, TypeOK, TomaDeExit, Sacar, Resto, Colas
  <2>3. TypeSem' BY <1>a, <1>2 DEF TypeSem, TypeOK, TomaDeExit, Semaforos
  <2>4. ManosOK' BY <1>a, <1>2 DEF ManosOK, TomaDeExit, Paso, Toma, ManoConsola, ManoLargo,
          ManoSalida, ManoDespachador, ManoVuelta, ManoIO, VueltaTiene, TypeOK, TypeHilos, Hilos,
          TypeColas, Colas, Punteros
  <2> QED BY <1>a, <1>2, <2>1, <2>2, <2>3, <2>4 DEF Tipado, TypeOK, TypeProcesos, TypeCPU,
          TypeMutex, TypeRecursos, TypeIO, TypeConsola, TomaDeExit
<1>3. CASE SalidaPideMemoria
  <2>1. TypeHilos' BY <1>a, <1>3 DEF TypeHilos, TypeOK, SalidaPideMemoria, Paso, Hilos, Punteros,
          Pasos, PasosSalida
  <2>2. TypeMutex' BY <1>a, <1>3 DEF TypeMutex, TypeOK, SalidaPideMemoria
  <2>3. ManosOK' BY <1>a, <1>3 DEF ManosOK, SalidaPideMemoria, Paso, ManoConsola, ManoLargo,
          ManoSalida, ManoDespachador, ManoVuelta, ManoIO, VueltaTiene, TypeOK, TypeHilos, Hilos
  <2>4. TypeProcesos' /\ TypeColas' /\ TypeSem' /\ TypeCPU' BY <1>a, <1>3 DEF TypeOK,
          TypeProcesos, TypeColas, TypeSem, TypeCPU, SalidaPideMemoria
  <2>5. TypeRecursos' /\ TypeIO' /\ TypeConsola' BY <1>a, <1>3 DEF TypeOK, TypeRecursos, TypeIO,
          TypeConsola, SalidaPideMemoria
  <2> QED BY <1>a, <1>3, <2>1, <2>2, <2>3, <2>4, <2>5 DEF Tipado, TypeOK
<1>4. CASE SalidaRecibeMemoria
  <2>1. TypeHilos' BY <1>a, <1>4 DEF TypeHilos, TypeOK, SalidaRecibeMemoria, Paso, Hilos,
          Punteros, Pasos, PasosSalida
  <2>2. TypeMutex' BY <1>a, <1>4 DEF TypeMutex, TypeOK, SalidaRecibeMemoria
  <2>3. ManosOK' BY <1>a, <1>4 DEF ManosOK, SalidaRecibeMemoria, Paso, ManoConsola, ManoLargo,
          ManoSalida, ManoDespachador, ManoVuelta, ManoIO, VueltaTiene, TypeOK, TypeHilos, Hilos
  <2>4. TypeProcesos' /\ TypeColas' /\ TypeSem' /\ TypeCPU' BY <1>a, <1>4 DEF TypeOK,
          TypeProcesos, TypeColas, TypeSem, TypeCPU, SalidaRecibeMemoria
  <2>5. TypeRecursos' /\ TypeIO' /\ TypeConsola' BY <1>a, <1>4 DEF TypeOK, TypeRecursos, TypeIO,
          TypeConsola, SalidaRecibeMemoria
  <2> QED BY <1>a, <1>4, <2>1, <2>2, <2>3, <2>4, <2>5 DEF Tipado, TypeOK
<1>5. CASE NoTieneInstancias
  <2>1. TypeHilos' BY <1>a, <1>5 DEF TypeHilos, TypeOK, NoTieneInstancias, Paso, Hilos, Punteros,
          Pasos, PasosSalida
  <2>2. TypeRecursos' BY <1>a, <1>5, ConstantesOK DEF TypeRecursos, TypeOK, NoTieneInstancias,
          Paso
  <2>3. ManosOK' BY <1>a, <1>5 DEF ManosOK, NoTieneInstancias, Paso, ManoConsola, ManoLargo,
          ManoSalida, ManoDespachador, ManoVuelta, ManoIO, VueltaTiene, TypeOK, TypeHilos, Hilos
  <2>4. TypeProcesos' /\ TypeColas' /\ TypeSem' /\ TypeCPU' BY <1>a, <1>5 DEF TypeOK,
          TypeProcesos, TypeColas, TypeSem, TypeCPU, NoTieneInstancias
  <2>5. TypeMutex' /\ TypeIO' /\ TypeConsola' BY <1>a, <1>5 DEF TypeOK, TypeMutex, TypeIO,
          TypeConsola, NoTieneInstancias
  <2> QED BY <1>a, <1>5, <2>1, <2>2, <2>3, <2>4, <2>5 DEF Tipado, TypeOK
<1>6. CASE LiberaLeeInstancias
  <2>1. TypeHilos' BY <1>a, <1>6 DEF TypeHilos, TypeOK, LiberaLeeInstancias, Paso, Hilos,
          Punteros, Pasos, PasosSalida
  <2>2. TypeRecursos' BY <1>a, <1>6 DEF TypeRecursos, TypeOK, LiberaLeeInstancias
  <2>3. ManosOK' BY <1>a, <1>6 DEF ManosOK, LiberaLeeInstancias, Paso, ManoConsola, ManoLargo,
          ManoSalida, ManoDespachador, ManoVuelta, ManoIO, VueltaTiene, TypeOK, TypeHilos, Hilos
  <2>4. TypeProcesos' /\ TypeColas' /\ TypeSem' /\ TypeCPU' BY <1>a, <1>6 DEF TypeOK,
          TypeProcesos, TypeColas, TypeSem, TypeCPU, LiberaLeeInstancias
  <2>5. TypeMutex' /\ TypeIO' /\ TypeConsola' BY <1>a, <1>6 DEF TypeOK, TypeMutex, TypeIO,
          TypeConsola, LiberaLeeInstancias
  <2> QED BY <1>a, <1>6, <2>1, <2>2, <2>3, <2>4, <2>5 DEF Tipado, TypeOK
<1>7. CASE LiberaIncrementa
  <2>1. TypeHilos' BY <1>a, <1>7 DEF TypeHilos, TypeOK, LiberaIncrementa, Paso, Hilos, Punteros,
          Pasos, PasosSalida
  <2>2. TypeRecursos' BY <1>a, <1>7 DEF TypeRecursos, TypeOK, LiberaIncrementa
  <2>3. ManosOK' BY <1>a, <1>7 DEF ManosOK, LiberaIncrementa, Paso, ManoConsola, ManoLargo,
          ManoSalida, ManoDespachador, ManoVuelta, ManoIO, VueltaTiene, TypeOK, TypeHilos, Hilos
  <2>4. TypeProcesos' /\ TypeColas' /\ TypeSem' /\ TypeCPU' BY <1>a, <1>7 DEF TypeOK,
          TypeProcesos, TypeColas, TypeSem, TypeCPU, LiberaIncrementa
  <2>5. TypeMutex' /\ TypeIO' /\ TypeConsola' BY <1>a, <1>7 DEF TypeOK, TypeMutex, TypeIO,
          TypeConsola, LiberaIncrementa
  <2> QED BY <1>a, <1>7, <2>1, <2>2, <2>3, <2>4, <2>5 DEF Tipado, TypeOK
<1>8. CASE LiberaSacaBloqueado
  <2>1. TypeHilos' BY <1>a, <1>8 DEF TypeHilos, TypeOK, LiberaSacaBloqueado, Paso, Hilos,
          Punteros, Pasos, PasosSalida, TypeColas, Colas
  <2>2. TypeColas' BY <1>a, <1>8 DEF TypeColas, TypeOK, LiberaSacaBloqueado, Sacar, Resto, Colas
  <2>3. ManosOK' BY <1>a, <1>8 DEF ManosOK, LiberaSacaBloqueado, Paso, ManoConsola, ManoLargo,
          ManoSalida, ManoDespachador, ManoVuelta, ManoIO, VueltaTiene, TypeOK, TypeHilos, Hilos,
          TypeColas, Colas, Punteros
  <2>4. TypeProcesos' /\ TypeSem' /\ TypeCPU' /\ TypeMutex' BY <1>a, <1>8 DEF TypeOK,
          TypeProcesos, TypeSem, TypeCPU, TypeMutex, LiberaSacaBloqueado
  <2>5. TypeRecursos' /\ TypeIO' /\ TypeConsola' BY <1>a, <1>8 DEF TypeOK, TypeRecursos, TypeIO,
          TypeConsola, LiberaSacaBloqueado
  <2> QED BY <1>a, <1>8, <2>1, <2>2, <2>3, <2>4, <2>5 DEF Tipado, TypeOK
<1>9. CASE LiberaDesbloquea
  <2>1. TypeHilos' BY <1>a, <1>9 DEF TypeHilos, TypeOK, LiberaDesbloquea, Paso, Hilos, Punteros,
          Pasos, PasosSalida
  <2>2. TypeProcesos'
    <3>1. PICK v \in Vuelve("RECURSOVT", segundo["salida"]) : CambiarEstado(segundo["salida"],
            v.estado) /\ Empujar(v.cola, segundo["salida"])
        BY <1>9 DEF LiberaDesbloquea
    <3>2. v.estado \in Estados /\ v.cola \in Colas BY VuelveTipo, <3>1
    <3>3. segundo["salida"] \in Objs BY <1>a, <1>9 DEF ManosOK, ManoSalida, LiberaDesbloquea, Paso
    <3> QED BY <1>a, <1>9, <3>1, <3>2, <3>3 DEF LiberaDesbloquea, TypeOK, TypeProcesos,
            CambiarEstado, PCB
  <2>3. TypeColas'
    <3>1. PICK v \in Vuelve("RECURSOVT", segundo["salida"]) : CambiarEstado(segundo["salida"],
            v.estado) /\ Empujar(v.cola, segundo["salida"])
        BY <1>9 DEF LiberaDesbloquea
    <3>2. v.estado \in Estados /\ v.cola \in Colas BY VuelveTipo, <3>1
    <3>3. segundo["salida"] \in Objs BY <1>a, <1>9 DEF ManosOK, ManoSalida, LiberaDesbloquea, Paso
    <3> QED BY <1>a, <3>1, <3>2, <3>3 DEF TypeOK, TypeColas, Colas, Empujar
  <2>4. TypeSem' BY <1>a, <1>9 DEF TypeSem, TypeOK, LiberaDesbloquea, Semaforos
  <2>5. TypeRecursos' BY <1>a, <1>9, ConstantesOK DEF TypeRecursos, TypeOK, LiberaDesbloquea,
          ManosOK, ManoSalida, Paso
  <2>6. ManosOK' BY <1>a, <1>9 DEF ManosOK, LiberaDesbloquea, Paso, ManoConsola, ManoLargo,
          ManoSalida, ManoDespachador, ManoVuelta, ManoIO, VueltaTiene, TypeOK, TypeHilos, Hilos
  <2> QED BY <1>a, <1>9, <2>1, <2>2, <2>3, <2>4, <2>5, <2>6 DEF Tipado, TypeOK, TypeCPU,
          TypeMutex, TypeIO, TypeConsola, LiberaDesbloquea
<1>10. CASE Archiva
  <2>1. TypeHilos' BY <1>a, <1>10 DEF TypeHilos, TypeOK, Archiva, Paso, Toma, Hilos, Punteros,
          Pasos, PasosSalida
  <2>2. TypeColas' BY <1>a, <1>10 DEF TypeColas, TypeOK, Archiva, Empujar, Colas, ManosOK,
          ManoSalida, Paso
  <2>3. TypeRecursos' BY <1>a, <1>10, ConstantesOK DEF TypeRecursos, TypeOK, Archiva
  <2>4. ManosOK' BY <1>a, <1>10 DEF ManosOK, Archiva, Paso, Toma, ManoConsola, ManoLargo,
          ManoSalida, ManoDespachador, ManoVuelta, ManoIO, VueltaTiene, TypeOK, TypeHilos, Hilos
  <2> QED BY <1>a, <1>10, <2>1, <2>2, <2>3, <2>4 DEF Tipado, TypeOK, TypeProcesos, TypeSem,
          TypeCPU, TypeMutex, TypeIO, TypeConsola, Archiva
<1>11. CASE LiberaSinBloqueado \/ LiberaLeeSinAsignar
  BY <1>11, QuietoTipado DEF LiberaSinBloqueado, LiberaLeeSinAsignar
<1> QED BY <1>1, <1>2, <1>3, <1>4, <1>5, <1>6, <1>7, <1>8, <1>9, <1>10, <1>11 DEF Salida

\* Every step of the peers of the sockets and the quantum timers.
LEMMA ParesTipado ==
    ASSUME Tipado, MemoriaResponde \/ CPUDevuelve \/ Reloj PROVE Tipado'
<1>a. TypeOK /\ ManosOK BY DEF Tipado
<1>1. CASE MemoriaResponde
  <2>1. TypeMutex' BY <1>a, <1>1 DEF TypeMutex, TypeOK, MemoriaResponde
  <2>2. TypeHilos' /\ TypeProcesos' /\ TypeColas' /\ TypeSem' BY <1>a, <1>1 DEF TypeOK,
          TypeHilos, TypeProcesos, TypeColas, TypeSem, MemoriaResponde
  <2>3. TypeCPU' /\ TypeRecursos' /\ TypeIO' /\ TypeConsola' /\ ManosOK' BY <1>a,
          <1>1 DEF TypeOK, TypeCPU, TypeRecursos, TypeIO, TypeConsola, ManosOK, MemoriaResponde,
          ManoConsola, ManoLargo, ManoSalida, ManoDespachador, ManoVuelta, ManoIO, VueltaTiene
  <2> QED BY <1>a, <1>1, <2>1, <2>2, <2>3 DEF Tipado, TypeOK
<1>2. CASE CPUDevuelve
  <2>1. TypeCPU' BY <1>a, <1>2, ConstantesOK DEF TypeCPU, TypeOK, CPUDevuelve, Finales
  <2>2. TypeHilos' /\ TypeProcesos' /\ TypeColas' /\ TypeSem' BY <1>a, <1>2 DEF TypeOK,
          TypeHilos, TypeProcesos, TypeColas, TypeSem, CPUDevuelve
  <2>3. TypeMutex' /\ TypeRecursos' /\ TypeIO' /\ TypeConsola' /\ ManosOK' BY <1>a,
          <1>2 DEF TypeOK, TypeMutex, TypeRecursos, TypeIO, TypeConsola, ManosOK, CPUDevuelve,
          ManoConsola, ManoLargo, ManoSalida, ManoDespachador, ManoVuelta, ManoIO, VueltaTiene
  <2> QED BY <1>a, <1>2, <2>1, <2>2, <2>3 DEF Tipado, TypeOK
<1>3. CASE RelojSinExec
  <2>1. TypeMutex' BY <1>a, <1>3 DEF TypeMutex, TypeOK, RelojSinExec
  <2>2. TypeHilos' /\ TypeProcesos' /\ TypeColas' /\ TypeSem' BY <1>a, <1>3 DEF TypeOK,
          TypeHilos, TypeProcesos, TypeColas, TypeSem, RelojSinExec
  <2>3. TypeCPU' /\ TypeRecursos' /\ TypeIO' /\ TypeConsola' /\ ManosOK' BY <1>a,
          <1>3 DEF TypeOK, TypeCPU, TypeRecursos, TypeIO, TypeConsola, ManosOK, RelojSinExec,
          ManoConsola, ManoLargo, ManoSalida, ManoDespachador, ManoVuelta, ManoIO, VueltaTiene
  <2> QED BY <1>a, <1>3, <2>1, <2>2, <2>3 DEF Tipado, TypeOK
<1>4. CASE RelojVence
  <2>1. TypeMutex' BY <1>a, <1>4 DEF TypeMutex, TypeOK, RelojVence
  <2>2. TypeHilos' /\ TypeProcesos' /\ TypeColas' /\ TypeSem' BY <1>a, <1>4 DEF TypeOK,
          TypeHilos, TypeProcesos, TypeColas, TypeSem, RelojVence
  <2>3. TypeCPU' /\ TypeRecursos' /\ TypeIO' /\ TypeConsola' /\ ManosOK' BY <1>a,
          <1>4 DEF TypeOK, TypeCPU, TypeRecursos, TypeIO, TypeConsola, ManosOK, RelojVence,
          ManoConsola, ManoLargo, ManoSalida, ManoDespachador, ManoVuelta, ManoIO, VueltaTiene
  <2> QED BY <1>a, <1>4, <2>1, <2>2, <2>3 DEF Tipado, TypeOK
<1> QED BY <1>1, <1>2, <1>3, <1>4 DEF Reloj

\* Every step of the console (kernel.c 88-191, 331-353).
LEMMA ConsolaTipado ==
    ASSUME Tipado, Consola PROVE Tipado'
<1>a. TypeOK /\ ManosOK BY DEF Tipado
<1>1. CASE IniciarProceso
  <2>1. TypeHilos' BY <1>a, <1>1 DEF TypeHilos, TypeOK, IniciarProceso, Paso, Toma, Hilos,
          Punteros, Pasos, PasosConsola
  <2>2. TypeProcesos' BY <1>a, <1>1, ConstantesOK DEF TypeProcesos, TypeOK, IniciarProceso, PCB,
          Estados, Objs
  <2>3. ManosOK' BY <1>a, <1>1 DEF ManosOK, IniciarProceso, Paso, Toma, ManoConsola, ManoLargo,
          ManoSalida, ManoDespachador, ManoVuelta, ManoIO, VueltaTiene, TypeOK, TypeHilos, Hilos
  <2>4. TypeColas' /\ TypeSem' /\ TypeCPU' /\ TypeMutex' BY <1>a, <1>1 DEF TypeOK, TypeColas,
          TypeSem, TypeCPU, TypeMutex, IniciarProceso
  <2>5. TypeRecursos' /\ TypeIO' /\ TypeConsola' BY <1>a, <1>1 DEF TypeOK, TypeRecursos, TypeIO,
          TypeConsola, IniciarProceso
  <2> QED BY <1>a, <1>1, <2>1, <2>2, <2>3, <2>4, <2>5 DEF Tipado, TypeOK
<1>2. CASE ConsolaPideMemoria
  <2>1. TypeHilos' BY <1>a, <1>2 DEF TypeHilos, TypeOK, ConsolaPideMemoria, Paso, Hilos,
          Punteros, Pasos, PasosConsola
  <2>2. TypeMutex' BY <1>a, <1>2 DEF TypeMutex, TypeOK, ConsolaPideMemoria
  <2>3. ManosOK' BY <1>a, <1>2 DEF ManosOK, ConsolaPideMemoria, Paso, ManoConsola, ManoLargo,
          ManoSalida, ManoDespachador, ManoVuelta, ManoIO, VueltaTiene, TypeOK, TypeHilos, Hilos
  <2>4. TypeProcesos' /\ TypeColas' /\ TypeSem' /\ TypeCPU' BY <1>a, <1>2 DEF TypeOK,
          TypeProcesos, TypeColas, TypeSem, TypeCPU, ConsolaPideMemoria
  <2>5. TypeRecursos' /\ TypeIO' /\ TypeConsola' BY <1>a, <1>2 DEF TypeOK, TypeRecursos, TypeIO,
          TypeConsola, ConsolaPideMemoria
  <2> QED BY <1>a, <1>2, <2>1, <2>2, <2>3, <2>4, <2>5 DEF Tipado, TypeOK
<1>3. CASE ConsolaRecibeMemoria
  <2>1. TypeHilos' BY <1>a, <1>3 DEF TypeHilos, TypeOK, ConsolaRecibeMemoria, Paso, Hilos,
          Punteros, Pasos, PasosConsola
  <2>2. TypeMutex' BY <1>a, <1>3 DEF TypeMutex, TypeOK, ConsolaRecibeMemoria
  <2>3. ManosOK' BY <1>a, <1>3 DEF ManosOK, ConsolaRecibeMemoria, Paso, ManoConsola, ManoLargo,
          ManoSalida, ManoDespachador, ManoVuelta, ManoIO, VueltaTiene, TypeOK, TypeHilos, Hilos
  <2>4. TypeProcesos' /\ TypeColas' /\ TypeSem' /\ TypeCPU' BY <1>a, <1>3 DEF TypeOK,
          TypeProcesos, TypeColas, TypeSem, TypeCPU, ConsolaRecibeMemoria
  <2>5. TypeRecursos' /\ TypeIO' /\ TypeConsola' BY <1>a, <1>3 DEF TypeOK, TypeRecursos, TypeIO,
          TypeConsola, ConsolaRecibeMemoria
  <2> QED BY <1>a, <1>3, <2>1, <2>2, <2>3, <2>4, <2>5 DEF Tipado, TypeOK
<1>4. CASE EncolaEnNew
  <2>1. TypeHilos' BY <1>a, <1>4 DEF TypeHilos, TypeOK, EncolaEnNew, Paso, Toma, Hilos, Punteros,
          Pasos, PasosConsola
  <2>2. TypeColas' BY <1>a, <1>4 DEF TypeColas, TypeOK, EncolaEnNew, Empujar, Colas, ManosOK,
          ManoConsola, Paso
  <2>3. TypeSem' BY <1>a, <1>4 DEF TypeSem, TypeOK, EncolaEnNew, Post, Semaforos
  <2>4. ManosOK' BY <1>a, <1>4 DEF ManosOK, EncolaEnNew, Paso, Toma, ManoConsola, ManoLargo,
          ManoSalida, ManoDespachador, ManoVuelta, ManoIO, VueltaTiene, TypeOK, TypeHilos, Hilos
  <2> QED BY <1>a, <1>4, <2>1, <2>2, <2>3, <2>4 DEF Tipado, TypeOK, TypeProcesos, TypeCPU,
          TypeMutex, TypeRecursos, TypeIO, TypeConsola, EncolaEnNew
<1>5. CASE IniciarPlanificacion
  <2>1. TypeHilos' BY <1>a, <1>5 DEF TypeHilos, TypeOK, IniciarPlanificacion, Hilos, Punteros,
          Pasos, PasosConsola, PasosLargo, PasosSalida, PasosVuelta, PasosDespachador
  <2>2. TypeConsola' BY <1>a, <1>5, ConstantesOK DEF TypeConsola, TypeOK, IniciarPlanificacion,
          Ordena, ColasBuscadas
  <2>3. ManosOK' BY <1>a, <1>5 DEF ManosOK, IniciarPlanificacion, ManoConsola, ManoLargo,
          ManoSalida, ManoDespachador, ManoVuelta, ManoIO, VueltaTiene, TypeOK, TypeHilos, Hilos
  <2>4. TypeProcesos' /\ TypeColas' /\ TypeSem' /\ TypeCPU' BY <1>a, <1>5 DEF TypeOK,
          TypeProcesos, TypeColas, TypeSem, TypeCPU, IniciarPlanificacion
  <2>5. TypeMutex' /\ TypeRecursos' /\ TypeIO' BY <1>a, <1>5 DEF TypeOK, TypeMutex, TypeRecursos,
          TypeIO, IniciarPlanificacion
  <2> QED BY <1>a, <1>5, <2>1, <2>2, <2>3, <2>4, <2>5 DEF Tipado, TypeOK
<1>6. CASE DetenerPlanificacion
  <2>1. TypeHilos' BY <1>a, <1>6 DEF TypeHilos, TypeOK, DetenerPlanificacion, Paso, Hilos,
          Punteros, Pasos, PasosConsola
  <2>2. TypeConsola' BY <1>a, <1>6, ConstantesOK DEF TypeConsola, TypeOK, DetenerPlanificacion,
          Ordena, ColasBuscadas
  <2>3. ManosOK' BY <1>a, <1>6 DEF ManosOK, DetenerPlanificacion, Paso, ManoConsola, ManoLargo,
          ManoSalida, ManoDespachador, ManoVuelta, ManoIO, VueltaTiene, TypeOK, TypeHilos, Hilos
  <2>4. TypeProcesos' /\ TypeColas' /\ TypeSem' /\ TypeCPU' BY <1>a, <1>6 DEF TypeOK,
          TypeProcesos, TypeColas, TypeSem, TypeCPU, DetenerPlanificacion
  <2>5. TypeMutex' /\ TypeRecursos' /\ TypeIO' BY <1>a, <1>6 DEF TypeOK, TypeMutex, TypeRecursos,
          TypeIO, DetenerPlanificacion
  <2> QED BY <1>a, <1>6, <2>1, <2>2, <2>3, <2>4, <2>5 DEF Tipado, TypeOK
<1>7. CASE CambiarMultiprogramacion
  <2>1. TypeHilos' BY <1>a, <1>7 DEF TypeHilos, TypeOK, CambiarMultiprogramacion, Paso, Hilos,
          Punteros, Pasos, PasosConsola
  <2>2. TypeConsola' BY <1>a, <1>7, ConstantesOK DEF TypeConsola, TypeOK,
          CambiarMultiprogramacion, Ordena, ColasBuscadas
  <2>3. ManosOK' BY <1>a, <1>7 DEF ManosOK, CambiarMultiprogramacion, Paso, ManoConsola,
          ManoLargo, ManoSalida, ManoDespachador, ManoVuelta, ManoIO, VueltaTiene, TypeOK,
          TypeHilos, Hilos
  <2>4. TypeProcesos' /\ TypeColas' /\ TypeSem' /\ TypeCPU' BY <1>a, <1>7 DEF TypeOK,
          TypeProcesos, TypeColas, TypeSem, TypeCPU, CambiarMultiprogramacion
  <2>5. TypeMutex' /\ TypeRecursos' /\ TypeIO' BY <1>a, <1>7 DEF TypeOK, TypeMutex, TypeRecursos,
          TypeIO, CambiarMultiprogramacion
  <2> QED BY <1>a, <1>7, <2>1, <2>2, <2>3, <2>4, <2>5 DEF Tipado, TypeOK
<1>8. CASE SubeGrado
  <2>1. TypeHilos' BY <1>a, <1>8 DEF TypeHilos, TypeOK, SubeGrado, Paso, Hilos, Punteros, Pasos,
          PasosConsola
  <2>2. TypeSem' BY <1>a, <1>8 DEF TypeSem, TypeOK, SubeGrado, Post, Semaforos
  <2>3. TypeConsola' BY <1>a, <1>8, ConstantesOK DEF TypeConsola, TypeOK, SubeGrado, ColasBuscadas
  <2>4. ManosOK' BY <1>a, <1>8 DEF ManosOK, SubeGrado, Paso, ManoConsola, ManoLargo, ManoSalida,
          ManoDespachador, ManoVuelta, ManoIO, VueltaTiene, TypeOK, TypeHilos, Hilos
  <2> QED BY <1>a, <1>8, <2>1, <2>2, <2>3, <2>4 DEF Tipado, TypeOK, TypeProcesos, TypeColas,
          TypeCPU, TypeMutex, TypeRecursos, TypeIO, SubeGrado
<1>9. CASE BajaGrado
  <2>1. TypeHilos' BY <1>a, <1>9 DEF TypeHilos, TypeOK, BajaGrado, Paso, Hilos, Punteros, Pasos,
          PasosConsola
  <2>2. TypeSem' BY <1>a, <1>9 DEF TypeSem, TypeOK, BajaGrado, Wait, Semaforos
  <2>3. TypeConsola' BY <1>a, <1>9, ConstantesOK DEF TypeConsola, TypeOK, BajaGrado, ColasBuscadas
  <2>4. ManosOK' BY <1>a, <1>9 DEF ManosOK, BajaGrado, Paso, ManoConsola, ManoLargo, ManoSalida,
          ManoDespachador, ManoVuelta, ManoIO, VueltaTiene, TypeOK, TypeHilos, Hilos
  <2> QED BY <1>a, <1>9, <2>1, <2>2, <2>3, <2>4 DEF Tipado, TypeOK, TypeProcesos, TypeColas,
          TypeCPU, TypeMutex, TypeRecursos, TypeIO, BajaGrado
<1>10. CASE TerminaGrado
  <2>1. TypeHilos' BY <1>a, <1>10 DEF TypeHilos, TypeOK, TerminaGrado, Paso, Hilos, Punteros,
          Pasos, PasosConsola
  <2>2. ManosOK' BY <1>a, <1>10 DEF ManosOK, TerminaGrado, Paso, ManoConsola, ManoLargo,
          ManoSalida, ManoDespachador, ManoVuelta, ManoIO, VueltaTiene, TypeOK, TypeHilos, Hilos
  <2>3. TypeProcesos' /\ TypeColas' /\ TypeSem' /\ TypeCPU' BY <1>a, <1>10 DEF TypeOK,
          TypeProcesos, TypeColas, TypeSem, TypeCPU, TerminaGrado
  <2>4. TypeMutex' /\ TypeRecursos' /\ TypeIO' /\ TypeConsola' BY <1>a, <1>10 DEF TypeOK,
          TypeMutex, TypeRecursos, TypeIO, TypeConsola, TerminaGrado
  <2> QED BY <1>a, <1>10, <2>1, <2>2, <2>3, <2>4 DEF Tipado, TypeOK
<1>11. CASE FinalizarProceso
  <2>1. TypeHilos' BY <1>a, <1>11 DEF TypeHilos, TypeOK, FinalizarProceso, Paso, Hilos, Punteros,
          Pasos, PasosConsola
  <2>2. TypeConsola'
    <3>1. PICK p \in Pids : orden' = [orden EXCEPT !.pid = p, !.k = 1] BY <1>11 DEF FinalizarProceso
    <3>2. p \in 0..(MaxProc + 1) /\ 1 \in 1..(Len(ColasBuscadas) + 1) BY ConstantesOK DEF Pids,
            ColasBuscadas
    <3>3. orden' \in [pid: 0..(MaxProc + 1), k: 1..(Len(ColasBuscadas) + 1), pos: Nat \ {0}, n: Nat]
      BY <1>a, <1>11, <3>1, <3>2 DEF TypeOK, TypeConsola
    <3> QED BY <1>a, <1>11, <3>3, ConstantesOK DEF TypeConsola, TypeOK, FinalizarProceso, Ordena
  <2>3. ManosOK' BY <1>a, <1>11 DEF ManosOK, FinalizarProceso, Paso, ManoConsola, ManoLargo,
          ManoSalida, ManoDespachador, ManoVuelta, ManoIO, VueltaTiene, TypeOK, TypeHilos, Hilos
  <2>4. TypeProcesos' /\ TypeColas' /\ TypeSem' /\ TypeCPU' BY <1>a, <1>11 DEF TypeOK,
          TypeProcesos, TypeColas, TypeSem, TypeCPU, FinalizarProceso
  <2>5. TypeMutex' /\ TypeRecursos' /\ TypeIO' BY <1>a, <1>11 DEF TypeOK, TypeMutex,
          TypeRecursos, TypeIO, FinalizarProceso
  <2> QED BY <1>a, <1>11, <2>1, <2>2, <2>3, <2>4, <2>5 DEF Tipado, TypeOK
<1>12. CASE BuscaEncuentra
  <2>1. TypeHilos' BY <1>a, <1>12 DEF TypeHilos, TypeOK, BuscaEncuentra, Paso, Posiciones, Hilos,
          Punteros, Pasos, PasosConsola
  <2>2. TypeConsola'
    <3>1. ColasBuscadas[orden.k] \in Colas
      BY <1>a, <1>12 DEF BuscaEncuentra, TypeOK, TypeConsola, ColasBuscadas, Colas
    <3>2. PICK n \in Posiciones(ColasBuscadas[orden.k],
            orden.pid) : orden' = [orden EXCEPT !.pos = n]
      BY <1>12 DEF BuscaEncuentra
    <3>3. n \in Nat \ {0} BY <1>a, <1>12, <3>1 DEF Posiciones, TypeOK, TypeColas
    <3> QED BY <1>a, <1>12, <3>2, <3>3 DEF TypeConsola, TypeOK, BuscaEncuentra
  <2>3. ManosOK' BY <1>a, <1>12 DEF ManosOK, BuscaEncuentra, Paso, Posiciones, ManoConsola,
          ManoLargo, ManoSalida, ManoDespachador, ManoVuelta, ManoIO, VueltaTiene, TypeOK,
          TypeHilos, Hilos
  <2>4. TypeProcesos' /\ TypeColas' /\ TypeSem' /\ TypeCPU' BY <1>a, <1>12 DEF TypeOK,
          TypeProcesos, TypeColas, TypeSem, TypeCPU, BuscaEncuentra
  <2>5. TypeMutex' /\ TypeRecursos' /\ TypeIO' BY <1>a, <1>12 DEF TypeOK, TypeMutex,
          TypeRecursos, TypeIO, BuscaEncuentra
  <2> QED BY <1>a, <1>12, <2>1, <2>2, <2>3, <2>4, <2>5 DEF Tipado, TypeOK
<1>13. CASE BuscaSigue
  <2>1. TypeHilos' BY <1>a, <1>13 DEF TypeHilos, TypeOK, BuscaSigue, Paso, Posiciones, Hilos,
          Punteros, Pasos, PasosConsola
  <2>2. TypeConsola' BY <1>a, <1>13, ConstantesOK DEF TypeConsola, TypeOK, BuscaSigue,
          ColasBuscadas
  <2>3. ManosOK' BY <1>a, <1>13 DEF ManosOK, BuscaSigue, Paso, Posiciones, ManoConsola,
          ManoLargo, ManoSalida, ManoDespachador, ManoVuelta, ManoIO, VueltaTiene, TypeOK,
          TypeHilos, Hilos
  <2>4. TypeProcesos' /\ TypeColas' /\ TypeSem' /\ TypeCPU' BY <1>a, <1>13 DEF TypeOK,
          TypeProcesos, TypeColas, TypeSem, TypeCPU, BuscaSigue
  <2>5. TypeMutex' /\ TypeRecursos' /\ TypeIO' BY <1>a, <1>13 DEF TypeOK, TypeMutex,
          TypeRecursos, TypeIO, BuscaSigue
  <2> QED BY <1>a, <1>13, <2>1, <2>2, <2>3, <2>4, <2>5 DEF Tipado, TypeOK
<1>14. CASE Quita
  <2>1. TypeHilos'
    <3>1. ColasBuscadas[orden.k] \in Colas
      BY <1>a, <1>14 DEF Quita, TypeOK, TypeConsola, ManosOK, ManoConsola, Paso, ColasBuscadas,
            Colas
    <3>2. cola[ColasBuscadas[orden.k]] \in Seq(Objs) BY <1>a, <1>14, <3>1 DEF TypeOK, TypeColas
    <3>3. orden.pos \in 1..Len(cola[ColasBuscadas[orden.k]]) BY <1>a, <1>14, <3>2 DEF Quita,
            TypeOK, TypeConsola
    <3>4. cola[ColasBuscadas[orden.k]][orden.pos] \in Objs BY <3>2, <3>3
    <3> QED BY <1>a, <1>14, <3>4 DEF TypeHilos, TypeOK, Quita, Paso, Toma, Hilos, Punteros, Pasos,
            PasosConsola
  <2>2. TypeColas'
    <3>1. ColasBuscadas[orden.k] \in Colas
      BY <1>a, <1>14 DEF Quita, TypeOK, TypeConsola, ManosOK, ManoConsola, Paso, ColasBuscadas,
            Colas
    <3>2. cola[ColasBuscadas[orden.k]] \in Seq(Objs) BY <1>a, <1>14, <3>1 DEF TypeOK, TypeColas
    <3>3. orden.pos \in 1..Len(cola[ColasBuscadas[orden.k]]) BY <1>a, <1>14, <3>2 DEF Quita,
            TypeOK, TypeConsola
    <3>4. RemoveAt(cola[ColasBuscadas[orden.k]], orden.pos) \in Seq(Objs) BY <3>2, <3>3, QuitarTipo
    <3> QED BY <1>a, <1>14, <3>1, <3>4 DEF TypeColas, TypeOK, Quita
  <2>3. TypeConsola' BY <1>a, <1>14, ConstantesOK DEF TypeConsola, TypeOK, Quita, ColasBuscadas,
          SinOrden
  <2>4. ManosOK'
    <3>1. ColasBuscadas[orden.k] \in Colas
      BY <1>a, <1>14 DEF Quita, TypeOK, TypeConsola, ManosOK, ManoConsola, Paso, ColasBuscadas,
            Colas
    <3>2. cola[ColasBuscadas[orden.k]] \in Seq(Objs) BY <1>a, <1>14, <3>1 DEF TypeOK, TypeColas
    <3>3. orden.pos \in 1..Len(cola[ColasBuscadas[orden.k]]) BY <1>a, <1>14, <3>2 DEF Quita,
            TypeOK, TypeConsola
    <3>4. cola[ColasBuscadas[orden.k]][orden.pos] \in Objs BY <3>2, <3>3
    <3> QED BY <1>a, <1>14, <3>4 DEF ManosOK, Quita, Paso, Toma, ManoConsola, ManoLargo,
            ManoSalida, ManoDespachador, ManoVuelta, ManoIO, VueltaTiene, TypeOK, TypeHilos, Hilos
  <2> QED BY <1>a, <1>14, <2>1, <2>2, <2>3, <2>4 DEF Tipado, TypeOK, TypeProcesos, TypeSem,
          TypeCPU, TypeMutex, TypeRecursos, TypeIO, Quita
<1>15. CASE NoHalladoSigue
  <2>1. TypeHilos' BY <1>a, <1>15, ConstantesOK DEF TypeHilos, TypeOK, NoHalladoSigue, Paso,
          Toma, Hilos, Punteros, Pasos, PasosConsola, TypeProcesos, Objs
  <2>2. TypeConsola' BY <1>a, <1>15, ConstantesOK DEF TypeConsola, TypeOK, NoHalladoSigue,
          ColasBuscadas, SinOrden
  <2>3. ManosOK' BY <1>a, <1>15, ConstantesOK DEF ManosOK, NoHalladoSigue, Paso, Toma,
          ManoConsola, ManoLargo, ManoSalida, ManoDespachador, ManoVuelta, ManoIO, VueltaTiene,
          TypeOK, TypeHilos, Hilos, TypeProcesos, Objs
  <2>4. TypeProcesos' /\ TypeColas' /\ TypeSem' /\ TypeCPU' BY <1>a, <1>15 DEF TypeOK,
          TypeProcesos, TypeColas, TypeSem, TypeCPU, NoHalladoSigue
  <2>5. TypeMutex' /\ TypeRecursos' /\ TypeIO' BY <1>a, <1>15 DEF TypeOK, TypeMutex,
          TypeRecursos, TypeIO, NoHalladoSigue
  <2> QED BY <1>a, <1>15, <2>1, <2>2, <2>3, <2>4, <2>5 DEF Tipado, TypeOK
<1>16. CASE InterrumpePorConsola
  <2>1. TypeHilos' BY <1>a, <1>16 DEF TypeHilos, TypeOK, InterrumpePorConsola, Paso, Toma, Hilos,
          Punteros, Pasos, PasosConsola
  <2>2. TypeConsola' BY <1>a, <1>16, ConstantesOK DEF TypeConsola, TypeOK, InterrumpePorConsola,
          ColasBuscadas
  <2>3. ManosOK' BY <1>a, <1>16 DEF ManosOK, InterrumpePorConsola, Paso, Toma, ManoConsola,
          ManoLargo, ManoSalida, ManoDespachador, ManoVuelta, ManoIO, VueltaTiene, TypeOK,
          TypeHilos, Hilos
  <2>4. TypeProcesos' /\ TypeColas' /\ TypeSem' /\ TypeCPU' BY <1>a, <1>16 DEF TypeOK,
          TypeProcesos, TypeColas, TypeSem, TypeCPU, InterrumpePorConsola
  <2>5. TypeMutex' /\ TypeRecursos' /\ TypeIO' BY <1>a, <1>16 DEF TypeOK, TypeMutex,
          TypeRecursos, TypeIO, InterrumpePorConsola
  <2> QED BY <1>a, <1>16, <2>1, <2>2, <2>3, <2>4, <2>5 DEF Tipado, TypeOK
<1>17. CASE DecideSacar
  <2>1. TypeHilos' BY <1>a, <1>17 DEF TypeHilos, TypeOK, DecideSacar, Paso, Hilos, Punteros,
          Pasos, PasosConsola
  <2>2. ManosOK' BY <1>a, <1>17 DEF ManosOK, DecideSacar, Paso, ManoConsola, ManoLargo,
          ManoSalida, ManoDespachador, ManoVuelta, ManoIO, VueltaTiene, TypeOK, TypeHilos, Hilos
  <2>3. TypeProcesos' /\ TypeColas' /\ TypeSem' /\ TypeCPU' BY <1>a, <1>17 DEF TypeOK,
          TypeProcesos, TypeColas, TypeSem, TypeCPU, DecideSacar
  <2>4. TypeMutex' /\ TypeRecursos' /\ TypeIO' /\ TypeConsola' BY <1>a, <1>17 DEF TypeOK,
          TypeMutex, TypeRecursos, TypeIO, TypeConsola, DecideSacar
  <2> QED BY <1>a, <1>17, <2>1, <2>2, <2>3, <2>4 DEF Tipado, TypeOK
<1>18. CASE FinalizaAExit
  <2>1. TypeHilos' BY <1>a, <1>18 DEF TypeHilos, TypeOK, FinalizaAExit, Paso, Toma, Hilos,
          Punteros, Pasos, PasosConsola
  <2>2. TypeProcesos' BY <1>a, <1>18 DEF TypeProcesos, TypeOK, FinalizaAExit, CambiarEstado, PCB,
          Estados, ManosOK, ManoConsola, Paso
  <2>3. TypeColas' BY <1>a, <1>18 DEF TypeColas, TypeOK, FinalizaAExit, Empujar, Colas, ManosOK,
          ManoConsola, Paso
  <2>4. TypeSem' BY <1>a, <1>18 DEF TypeSem, TypeOK, FinalizaAExit, Post, Semaforos
  <2>5. ManosOK' BY <1>a, <1>18 DEF ManosOK, FinalizaAExit, Paso, Toma, ManoConsola, ManoLargo,
          ManoSalida, ManoDespachador, ManoVuelta, ManoIO, VueltaTiene, TypeOK, TypeHilos, Hilos
  <2> QED BY <1>a, <1>18, <2>1, <2>2, <2>3, <2>4, <2>5 DEF Tipado, TypeOK, TypeCPU, TypeMutex,
          TypeRecursos, TypeIO, TypeConsola, FinalizaAExit
<1>19. CASE QuitaFueraDeRango \/ NoHalladoFalla
  BY <1>19, QuietoTipado DEF QuitaFueraDeRango, NoHalladoFalla
<1> QED BY <1>1, <1>2, <1>3, <1>4, <1>5, <1>6, <1>7, <1>8, <1>9, <1>10, <1>11, <1>12, <1>13,
        <1>14, <1>15, <1>16, <1>17, <1>18, <1>19 DEF Consola

\* Every step of despachador (kernel.c 881-899).
LEMMA DespachadorTipado ==
    ASSUME Tipado, Despachador PROVE Tipado'
<1>a. TypeOK /\ ManosOK BY DEF Tipado
<1>1. CASE DespachadorMiraPlan
  <2>1. TypeHilos' BY <1>a, <1>1 DEF TypeHilos, TypeOK, DespachadorMiraPlan, Paso, Hilos,
          Punteros, Pasos, PasosDespachador
  <2>2. ManosOK' BY <1>a, <1>1 DEF ManosOK, DespachadorMiraPlan, Paso, ManoConsola, ManoLargo,
          ManoSalida, ManoDespachador, ManoVuelta, ManoIO, VueltaTiene, TypeOK, TypeHilos, Hilos
  <2>3. TypeProcesos' /\ TypeColas' /\ TypeSem' /\ TypeCPU' BY <1>a, <1>1 DEF TypeOK,
          TypeProcesos, TypeColas, TypeSem, TypeCPU, DespachadorMiraPlan
  <2>4. TypeMutex' /\ TypeRecursos' /\ TypeIO' /\ TypeConsola' BY <1>a, <1>1 DEF TypeOK,
          TypeMutex, TypeRecursos, TypeIO, TypeConsola, DespachadorMiraPlan
  <2> QED BY <1>a, <1>1, <2>1, <2>2, <2>3, <2>4 DEF Tipado, TypeOK
<1>2. CASE Elige
  <2>1. TypeHilos' BY <1>a, <1>2 DEF TypeHilos, TypeOK, Elige, Paso, Hilos, Punteros, Pasos,
          PasosDespachador
  <2>2. TypeSem' BY <1>a, <1>2 DEF TypeSem, TypeOK, Elige, Semaforos
  <2>3. ManosOK' BY <1>a, <1>2 DEF ManosOK, Elige, Paso, ManoConsola, ManoLargo, ManoSalida,
          ManoDespachador, ManoVuelta, ManoIO, VueltaTiene, TypeOK, TypeHilos, Hilos
  <2>4. TypeProcesos' /\ TypeColas' /\ TypeCPU' /\ TypeMutex' BY <1>a, <1>2 DEF TypeOK,
          TypeProcesos, TypeColas, TypeCPU, TypeMutex, Elige
  <2>5. TypeRecursos' /\ TypeIO' /\ TypeConsola' BY <1>a, <1>2 DEF TypeOK, TypeRecursos, TypeIO,
          TypeConsola, Elige
  <2> QED BY <1>a, <1>2, <2>1, <2>2, <2>3, <2>4, <2>5 DEF Tipado, TypeOK
<1>3. CASE SacaReady
  <2>1. TypeHilos' BY <1>a, <1>3 DEF TypeHilos, TypeOK, SacaReady, Paso, Toma, Hilos, Punteros,
          Pasos, PasosDespachador, TypeColas, Colas
  <2>2. TypeColas' BY <1>a, <1>3 DEF TypeColas, TypeOK, SacaReady, Sacar, Resto, Colas
  <2>3. ManosOK' BY <1>a, <1>3 DEF ManosOK, SacaReady, Paso, Toma, ManoConsola, ManoLargo,
          ManoSalida, ManoDespachador, ManoVuelta, ManoIO, VueltaTiene, TypeOK, TypeHilos, Hilos,
          TypeColas, Colas, Punteros
  <2>4. TypeProcesos' /\ TypeSem' /\ TypeCPU' /\ TypeMutex' BY <1>a, <1>3 DEF TypeOK,
          TypeProcesos, TypeSem, TypeCPU, TypeMutex, SacaReady
  <2>5. TypeRecursos' /\ TypeIO' /\ TypeConsola' BY <1>a, <1>3 DEF TypeOK, TypeRecursos, TypeIO,
          TypeConsola, SacaReady
  <2> QED BY <1>a, <1>3, <2>1, <2>2, <2>3, <2>4, <2>5 DEF Tipado, TypeOK
<1>4. CASE MarcaExec
  <2>1. TypeHilos' BY <1>a, <1>4 DEF TypeHilos, TypeOK, MarcaExec, Paso, Hilos, Punteros, Pasos,
          PasosDespachador
  <2>2. TypeProcesos' BY <1>a, <1>4 DEF TypeProcesos, TypeOK, MarcaExec, CambiarEstado, PCB,
          Estados, ManosOK, ManoDespachador, Paso
  <2>3. ManosOK' BY <1>a, <1>4 DEF ManosOK, MarcaExec, Paso, ManoConsola, ManoLargo, ManoSalida,
          ManoDespachador, ManoVuelta, ManoIO, VueltaTiene, TypeOK, TypeHilos, Hilos
  <2>4. TypeColas' /\ TypeSem' /\ TypeCPU' /\ TypeMutex' BY <1>a, <1>4 DEF TypeOK, TypeColas,
          TypeSem, TypeCPU, TypeMutex, MarcaExec
  <2>5. TypeRecursos' /\ TypeIO' /\ TypeConsola' BY <1>a, <1>4 DEF TypeOK, TypeRecursos, TypeIO,
          TypeConsola, MarcaExec
  <2> QED BY <1>a, <1>4, <2>1, <2>2, <2>3, <2>4, <2>5 DEF Tipado, TypeOK
<1>5. CASE PasaAExec
  <2>1. TypeHilos' BY <1>a, <1>5 DEF TypeHilos, TypeOK, PasaAExec, Paso, Hilos, Punteros, Pasos,
          PasosDespachador
  <2>2. TypeColas' BY <1>a, <1>5 DEF TypeColas, TypeOK, PasaAExec, Empujar, Colas, ManosOK,
          ManoDespachador, Paso
  <2>3. ManosOK' BY <1>a, <1>5 DEF ManosOK, PasaAExec, Paso, ManoConsola, ManoLargo, ManoSalida,
          ManoDespachador, ManoVuelta, ManoIO, VueltaTiene, TypeOK, TypeHilos, Hilos
  <2>4. TypeProcesos' /\ TypeSem' /\ TypeCPU' /\ TypeMutex' BY <1>a, <1>5 DEF TypeOK,
          TypeProcesos, TypeSem, TypeCPU, TypeMutex, PasaAExec
  <2>5. TypeRecursos' /\ TypeIO' /\ TypeConsola' BY <1>a, <1>5 DEF TypeOK, TypeRecursos, TypeIO,
          TypeConsola, PasaAExec
  <2> QED BY <1>a, <1>5, <2>1, <2>2, <2>3, <2>4, <2>5 DEF Tipado, TypeOK
<1>6. CASE Despacha
  <2>1. TypeHilos' BY <1>a, <1>6 DEF TypeHilos, TypeOK, Despacha, Paso, Toma, Hilos, Punteros,
          Pasos, PasosDespachador
  <2>2. TypeProcesos' BY <1>a, <1>6, ConstantesOK DEF TypeProcesos, TypeOK, Despacha, EnviarPCB,
          PCB, Estados, ManosOK, ManoDespachador, Paso, Objs
  <2>3. TypeSem' BY <1>a, <1>6 DEF TypeSem, TypeOK, Despacha, Post, Semaforos
  <2>4. TypeCPU' BY <1>a, <1>6 DEF TypeCPU, TypeOK, Despacha, EnviarPCB
  <2>5. ManosOK' BY <1>a, <1>6 DEF ManosOK, Despacha, Paso, Toma, ManoConsola, ManoLargo,
          ManoSalida, ManoDespachador, ManoVuelta, ManoIO, VueltaTiene, TypeOK, TypeHilos, Hilos
  <2> QED BY <1>a, <1>6, <2>1, <2>2, <2>3, <2>4, <2>5 DEF Tipado, TypeOK, TypeColas, TypeMutex,
          TypeRecursos, TypeIO, TypeConsola, Despacha
<1>7. CASE LanzaQuantum
  <2>1. TypeHilos' BY <1>a, <1>7 DEF TypeHilos, TypeOK, LanzaQuantum, Paso, Hilos, Punteros,
          Pasos, PasosDespachador
  <2>2. TypeMutex' BY <1>a, <1>7 DEF TypeMutex, TypeOK, LanzaQuantum
  <2>3. ManosOK' BY <1>a, <1>7 DEF ManosOK, LanzaQuantum, Paso, ManoConsola, ManoLargo,
          ManoSalida, ManoDespachador, ManoVuelta, ManoIO, VueltaTiene, TypeOK, TypeHilos, Hilos
  <2>4. TypeProcesos' /\ TypeColas' /\ TypeSem' /\ TypeCPU' BY <1>a, <1>7 DEF TypeOK,
          TypeProcesos, TypeColas, TypeSem, TypeCPU, LanzaQuantum
  <2>5. TypeRecursos' /\ TypeIO' /\ TypeConsola' BY <1>a, <1>7 DEF TypeOK, TypeRecursos, TypeIO,
          TypeConsola, LanzaQuantum
  <2> QED BY <1>a, <1>7, <2>1, <2>2, <2>3, <2>4, <2>5 DEF Tipado, TypeOK
<1>8. CASE ReadyVacia
  BY <1>8, QuietoTipado DEF ReadyVacia
<1> QED BY <1>1, <1>2, <1>3, <1>4, <1>5, <1>6, <1>7, <1>8 DEF Despachador

\* Every step of atender_vuelta_dispatch (kernel.c 560-715).
LEMMA VueltaDispatchTipado ==
    ASSUME Tipado, VueltaDispatch PROVE Tipado'
<1>a. TypeOK /\ ManosOK BY DEF Tipado
<1>1. CASE VueltaMiraPlan
  <2>1. TypeHilos' BY <1>a, <1>1 DEF TypeHilos, TypeOK, VueltaMiraPlan, Paso, Hilos, Punteros,
          Pasos, PasosVuelta
  <2>2. ManosOK' BY <1>a, <1>1 DEF ManosOK, VueltaMiraPlan, Paso, ManoConsola, ManoLargo,
          ManoSalida, ManoDespachador, ManoVuelta, ManoIO, VueltaTiene, TypeOK, TypeHilos, Hilos
  <2>3. TypeProcesos' /\ TypeColas' /\ TypeSem' /\ TypeCPU' BY <1>a, <1>1 DEF TypeOK,
          TypeProcesos, TypeColas, TypeSem, TypeCPU, VueltaMiraPlan
  <2>4. TypeMutex' /\ TypeRecursos' /\ TypeIO' /\ TypeConsola' BY <1>a, <1>1 DEF TypeOK,
          TypeMutex, TypeRecursos, TypeIO, TypeConsola, VueltaMiraPlan
  <2> QED BY <1>a, <1>1, <2>1, <2>2, <2>3, <2>4 DEF Tipado, TypeOK
<1>2. CASE RecibeVuelta
  <2>1. TypeHilos'
    <3>1. Head(de_cpu) \in [o: Objs, r: Retorno] /\ Tail(de_cpu) \in Seq([o: Objs, r: Retorno])
      BY <1>a, <1>2, CabezaTipo DEF RecibeVuelta, TypeOK, TypeCPU
    <3> QED BY <1>a, <1>2, <3>1 DEF RecibeVuelta, TypeHilos, TypeOK, Paso, Toma, Hilos, Punteros,
            Pasos, PasosVuelta, TypeColas, Colas
  <2>2. TypeSem' BY <1>a, <1>2 DEF TypeSem, TypeOK, RecibeVuelta, Wait, Semaforos
  <2>3. TypeCPU'
    <3>1. Head(de_cpu) \in [o: Objs, r: Retorno] /\ Tail(de_cpu) \in Seq([o: Objs, r: Retorno])
      BY <1>a, <1>2, CabezaTipo DEF RecibeVuelta, TypeOK, TypeCPU
    <3> QED BY <1>a, <1>2, <3>1 DEF RecibeVuelta, TypeCPU, TypeOK
  <2>4. ManosOK'
    <3>1. Head(de_cpu) \in [o: Objs, r: Retorno] /\ Tail(de_cpu) \in Seq([o: Objs, r: Retorno])
      BY <1>a, <1>2, CabezaTipo DEF RecibeVuelta, TypeOK, TypeCPU
    <3> QED BY <1>a, <1>2, <3>1 DEF RecibeVuelta, ManosOK, Paso, Toma, ManoConsola, ManoLargo,
            ManoSalida, ManoDespachador, ManoVuelta, ManoIO, VueltaTiene, TypeOK, TypeHilos, Hilos,
            TypeColas, Colas, Punteros
  <2> QED BY <1>a, <1>2, <2>1, <2>2, <2>3, <2>4 DEF Tipado, TypeOK, TypeProcesos, TypeColas,
          TypeMutex, TypeRecursos, TypeIO, TypeConsola, RecibeVuelta
<1>3. CASE AtiendeFinQuantum
  <2>1. TypeHilos' BY <1>a, <1>3 DEF TypeHilos, TypeOK, AtiendeFinQuantum, SueltaVuelta, Atiende,
          Paso, Toma, Hilos, Punteros, Pasos, PasosVuelta
  <2>2. TypeProcesos' BY <1>a, <1>3 DEF TypeProcesos, TypeOK, AtiendeFinQuantum, PCB, Estados,
          ManosOK, ManoVuelta, VueltaTiene, PasosVuelta, Paso, Atiende
  <2>3. TypeColas' BY <1>a, <1>3 DEF TypeColas, TypeOK, AtiendeFinQuantum, Empujar, Colas,
          ManosOK, ManoVuelta, VueltaTiene, PasosVuelta, Paso, Atiende
  <2>4. TypeSem' BY <1>a, <1>3 DEF TypeSem, TypeOK, AtiendeFinQuantum, Semaforos
  <2>5. TypeCPU' BY <1>a, <1>3 DEF TypeCPU, TypeOK, AtiendeFinQuantum, SueltaVuelta, SinRetorno,
          SinInterfaz, Retorno, Motivos
  <2>6. ManosOK' BY <1>a, <1>3 DEF ManosOK, AtiendeFinQuantum, SueltaVuelta, Atiende, Paso, Toma,
          ManoConsola, ManoLargo, ManoSalida, ManoDespachador, ManoVuelta, ManoIO, VueltaTiene,
          TypeOK, TypeHilos, Hilos
  <2> QED BY <1>a, <1>3, <2>1, <2>2, <2>3, <2>4, <2>5, <2>6 DEF Tipado, TypeOK, TypeMutex,
          TypeRecursos, TypeIO, TypeConsola, AtiendeFinQuantum
<1>4. CASE AtiendeFinal
  <2>1. TypeHilos' BY <1>a, <1>4 DEF TypeHilos, TypeOK, AtiendeFinal, SueltaVuelta, Atiende,
          Finales, Paso, Toma, Hilos, Punteros, Pasos, PasosVuelta
  <2>2. TypeProcesos' BY <1>a, <1>4 DEF TypeProcesos, TypeOK, AtiendeFinal, CambiarEstado,
          Finales, PCB, Estados, ManosOK, ManoVuelta, VueltaTiene, PasosVuelta, Paso, Atiende
  <2>3. TypeColas' BY <1>a, <1>4 DEF TypeColas, TypeOK, AtiendeFinal, Empujar, Finales, Colas,
          ManosOK, ManoVuelta, VueltaTiene, PasosVuelta, Paso, Atiende
  <2>4. TypeSem' BY <1>a, <1>4 DEF TypeSem, TypeOK, AtiendeFinal, Finales, Semaforos
  <2>5. TypeCPU' BY <1>a, <1>4 DEF TypeCPU, TypeOK, AtiendeFinal, SueltaVuelta, SinRetorno,
          SinInterfaz, Retorno, Motivos
  <2>6. ManosOK' BY <1>a, <1>4 DEF ManosOK, AtiendeFinal, SueltaVuelta, Atiende, Finales, Paso,
          Toma, ManoConsola, ManoLargo, ManoSalida, ManoDespachador, ManoVuelta, ManoIO,
          VueltaTiene, TypeOK, TypeHilos, Hilos
  <2> QED BY <1>a, <1>4, <2>1, <2>2, <2>3, <2>4, <2>5, <2>6 DEF Tipado, TypeOK, TypeMutex,
          TypeRecursos, TypeIO, TypeConsola, AtiendeFinal
<1>5. CASE AtiendeOtroMotivo
  <2>1. TypeHilos' BY <1>a, <1>5 DEF TypeHilos, TypeOK, AtiendeOtroMotivo, SueltaVuelta, Atiende,
          Paso, Toma, Hilos, Punteros, Pasos, PasosVuelta
  <2>2. TypeSem' BY <1>a, <1>5 DEF TypeSem, TypeOK, AtiendeOtroMotivo, Post, Semaforos
  <2>3. TypeCPU' BY <1>a, <1>5 DEF TypeCPU, TypeOK, AtiendeOtroMotivo, SueltaVuelta, SinRetorno,
          SinInterfaz, Retorno, Motivos
  <2>4. ManosOK' BY <1>a, <1>5 DEF ManosOK, AtiendeOtroMotivo, SueltaVuelta, Atiende, Paso, Toma,
          ManoConsola, ManoLargo, ManoSalida, ManoDespachador, ManoVuelta, ManoIO, VueltaTiene,
          TypeOK, TypeHilos, Hilos
  <2> QED BY <1>a, <1>5, <2>1, <2>2, <2>3, <2>4 DEF Tipado, TypeOK, TypeProcesos, TypeColas,
          TypeMutex, TypeRecursos, TypeIO, TypeConsola, AtiendeOtroMotivo
<1>6. CASE BuscaInterfaz
  <2>1. TypeHilos' BY <1>a, <1>6 DEF TypeHilos, TypeOK, BuscaInterfaz, Atiende, PedidosIO, Paso,
          Hilos, Punteros, Pasos, PasosVuelta
  <2>2. TypeProcesos' BY <1>a, <1>6 DEF TypeProcesos, TypeOK, BuscaInterfaz, PedidosIO, PCB,
          Estados, ManosOK, ManoVuelta, VueltaTiene, PasosVuelta, Paso, Atiende
  <2>3. ManosOK' BY <1>a, <1>6 DEF ManosOK, BuscaInterfaz, Atiende, PedidosIO, Paso, ManoConsola,
          ManoLargo, ManoSalida, ManoDespachador, ManoVuelta, ManoIO, VueltaTiene, TypeOK,
          TypeHilos, Hilos, TypeIO
  <2>4. TypeColas' /\ TypeSem' /\ TypeCPU' /\ TypeMutex' BY <1>a, <1>6 DEF TypeOK, TypeColas,
          TypeSem, TypeCPU, TypeMutex, BuscaInterfaz
  <2>5. TypeRecursos' /\ TypeIO' /\ TypeConsola' BY <1>a, <1>6 DEF TypeOK, TypeRecursos, TypeIO,
          TypeConsola, BuscaInterfaz
  <2> QED BY <1>a, <1>6, <2>1, <2>2, <2>3, <2>4, <2>5 DEF Tipado, TypeOK
<1>7. CASE RechazaPedido
  <2>1. TypeHilos' BY <1>a, <1>7 DEF TypeHilos, TypeOK, RechazaPedido, Paso, SueltaVuelta, Toma,
          Hilos, Punteros, Pasos, PasosVuelta
  <2>2. TypeProcesos' BY <1>a, <1>7 DEF TypeProcesos, TypeOK, RechazaPedido, CambiarEstado, PCB,
          Estados, ManosOK, ManoVuelta, VueltaTiene, PasosVuelta, Paso
  <2>3. TypeColas' BY <1>a, <1>7 DEF TypeColas, TypeOK, RechazaPedido, Empujar, Colas, ManosOK,
          ManoVuelta, VueltaTiene, PasosVuelta, Paso
  <2>4. TypeSem' BY <1>a, <1>7 DEF TypeSem, TypeOK, RechazaPedido, Semaforos
  <2>5. TypeCPU' BY <1>a, <1>7 DEF TypeCPU, TypeOK, RechazaPedido, SueltaVuelta, SinRetorno,
          SinInterfaz, Retorno, Motivos
  <2>6. ManosOK' BY <1>a, <1>7 DEF ManosOK, RechazaPedido, Paso, SueltaVuelta, Toma, ManoConsola,
          ManoLargo, ManoSalida, ManoDespachador, ManoVuelta, ManoIO, VueltaTiene, TypeOK,
          TypeHilos, Hilos
  <2> QED BY <1>a, <1>7, <2>1, <2>2, <2>3, <2>4, <2>5, <2>6 DEF Tipado, TypeOK, TypeMutex,
          TypeRecursos, TypeIO, TypeConsola, RechazaPedido
<1>8. CASE EncolaEnInterfaz
  <2>1. TypeHilos' BY <1>a, <1>8 DEF TypeHilos, TypeOK, EncolaEnInterfaz, Paso, TipoPedido,
          Hilos, Punteros, Pasos, PasosVuelta
  <2>2. TypeProcesos' BY <1>a, <1>8 DEF TypeProcesos, TypeOK, EncolaEnInterfaz, CambiarEstado,
          TipoPedido, PCB, Estados, ManosOK, ManoVuelta, VueltaTiene, PasosVuelta, Paso
  <2>3. TypeIO'
    <3>1. mano["vuelta"] \in Objs /\ ret.interfaz \in Interfaces
      BY <1>a, <1>8 DEF EncolaEnInterfaz, Paso, ManosOK, ManoVuelta, VueltaTiene, PasosVuelta
    <3>2. [o |-> mano["vuelta"], tipo |-> TipoPedido(ret.motivo)] \in Bloque
      BY <3>1 DEF Bloque, TipoPedido, Tipos
    <3> QED BY <1>a, <1>8, <3>1, <3>2 DEF TypeIO, TypeOK, EncolaEnInterfaz
  <2>4. ManosOK' BY <1>a, <1>8 DEF ManosOK, EncolaEnInterfaz, Paso, TipoPedido, ManoConsola,
          ManoLargo, ManoSalida, ManoDespachador, ManoVuelta, ManoIO, VueltaTiene, TypeOK,
          TypeHilos, Hilos
  <2> QED BY <1>a, <1>8, <2>1, <2>2, <2>3, <2>4 DEF Tipado, TypeOK, TypeColas, TypeSem, TypeCPU,
          TypeMutex, TypeRecursos, TypeConsola, EncolaEnInterfaz
<1>9. CASE AvisaInterfaz
  <2>1. TypeHilos' BY <1>a, <1>9 DEF TypeHilos, TypeOK, AvisaInterfaz, Paso, SueltaVuelta, Toma,
          Hilos, Punteros, Pasos, PasosVuelta
  <2>2. TypeColas' BY <1>a, <1>9 DEF TypeColas, TypeOK, AvisaInterfaz, Empujar, Colas, ManosOK,
          ManoVuelta, VueltaTiene, PasosVuelta, Paso
  <2>3. TypeSem' BY <1>a, <1>9 DEF TypeSem, TypeOK, AvisaInterfaz, Post, Semaforos
  <2>4. TypeCPU' BY <1>a, <1>9 DEF TypeCPU, TypeOK, AvisaInterfaz, SueltaVuelta, SinRetorno,
          SinInterfaz, Retorno, Motivos
  <2>5. TypeIO' BY <1>a, <1>9 DEF TypeIO, TypeOK, AvisaInterfaz, ManosOK, ManoVuelta, Paso
  <2>6. ManosOK' BY <1>a, <1>9 DEF ManosOK, AvisaInterfaz, Paso, SueltaVuelta, Toma, ManoConsola,
          ManoLargo, ManoSalida, ManoDespachador, ManoVuelta, ManoIO, VueltaTiene, TypeOK,
          TypeHilos, Hilos
  <2> QED BY <1>a, <1>9, <2>1, <2>2, <2>3, <2>4, <2>5, <2>6 DEF Tipado, TypeOK, TypeProcesos,
          TypeMutex, TypeRecursos, TypeConsola, AvisaInterfaz
<1>10. CASE InterfazLiberada
  BY <1>10, QuietoTipado DEF InterfazLiberada
<1> QED BY <1>1, <1>2, <1>3, <1>4, <1>5, <1>6, <1>7, <1>8, <1>9, <1>10 DEF VueltaDispatch

\* Every step of manejar_wait and manejar_signal (kernel.c 737-782).
LEMMA VueltaRecursoTipado ==
    ASSUME Tipado, VueltaRecurso PROVE Tipado'
<1>a. TypeOK /\ ManosOK BY DEF Tipado
<1>1. CASE RecursoInvalido
  <2>1. TypeHilos' BY <1>a, <1>1 DEF TypeHilos, TypeOK, RecursoInvalido, SueltaVuelta, Pide,
          Paso, Toma, Hilos, Punteros, Pasos, PasosVuelta
  <2>2. TypeProcesos' BY <1>a, <1>1 DEF TypeProcesos, TypeOK, RecursoInvalido, CambiarEstado,
          PCB, Estados, ManosOK, ManoVuelta, VueltaTiene, PasosVuelta, Paso, Pide
  <2>3. TypeColas' BY <1>a, <1>1 DEF TypeColas, TypeOK, RecursoInvalido, Empujar, Colas, ManosOK,
          ManoVuelta, VueltaTiene, PasosVuelta, Paso, Pide
  <2>4. TypeSem' BY <1>a, <1>1 DEF TypeSem, TypeOK, RecursoInvalido, Semaforos
  <2>5. TypeCPU' BY <1>a, <1>1 DEF TypeCPU, TypeOK, RecursoInvalido, SueltaVuelta, SinRetorno,
          SinInterfaz, Retorno, Motivos
  <2>6. ManosOK' BY <1>a, <1>1 DEF ManosOK, RecursoInvalido, SueltaVuelta, Pide, Paso, Toma,
          ManoConsola, ManoLargo, ManoSalida, ManoDespachador, ManoVuelta, ManoIO, VueltaTiene,
          TypeOK, TypeHilos, Hilos
  <2> QED BY <1>a, <1>1, <2>1, <2>2, <2>3, <2>4, <2>5, <2>6 DEF Tipado, TypeOK, TypeMutex,
          TypeRecursos, TypeIO, TypeConsola, RecursoInvalido
<1>2. CASE LeeInstancias
  <2>1. TypeHilos' BY <1>a, <1>2 DEF TypeHilos, TypeOK, LeeInstancias, Pide, Paso, Hilos,
          Punteros, Pasos, PasosVuelta
  <2>2. TypeRecursos' BY <1>a, <1>2 DEF TypeRecursos, TypeOK, LeeInstancias
  <2>3. ManosOK' BY <1>a, <1>2 DEF ManosOK, LeeInstancias, Pide, Paso, ManoConsola, ManoLargo,
          ManoSalida, ManoDespachador, ManoVuelta, ManoIO, VueltaTiene, TypeOK, TypeHilos, Hilos
  <2>4. TypeProcesos' /\ TypeColas' /\ TypeSem' /\ TypeCPU' BY <1>a, <1>2 DEF TypeOK,
          TypeProcesos, TypeColas, TypeSem, TypeCPU, LeeInstancias
  <2>5. TypeMutex' /\ TypeIO' /\ TypeConsola' BY <1>a, <1>2 DEF TypeOK, TypeMutex, TypeIO,
          TypeConsola, LeeInstancias
  <2> QED BY <1>a, <1>2, <2>1, <2>2, <2>3, <2>4, <2>5 DEF Tipado, TypeOK
<1>3. CASE EscribeInstancias
  <2>1. TypeHilos' BY <1>a, <1>3 DEF TypeHilos, TypeOK, EscribeInstancias, Paso, Hilos, Punteros,
          Pasos, PasosVuelta
  <2>2. TypeRecursos' BY <1>a, <1>3 DEF TypeRecursos, TypeOK, EscribeInstancias
  <2>3. ManosOK' BY <1>a, <1>3 DEF ManosOK, EscribeInstancias, Paso, ManoConsola, ManoLargo,
          ManoSalida, ManoDespachador, ManoVuelta, ManoIO, VueltaTiene, TypeOK, TypeHilos, Hilos
  <2>4. TypeProcesos' /\ TypeColas' /\ TypeSem' /\ TypeCPU' BY <1>a, <1>3 DEF TypeOK,
          TypeProcesos, TypeColas, TypeSem, TypeCPU, EscribeInstancias
  <2>5. TypeMutex' /\ TypeIO' /\ TypeConsola' BY <1>a, <1>3 DEF TypeOK, TypeMutex, TypeIO,
          TypeConsola, EscribeInstancias
  <2> QED BY <1>a, <1>3, <2>1, <2>2, <2>3, <2>4, <2>5 DEF Tipado, TypeOK
<1>4. CASE DecideRecurso
  <2>1. TypeHilos' BY <1>a, <1>4 DEF TypeHilos, TypeOK, DecideRecurso, Paso, Hilos, Punteros,
          Pasos, PasosVuelta
  <2>2. ManosOK' BY <1>a, <1>4 DEF ManosOK, DecideRecurso, Paso, ManoConsola, ManoLargo,
          ManoSalida, ManoDespachador, ManoVuelta, ManoIO, VueltaTiene, TypeOK, TypeHilos, Hilos
  <2>3. TypeProcesos' /\ TypeColas' /\ TypeSem' /\ TypeCPU' BY <1>a, <1>4 DEF TypeOK,
          TypeProcesos, TypeColas, TypeSem, TypeCPU, DecideRecurso
  <2>4. TypeMutex' /\ TypeRecursos' /\ TypeIO' /\ TypeConsola' BY <1>a, <1>4 DEF TypeOK,
          TypeMutex, TypeRecursos, TypeIO, TypeConsola, DecideRecurso
  <2> QED BY <1>a, <1>4, <2>1, <2>2, <2>3, <2>4 DEF Tipado, TypeOK
<1>5. CASE EncolaEnRecurso
  <2>1. TypeHilos' BY <1>a, <1>5 DEF TypeHilos, TypeOK, EncolaEnRecurso, Paso, Hilos, Punteros,
          Pasos, PasosVuelta
  <2>2. TypeProcesos' BY <1>a, <1>5 DEF TypeProcesos, TypeOK, EncolaEnRecurso, CambiarEstado,
          PCB, Estados, ManosOK, ManoVuelta, VueltaTiene, PasosVuelta, Paso
  <2>3. TypeColas' BY <1>a, <1>5 DEF TypeColas, TypeOK, EncolaEnRecurso, Empujar, Colas, ManosOK,
          ManoVuelta, VueltaTiene, PasosVuelta, Paso
  <2>4. ManosOK' BY <1>a, <1>5 DEF ManosOK, EncolaEnRecurso, Paso, ManoConsola, ManoLargo,
          ManoSalida, ManoDespachador, ManoVuelta, ManoIO, VueltaTiene, TypeOK, TypeHilos, Hilos
  <2> QED BY <1>a, <1>5, <2>1, <2>2, <2>3, <2>4 DEF Tipado, TypeOK, TypeSem, TypeCPU, TypeMutex,
          TypeRecursos, TypeIO, TypeConsola, EncolaEnRecurso
<1>6. CASE BloqueaPorRecurso
  <2>1. TypeHilos' BY <1>a, <1>6 DEF TypeHilos, TypeOK, BloqueaPorRecurso, Paso, SueltaVuelta,
          Toma, Hilos, Punteros, Pasos, PasosVuelta
  <2>2. TypeColas' BY <1>a, <1>6 DEF TypeColas, TypeOK, BloqueaPorRecurso, Empujar, Colas,
          ManosOK, ManoVuelta, VueltaTiene, PasosVuelta, Paso
  <2>3. TypeSem' BY <1>a, <1>6 DEF TypeSem, TypeOK, BloqueaPorRecurso, Semaforos
  <2>4. TypeCPU' BY <1>a, <1>6 DEF TypeCPU, TypeOK, BloqueaPorRecurso, SueltaVuelta, SinRetorno,
          SinInterfaz, Retorno, Motivos
  <2>5. ManosOK' BY <1>a, <1>6 DEF ManosOK, BloqueaPorRecurso, Paso, SueltaVuelta, Toma,
          ManoConsola, ManoLargo, ManoSalida, ManoDespachador, ManoVuelta, ManoIO, VueltaTiene,
          TypeOK, TypeHilos, Hilos
  <2> QED BY <1>a, <1>6, <2>1, <2>2, <2>3, <2>4, <2>5 DEF Tipado, TypeOK, TypeProcesos,
          TypeMutex, TypeRecursos, TypeIO, TypeConsola, BloqueaPorRecurso
<1>7. CASE SacaDeRecurso
  <2>1. TypeHilos' BY <1>a, <1>7 DEF TypeHilos, TypeOK, SacaDeRecurso, Paso, Hilos, Punteros,
          Pasos, PasosVuelta, TypeColas, Colas
  <2>2. TypeColas' BY <1>a, <1>7 DEF TypeColas, TypeOK, SacaDeRecurso, Sacar, Resto, Colas
  <2>3. ManosOK' BY <1>a, <1>7 DEF ManosOK, SacaDeRecurso, Paso, ManoConsola, ManoLargo,
          ManoSalida, ManoDespachador, ManoVuelta, ManoIO, VueltaTiene, TypeOK, TypeHilos, Hilos,
          TypeColas, Colas, Punteros
  <2>4. TypeProcesos' /\ TypeSem' /\ TypeCPU' /\ TypeMutex' BY <1>a, <1>7 DEF TypeOK,
          TypeProcesos, TypeSem, TypeCPU, TypeMutex, SacaDeRecurso
  <2>5. TypeRecursos' /\ TypeIO' /\ TypeConsola' BY <1>a, <1>7 DEF TypeOK, TypeRecursos, TypeIO,
          TypeConsola, SacaDeRecurso
  <2> QED BY <1>a, <1>7, <2>1, <2>2, <2>3, <2>4, <2>5 DEF Tipado, TypeOK
<1>8. CASE Desbloquea
  <2>1. TypeHilos' BY <1>a, <1>8 DEF TypeHilos, TypeOK, Desbloquea, Paso, Hilos, Punteros, Pasos,
          PasosVuelta
  <2>2. TypeProcesos'
    <3>1. PICK v \in Vuelve("RECURSOVT", segundo["vuelta"]) : CambiarEstado(segundo["vuelta"],
            v.estado) /\ Empujar(v.cola, segundo["vuelta"])
        BY <1>8 DEF Desbloquea
    <3>2. v.estado \in Estados /\ v.cola \in Colas BY VuelveTipo, <3>1
    <3>3. segundo["vuelta"] \in Objs BY <1>a, <1>8 DEF ManosOK, ManoVuelta, Desbloquea, Paso
    <3> QED BY <1>a, <1>8, <3>1, <3>2, <3>3 DEF Desbloquea, TypeOK, TypeProcesos, CambiarEstado, PCB
  <2>3. TypeColas'
    <3>1. PICK v \in Vuelve("RECURSOVT", segundo["vuelta"]) : CambiarEstado(segundo["vuelta"],
            v.estado) /\ Empujar(v.cola, segundo["vuelta"])
        BY <1>8 DEF Desbloquea
    <3>2. v.estado \in Estados /\ v.cola \in Colas BY VuelveTipo, <3>1
    <3>3. segundo["vuelta"] \in Objs BY <1>a, <1>8 DEF ManosOK, ManoVuelta, Desbloquea, Paso
    <3> QED BY <1>a, <3>1, <3>2, <3>3 DEF TypeOK, TypeColas, Colas, Empujar
  <2>4. TypeSem' BY <1>a, <1>8 DEF TypeSem, TypeOK, Desbloquea, Post, Semaforos
  <2>5. ManosOK' BY <1>a, <1>8 DEF ManosOK, Desbloquea, Paso, ManoConsola, ManoLargo, ManoSalida,
          ManoDespachador, ManoVuelta, ManoIO, VueltaTiene, TypeOK, TypeHilos, Hilos
  <2> QED BY <1>a, <1>8, <2>1, <2>2, <2>3, <2>4, <2>5 DEF Tipado, TypeOK, TypeCPU, TypeMutex,
          TypeRecursos, TypeIO, TypeConsola, Desbloquea
<1>9. CASE VuelveAExec
  <2>1. TypeHilos' BY <1>a, <1>9 DEF TypeHilos, TypeOK, VuelveAExec, Paso, Hilos, Punteros,
          Pasos, PasosVuelta
  <2>2. TypeColas' BY <1>a, <1>9 DEF TypeColas, TypeOK, VuelveAExec, Empujar, Colas, ManosOK,
          ManoVuelta, VueltaTiene, PasosVuelta, Paso
  <2>3. ManosOK' BY <1>a, <1>9 DEF ManosOK, VuelveAExec, Paso, ManoConsola, ManoLargo,
          ManoSalida, ManoDespachador, ManoVuelta, ManoIO, VueltaTiene, TypeOK, TypeHilos, Hilos
  <2>4. TypeProcesos' /\ TypeSem' /\ TypeCPU' /\ TypeMutex' BY <1>a, <1>9 DEF TypeOK,
          TypeProcesos, TypeSem, TypeCPU, TypeMutex, VuelveAExec
  <2>5. TypeRecursos' /\ TypeIO' /\ TypeConsola' BY <1>a, <1>9 DEF TypeOK, TypeRecursos, TypeIO,
          TypeConsola, VuelveAExec
  <2> QED BY <1>a, <1>9, <2>1, <2>2, <2>3, <2>4, <2>5 DEF Tipado, TypeOK
<1>10. CASE Reenvia
  <2>1. TypeHilos' BY <1>a, <1>10 DEF TypeHilos, TypeOK, Reenvia, Paso, SueltaVuelta, Toma,
          Hilos, Punteros, Pasos, PasosVuelta
  <2>2. TypeProcesos' BY <1>a, <1>10, ConstantesOK DEF TypeProcesos, TypeOK, Reenvia, EnviarPCB,
          PCB, Estados, ManosOK, ManoVuelta, VueltaTiene, PasosVuelta, Paso, Objs
  <2>3. TypeSem' BY <1>a, <1>10 DEF TypeSem, TypeOK, Reenvia, Post, Semaforos
  <2>4. TypeCPU' BY <1>a, <1>10 DEF TypeCPU, TypeOK, Reenvia, SueltaVuelta, EnviarPCB,
          SinRetorno, SinInterfaz, Retorno, Motivos
  <2>5. ManosOK' BY <1>a, <1>10 DEF ManosOK, Reenvia, Paso, SueltaVuelta, Toma, ManoConsola,
          ManoLargo, ManoSalida, ManoDespachador, ManoVuelta, ManoIO, VueltaTiene, TypeOK,
          TypeHilos, Hilos
  <2> QED BY <1>a, <1>10, <2>1, <2>2, <2>3, <2>4, <2>5 DEF Tipado, TypeOK, TypeColas, TypeMutex,
          TypeRecursos, TypeIO, TypeConsola, Reenvia
<1>11. CASE RecursoVacio \/ DesbloqueaLeeSinAsignar
  BY <1>11, QuietoTipado DEF RecursoVacio, DesbloqueaLeeSinAsignar
<1> QED BY <1>1, <1>2, <1>3, <1>4, <1>5, <1>6, <1>7, <1>8, <1>9, <1>10, <1>11 DEF VueltaRecurso

\* Every step of the interface threads (kernel.c 1051-1341).
LEMMA InterfazTipado ==
    ASSUME Tipado, NEW i \in Interfaces,
           ConectaInterfaz(i) \/ CierraInterfaz(i) \/ AtiendeInterfaz(i)
    PROVE Tipado'
<1>a. TypeOK /\ ManosOK BY DEF Tipado
<1>1. CASE ConectaInterfaz(i)
  <2>1. TypeHilos' BY <1>a, <1>1 DEF TypeHilos, TypeOK, ConectaInterfaz, PasoIO, Hilos, Punteros,
          Pasos
  <2>2. TypeIO' BY <1>a, <1>1 DEF TypeIO, TypeOK, ConectaInterfaz, PasoIO, PasosInterfaz
  <2>3. ManosOK' BY <1>a, <1>1 DEF ManosOK, ConectaInterfaz, PasoIO, ManoConsola, ManoLargo,
          ManoSalida, ManoDespachador, ManoVuelta, ManoIO, VueltaTiene, TypeOK, TypeHilos, Hilos,
          TypeIO
  <2>4. TypeProcesos' /\ TypeColas' /\ TypeSem' /\ TypeCPU' BY <1>a, <1>1 DEF TypeOK,
          TypeProcesos, TypeColas, TypeSem, TypeCPU, ConectaInterfaz
  <2>5. TypeMutex' /\ TypeRecursos' /\ TypeConsola' BY <1>a, <1>1 DEF TypeOK, TypeMutex,
          TypeRecursos, TypeConsola, ConectaInterfaz
  <2> QED BY <1>a, <1>1, <2>1, <2>2, <2>3, <2>4, <2>5 DEF Tipado, TypeOK
<1>2. CASE CierraInterfaz(i)
  <2>1. TypeIO' BY <1>a, <1>2 DEF TypeIO, TypeOK, CierraInterfaz, PasosInterfaz
  <2>2. TypeHilos' /\ TypeProcesos' /\ TypeColas' /\ TypeSem' BY <1>a, <1>2 DEF TypeOK,
          TypeHilos, TypeProcesos, TypeColas, TypeSem, CierraInterfaz
  <2>3. TypeCPU' /\ TypeMutex' /\ TypeRecursos' /\ TypeConsola' /\ ManosOK' BY <1>a,
          <1>2 DEF TypeOK, TypeCPU, TypeMutex, TypeRecursos, TypeConsola, ManosOK,
          CierraInterfaz, ManoConsola, ManoLargo, ManoSalida, ManoDespachador, ManoVuelta,
          ManoIO, VueltaTiene
  <2> QED BY <1>a, <1>2, <2>1, <2>2, <2>3 DEF Tipado, TypeOK
<1>3. CASE IOMiraPlan(i)
  <2>1. TypeHilos' BY <1>a, <1>3 DEF TypeHilos, TypeOK, IOMiraPlan, PasoIO, Hilos, Punteros, Pasos
  <2>2. TypeIO' BY <1>a, <1>3 DEF TypeIO, TypeOK, IOMiraPlan, PasoIO, PasosInterfaz
  <2>3. ManosOK' BY <1>a, <1>3 DEF ManosOK, IOMiraPlan, PasoIO, ManoConsola, ManoLargo,
          ManoSalida, ManoDespachador, ManoVuelta, ManoIO, VueltaTiene, TypeOK, TypeHilos, Hilos,
          TypeIO
  <2>4. TypeProcesos' /\ TypeColas' /\ TypeSem' /\ TypeCPU' BY <1>a, <1>3 DEF TypeOK,
          TypeProcesos, TypeColas, TypeSem, TypeCPU, IOMiraPlan
  <2>5. TypeMutex' /\ TypeRecursos' /\ TypeConsola' BY <1>a, <1>3 DEF TypeOK, TypeMutex,
          TypeRecursos, TypeConsola, IOMiraPlan
  <2> QED BY <1>a, <1>3, <2>1, <2>2, <2>3, <2>4, <2>5 DEF Tipado, TypeOK
<1>4. CASE IOToma(i)
  <2>1. TypeHilos' BY <1>a, <1>4 DEF TypeHilos, TypeOK, IOToma, PasoIO, Hilos, Punteros, Pasos,
          TypeColas, Colas
  <2>2. TypeIO' BY <1>a, <1>4 DEF TypeIO, TypeOK, IOToma, PasoIO, TomaIO, PasosInterfaz
  <2>3. ManosOK'
    <3>1. Head(bloq[i]) \in Bloque BY <1>a, <1>4, CabezaTipo DEF IOToma, TypeOK, TypeIO
    <3> QED BY <1>a, <1>4, <3>1 DEF ManosOK, IOToma, PasoIO, TomaIO, ManoConsola, ManoLargo,
            ManoSalida, ManoDespachador, ManoVuelta, ManoIO, VueltaTiene, TypeOK, TypeHilos, Hilos,
            TypeColas, Colas, Punteros, TypeIO
  <2>4. TypeProcesos' /\ TypeColas' /\ TypeSem' /\ TypeCPU' BY <1>a, <1>4 DEF TypeOK,
          TypeProcesos, TypeColas, TypeSem, TypeCPU, IOToma
  <2>5. TypeMutex' /\ TypeRecursos' /\ TypeConsola' BY <1>a, <1>4 DEF TypeOK, TypeMutex,
          TypeRecursos, TypeConsola, IOToma
  <2> QED BY <1>a, <1>4, <2>1, <2>2, <2>3, <2>4, <2>5 DEF Tipado, TypeOK
<1>5. CASE IOEnvia(i)
  <2>1. TypeHilos' BY <1>a, <1>5 DEF TypeHilos, TypeOK, IOEnvia, PasoIO, Hilos, Punteros, Pasos
  <2>2. TypeIO' BY <1>a, <1>5 DEF TypeIO, TypeOK, IOEnvia, PasoIO, PasosInterfaz
  <2>3. ManosOK' BY <1>a, <1>5 DEF ManosOK, IOEnvia, PasoIO, ManoConsola, ManoLargo, ManoSalida,
          ManoDespachador, ManoVuelta, ManoIO, VueltaTiene, TypeOK, TypeHilos, Hilos, TypeIO
  <2>4. TypeProcesos' /\ TypeColas' /\ TypeSem' /\ TypeCPU' BY <1>a, <1>5 DEF TypeOK,
          TypeProcesos, TypeColas, TypeSem, TypeCPU, IOEnvia
  <2>5. TypeMutex' /\ TypeRecursos' /\ TypeConsola' BY <1>a, <1>5 DEF TypeOK, TypeMutex,
          TypeRecursos, TypeConsola, IOEnvia
  <2> QED BY <1>a, <1>5, <2>1, <2>2, <2>3, <2>4, <2>5 DEF Tipado, TypeOK
<1>6. CASE IORecibe(i)
  <2>1. TypeHilos' BY <1>a, <1>6 DEF TypeHilos, TypeOK, IORecibe, PasoIO, Hilos, Punteros, Pasos
  <2>2. TypeIO' BY <1>a, <1>6 DEF TypeIO, TypeOK, IORecibe, PasoIO, PasosInterfaz
  <2>3. ManosOK' BY <1>a, <1>6 DEF ManosOK, IORecibe, PasoIO, ManoConsola, ManoLargo, ManoSalida,
          ManoDespachador, ManoVuelta, ManoIO, VueltaTiene, TypeOK, TypeHilos, Hilos, TypeIO
  <2>4. TypeProcesos' /\ TypeColas' /\ TypeSem' /\ TypeCPU' BY <1>a, <1>6 DEF TypeOK,
          TypeProcesos, TypeColas, TypeSem, TypeCPU, IORecibe
  <2>5. TypeMutex' /\ TypeRecursos' /\ TypeConsola' BY <1>a, <1>6 DEF TypeOK, TypeMutex,
          TypeRecursos, TypeConsola, IORecibe
  <2> QED BY <1>a, <1>6, <2>1, <2>2, <2>3, <2>4, <2>5 DEF Tipado, TypeOK
<1>7. CASE IORecibeCeroGenerica(i)
  <2>1. TypeHilos' BY <1>a, <1>7 DEF TypeHilos, TypeOK, IORecibeCeroGenerica, PasoIO, Hilos,
          Punteros, Pasos
  <2>2. TypeIO' BY <1>a, <1>7 DEF TypeIO, TypeOK, IORecibeCeroGenerica, PasoIO, TomaIO,
          PasosInterfaz
  <2>3. ManosOK' BY <1>a, <1>7 DEF ManosOK, IORecibeCeroGenerica, PasoIO, TomaIO, ManoConsola,
          ManoLargo, ManoSalida, ManoDespachador, ManoVuelta, ManoIO, VueltaTiene, TypeOK,
          TypeHilos, Hilos, TypeIO
  <2>4. TypeProcesos' /\ TypeColas' /\ TypeSem' /\ TypeCPU' BY <1>a, <1>7 DEF TypeOK,
          TypeProcesos, TypeColas, TypeSem, TypeCPU, IORecibeCeroGenerica
  <2>5. TypeMutex' /\ TypeRecursos' /\ TypeConsola' BY <1>a, <1>7 DEF TypeOK, TypeMutex,
          TypeRecursos, TypeConsola, IORecibeCeroGenerica
  <2> QED BY <1>a, <1>7, <2>1, <2>2, <2>3, <2>4, <2>5 DEF Tipado, TypeOK
<1>8. CASE IOVuelve(i)
  <2>1. TypeHilos' BY <1>a, <1>8 DEF TypeHilos, TypeOK, IOVuelve, PasoIO, Hilos, Punteros, Pasos
  <2>2. TypeProcesos'
    <3>1. PICK v \in Vuelve(Tipo[i], mano_io[i].o) : CambiarEstado(mano_io[i].o,
            v.estado) /\ Empujar(v.cola, mano_io[i].o)
        BY <1>8 DEF IOVuelve
    <3>2. v.estado \in Estados /\ v.cola \in Colas BY VuelveTipo, <3>1
    <3>3. mano_io[i].o \in Objs BY <1>a, <1>8 DEF ManosOK, ManoIO, IOVuelve, PasoIO, Bloque
    <3> QED BY <1>a, <1>8, <3>1, <3>2, <3>3 DEF IOVuelve, TypeOK, TypeProcesos, CambiarEstado, PCB
  <2>3. TypeColas'
    <3>1. PICK v \in Vuelve(Tipo[i], mano_io[i].o) : CambiarEstado(mano_io[i].o,
            v.estado) /\ Empujar(v.cola, mano_io[i].o)
        BY <1>8 DEF IOVuelve
    <3>2. v.estado \in Estados /\ v.cola \in Colas BY VuelveTipo, <3>1
    <3>3. mano_io[i].o \in Objs BY <1>a, <1>8 DEF ManosOK, ManoIO, IOVuelve, PasoIO, Bloque
    <3> QED BY <1>a, <3>1, <3>2, <3>3 DEF TypeOK, TypeColas, Colas, Empujar
  <2>4. TypeSem' BY <1>a, <1>8 DEF TypeSem, TypeOK, IOVuelve, Post, Semaforos
  <2>5. TypeIO' BY <1>a, <1>8 DEF TypeIO, TypeOK, IOVuelve, PasoIO, TomaIO, PasosInterfaz
  <2>6. ManosOK' BY <1>a, <1>8 DEF ManosOK, IOVuelve, PasoIO, TomaIO, ManoConsola, ManoLargo,
          ManoSalida, ManoDespachador, ManoVuelta, ManoIO, VueltaTiene, TypeOK, TypeHilos, Hilos,
          TypeIO
  <2> QED BY <1>a, <1>8, <2>1, <2>2, <2>3, <2>4, <2>5, <2>6 DEF Tipado, TypeOK, TypeCPU,
          TypeMutex, TypeRecursos, TypeConsola, IOVuelve
<1>9. CASE IOFinaliza(i)
  <2>1. TypeHilos' BY <1>a, <1>9 DEF TypeHilos, TypeOK, IOFinaliza, PasoIO, Hilos, Punteros, Pasos
  <2>2. TypeColas' BY <1>a, <1>9 DEF TypeColas, TypeOK, IOFinaliza, Empujar, Colas, ManosOK,
          ManoIO, PasoIO, Bloque
  <2>3. TypeSem' BY <1>a, <1>9 DEF TypeSem, TypeOK, IOFinaliza, Post, Semaforos
  <2>4. TypeIO' BY <1>a, <1>9 DEF TypeIO, TypeOK, IOFinaliza, PasoIO, TomaIO, PasosInterfaz
  <2>5. ManosOK' BY <1>a, <1>9 DEF ManosOK, IOFinaliza, PasoIO, TomaIO, ManoConsola, ManoLargo,
          ManoSalida, ManoDespachador, ManoVuelta, ManoIO, VueltaTiene, TypeOK, TypeHilos, Hilos,
          TypeIO
  <2> QED BY <1>a, <1>9, <2>1, <2>2, <2>3, <2>4, <2>5 DEF Tipado, TypeOK, TypeProcesos, TypeCPU,
          TypeMutex, TypeRecursos, TypeConsola, IOFinaliza
<1>10. CASE IODevuelve(i)
  <2>1. TypeHilos' BY <1>a, <1>10 DEF TypeHilos, TypeOK, IODevuelve, PasoIO, Hilos, Punteros,
          Pasos
  <2>2. TypeIO' BY <1>a, <1>10 DEF TypeIO, TypeOK, IODevuelve, PasoIO, TomaIO, PasosInterfaz,
          ManosOK, ManoIO
  <2>3. ManosOK' BY <1>a, <1>10 DEF ManosOK, IODevuelve, PasoIO, TomaIO, ManoConsola, ManoLargo,
          ManoSalida, ManoDespachador, ManoVuelta, ManoIO, VueltaTiene, TypeOK, TypeHilos, Hilos,
          TypeIO
  <2>4. TypeProcesos' /\ TypeColas' /\ TypeSem' /\ TypeCPU' BY <1>a, <1>10 DEF TypeOK,
          TypeProcesos, TypeColas, TypeSem, TypeCPU, IODevuelve
  <2>5. TypeMutex' /\ TypeRecursos' /\ TypeConsola' BY <1>a, <1>10 DEF TypeOK, TypeMutex,
          TypeRecursos, TypeConsola, IODevuelve
  <2> QED BY <1>a, <1>10, <2>1, <2>2, <2>3, <2>4, <2>5 DEF Tipado, TypeOK
<1>11. CASE IOQuitaInterfaz(i)
  <2>1. TypeHilos' BY <1>a, <1>11 DEF TypeHilos, TypeOK, IOQuitaInterfaz, PasoIO, Hilos,
          Punteros, Pasos
  <2>2. TypeIO' BY <1>a, <1>11 DEF TypeIO, TypeOK, IOQuitaInterfaz, PasoIO, PasosInterfaz
  <2>3. ManosOK' BY <1>a, <1>11 DEF ManosOK, IOQuitaInterfaz, PasoIO, ManoConsola, ManoLargo,
          ManoSalida, ManoDespachador, ManoVuelta, ManoIO, VueltaTiene, TypeOK, TypeHilos, Hilos,
          TypeIO
  <2>4. TypeProcesos' /\ TypeColas' /\ TypeSem' /\ TypeCPU' BY <1>a, <1>11 DEF TypeOK,
          TypeProcesos, TypeColas, TypeSem, TypeCPU, IOQuitaInterfaz
  <2>5. TypeMutex' /\ TypeRecursos' /\ TypeConsola' BY <1>a, <1>11 DEF TypeOK, TypeMutex,
          TypeRecursos, TypeConsola, IOQuitaInterfaz
  <2> QED BY <1>a, <1>11, <2>1, <2>2, <2>3, <2>4, <2>5 DEF Tipado, TypeOK
<1>12. CASE IOVacia(i)
  <2>1. TypeHilos' BY <1>a, <1>12 DEF TypeHilos, TypeOK, IOVacia, PasoIO, Hilos, Punteros, Pasos,
          TypeColas, Colas
  <2>2. TypeProcesos' BY <1>a, <1>12 DEF TypeProcesos, TypeOK, IOVacia, CambiarEstado, PCB,
          Estados, ManosOK, ManoIO, PasoIO
  <2>3. TypeColas'
    <3>1. Head(bloq[i]) \in Bloque BY <1>a, <1>12, CabezaTipo DEF IOVacia, TypeOK, TypeIO
    <3> QED BY <1>a, <1>12, <3>1 DEF Bloque, TypeColas, TypeOK, IOVacia, Empujar, Colas, ManosOK,
            ManoIO, PasoIO
  <2>4. TypeSem' BY <1>a, <1>12 DEF TypeSem, TypeOK, IOVacia, Post, Semaforos
  <2>5. TypeIO' BY <1>a, <1>12 DEF TypeIO, TypeOK, IOVacia, PasoIO, PasosInterfaz
  <2>6. ManosOK' BY <1>a, <1>12 DEF ManosOK, IOVacia, PasoIO, ManoConsola, ManoLargo, ManoSalida,
          ManoDespachador, ManoVuelta, ManoIO, VueltaTiene, TypeOK, TypeHilos, Hilos, TypeColas,
          Colas, Punteros, TypeIO
  <2> QED BY <1>a, <1>12, <2>1, <2>2, <2>3, <2>4, <2>5, <2>6 DEF Tipado, TypeOK, TypeCPU,
          TypeMutex, TypeRecursos, TypeConsola, IOVacia
<1>13. CASE IOVaciaFin(i)
  <2>1. TypeHilos' BY <1>a, <1>13 DEF TypeHilos, TypeOK, IOVaciaFin, PasoIO, Hilos, Punteros,
          Pasos
  <2>2. TypeIO' BY <1>a, <1>13 DEF TypeIO, TypeOK, IOVaciaFin, PasoIO, PasosInterfaz
  <2>3. ManosOK' BY <1>a, <1>13 DEF ManosOK, IOVaciaFin, PasoIO, ManoConsola, ManoLargo,
          ManoSalida, ManoDespachador, ManoVuelta, ManoIO, VueltaTiene, TypeOK, TypeHilos, Hilos,
          TypeIO
  <2>4. TypeProcesos' /\ TypeColas' /\ TypeSem' /\ TypeCPU' BY <1>a, <1>13 DEF TypeOK,
          TypeProcesos, TypeColas, TypeSem, TypeCPU, IOVaciaFin
  <2>5. TypeMutex' /\ TypeRecursos' /\ TypeConsola' BY <1>a, <1>13 DEF TypeOK, TypeMutex,
          TypeRecursos, TypeConsola, IOVaciaFin
  <2> QED BY <1>a, <1>13, <2>1, <2>2, <2>3, <2>4, <2>5 DEF Tipado, TypeOK
<1>14. CASE IODestruye(i)
  <2>1. TypeHilos' BY <1>a, <1>14 DEF TypeHilos, TypeOK, IODestruye, PasoIO, Hilos, Punteros,
          Pasos
  <2>2. TypeIO' BY <1>a, <1>14 DEF TypeIO, TypeOK, IODestruye, PasoIO, PasosInterfaz
  <2>3. ManosOK' BY <1>a, <1>14 DEF ManosOK, IODestruye, PasoIO, ManoConsola, ManoLargo,
          ManoSalida, ManoDespachador, ManoVuelta, ManoIO, VueltaTiene, TypeOK, TypeHilos, Hilos,
          TypeIO
  <2>4. TypeProcesos' /\ TypeColas' /\ TypeSem' /\ TypeCPU' BY <1>a, <1>14 DEF TypeOK,
          TypeProcesos, TypeColas, TypeSem, TypeCPU, IODestruye
  <2>5. TypeMutex' /\ TypeRecursos' /\ TypeConsola' BY <1>a, <1>14 DEF TypeOK, TypeMutex,
          TypeRecursos, TypeConsola, IODestruye
  <2> QED BY <1>a, <1>14, <2>1, <2>2, <2>3, <2>4, <2>5 DEF Tipado, TypeOK
<1>15. CASE IOConfundeTipo(i) \/ IOVuelveLeeSinAsignar(i) \/ IOUsaLiberada(i)
  BY <1>15, QuietoTipado DEF IOConfundeTipo, IOVuelveLeeSinAsignar, IOUsaLiberada
<1> QED BY <1>1, <1>2, <1>3, <1>4, <1>5, <1>6, <1>7, <1>8, <1>9, <1>10, <1>11, <1>12, <1>13,
        <1>14, <1>15 DEF AtiendeInterfaz

-----------------------------------------------------------------------------
\* Every step of the kernel and of its peers keeps the types.
LEMMA NextTipado == ASSUME Tipado, [Next]_vars PROVE Tipado'
<1>1. CASE Next BY <1>1, LargoTipado, SalidaTipado, ParesTipado, ConsolaTipado, DespachadorTipado,
        VueltaDispatchTipado, VueltaRecursoTipado, InterfazTipado DEF Next
<1>2. CASE UNCHANGED vars BY <1>2, QuietoTipado
<1> QED BY <1>1, <1>2

\* Every list of the kernel holds PCB objects, every semaphore a natural number, and each
\* thread that got past its pop has a PCB in hand, for any algorithm, commands, interfaces
\* and number of processes (kernel.c, all of its threads).
THEOREM TiposCorrectos == Spec => []Tipado
<1>1. Init => Tipado BY InitTipado
<1>2. Tipado /\ [Next]_vars => Tipado' BY NextTipado
<1> QED BY <1>1, <1>2, PTL DEF Spec
=============================================================================
