----------------------------- MODULE CpuPruebas -----------------------------
(***************************************************************************)
(* Whatever the kernel sends and whenever it interrupts, the PCB of the    *)
(* CPU has one owner at a time and goes back once for each dispatch.       *)
(***************************************************************************)
EXTENDS Cpu, SequenceTheorems, TLAPS

-----------------------------------------------------------------------------
(* The inductive invariant.                                                *)

\* check_interrupt is entered only while the instruction owes a call.
Quedan == pc["ciclo"] \in {"check", "libera"} => checks > 0

\* The process is in the CPU and has not been sent back.
Tiene == sem_execute > 0 \/ CicloTiene

\* Without rare messages or instructions no thread stays in recv or accept, and each
\* instruction calls check_interrupt once.
Recorrido ==
    EnRegla => /\ pc["dispatch"] \in {"espera", "recibe"} /\ pc["ciclo"] # "recv"
               /\ pc["ciclo"] \in {"check", "libera"} => checks = 1

\* A PCB that left the kernel is on its way, in the CPU or back; only one is not back.
EnCamino ==
    EnRegla =>
        /\ Len(vueltas) <= enviados /\ enviados <= Len(vueltas) + 1
        /\ Tiene => enviados = Len(vueltas) + 1
        /\ \A k \in DOMAIN a_dispatch : a_dispatch[k].op # "cierre" =>
               /\ a_dispatch[k].pcb = enviados /\ enviados = Len(vueltas) + 1 /\ ~Tiene
               /\ \A j \in DOMAIN a_dispatch : a_dispatch[j].op # "cierre" => j = k

IInv == TypeOK /\ Quedan /\ FichaUnica /\ VueltasEnOrden /\ Recorrido /\ EnCamino

-----------------------------------------------------------------------------
(* Types.                                                                  *)

Despachos == [op: {"PCBBITO", "CODE_PCB", "cierre"}, pcb: Nat]
Vueltas == [pcb: Nat, motivo: {"EXITO", "EXIT_CONSOLA", "FIN_QUANTUM", "SIN_MEMORIA",
                               "SOLICITAR_INTERFAZ_GENERICA", "SOLICITAR_STDIN"}]

LEMMA SinPrimera ==
    ASSUME NEW S, NEW s \in Seq(S), s # <<>>
    PROVE  /\ Tail(s) \in Seq(S) /\ Head(s) \in S /\ Head(s) = s[1]
           /\ Len(s) \in Nat /\ Len(s) > 0 /\ DOMAIN s = 1..Len(s)
           /\ DOMAIN Tail(s) = 1..(Len(s) - 1)
           /\ \A k \in 1..(Len(s) - 1) : Tail(s)[k] = s[k + 1]
BY HeadTailProperties, EmptySeq, LenProperties

LEMMA ConUltima ==
    ASSUME NEW S, NEW s \in Seq(S), NEW e \in S
    PROVE  /\ Append(s, e) \in Seq(S)
           /\ Len(s) \in Nat /\ DOMAIN s = 1..Len(s)
           /\ Len(Append(s, e)) = Len(s) + 1 /\ DOMAIN Append(s, e) = 1..(Len(s) + 1)
           /\ Append(s, e)[Len(s) + 1] = e
           /\ \A k \in 1..Len(s) : Append(s, e)[k] = s[k]
BY AppendProperties, LenProperties

Motivos == {"EXITO", "EXIT_CONSOLA", "FIN_QUANTUM", "SIN_MEMORIA", "SOLICITAR_INTERFAZ_GENERICA",
            "SOLICITAR_STDIN"}

LEMMA EnviaTipo ==
    ASSUME TypeOK, NEW motivo \in Motivos, EnviaPCB(motivo)
    PROVE  vueltas' \in Seq(Vueltas)
<1>1. vueltas \in Seq(Vueltas) /\ [pcb |-> PCB, motivo |-> motivo] \in Vueltas
  BY DEF TypeOK, Vueltas, Motivos
<1> QED BY <1>1, ConUltima DEF EnviaPCB

LEMMA LeeTipo ==
    ASSUME TypeOK, NEW op, Lee(op)
    PROVE  a_dispatch' \in Seq(Despachos) /\ Head(a_dispatch).pcb \in Nat
<1>1. a_dispatch \in Seq(Despachos)
  BY DEF TypeOK, Despachos
<1>2. a_dispatch # <<>> /\ a_dispatch' = Tail(a_dispatch)
  BY DEF Lee
<1>3. Head(a_dispatch) \in Despachos /\ Tail(a_dispatch) \in Seq(Despachos)
  BY <1>1, <1>2, SinPrimera
<1> QED BY <1>2, <1>3 DEF Despachos

LEMMA InterrupcionLeeTipo ==
    ASSUME TypeOK, InterrupcionLee
    PROVE  a_interrupt' \in Seq({"FIN_QUANTUM", "EXIT_CONSOLA"}) /\ Head(a_interrupt) \in {"FIN_QUANTUM", "EXIT_CONSOLA"}
<1>1. a_interrupt \in Seq({"FIN_QUANTUM", "EXIT_CONSOLA"}) /\ a_interrupt # <<>> /\ a_interrupt' = Tail(a_interrupt)
  BY DEF TypeOK, InterrupcionLee
<1> QED BY <1>1, SinPrimera

LEMMA AnotaTipo == ASSUME TypeOK, NEW k, Anota(k) PROVE raras' \in Nat
  BY DEF TypeOK, Anota

\* Types, and check_interrupt owed while it is under way.
LEMMA Tipos == TypeOK /\ Quedan /\ [Next]_vars => TypeOK' /\ Quedan'
<1> SUFFICES ASSUME TypeOK, Quedan, [Next]_vars
             PROVE  TypeOK' /\ Quedan'
  OBVIOUS
<1>1. ASSUME NEW op \in OpDespacho, KernelDespacha(op) PROVE TypeOK' /\ Quedan'
  <2>1. a_dispatch' \in Seq(Despachos)
    <3>1. a_dispatch \in Seq(Despachos) /\ [op |-> op, pcb |-> enviados + 1] \in Despachos
      BY CpuOK DEF TypeOK, Despachos
    <3> QED BY <1>1, <3>1, ConUltima DEF KernelDespacha
  <2> QED BY <1>1, <2>1 DEF TypeOK, Quedan, KernelDespacha, semaforos, banderas, interr, Despachos
<1>2. ASSUME NEW motivo \in {"FIN_QUANTUM", "EXIT_CONSOLA"}, KernelInterrumpe(motivo)
      PROVE TypeOK' /\ Quedan'
  <2>1. a_interrupt' \in Seq({"FIN_QUANTUM", "EXIT_CONSOLA"})
    BY <1>2, ConUltima DEF TypeOK, KernelInterrumpe
  <2> QED BY <1>2, <2>1 DEF TypeOK, Quedan, KernelInterrumpe, semaforos, banderas, interr
<1>3. ASSUME KernelCierra PROVE TypeOK' /\ Quedan'
  <2>1. a_dispatch' \in Seq(Despachos)
    <3>1. a_dispatch \in Seq(Despachos) /\ [op |-> "cierre", pcb |-> 0] \in Despachos
      BY DEF TypeOK, Despachos
    <3> QED BY <1>3, <3>1, ConUltima DEF KernelCierra
  <2> QED BY <1>3, <2>1 DEF TypeOK, Quedan, KernelCierra, semaforos, banderas, interr, Despachos
<1>4. ASSUME Dispatch PROVE TypeOK' /\ Quedan'
  <2>1. CASE DispatchEspera
    BY <2>1 DEF TypeOK, Quedan, DispatchEspera, Paso, semaforos, banderas, interr, kernel
  <2>2. CASE DispatchRecibe
    <3>1. a_dispatch' \in Seq(Despachos) /\ PCB' \in Nat
      BY <2>2, LeeTipo DEF DispatchRecibe
    <3> QED BY <2>2, <3>1 DEF TypeOK, Quedan, DispatchRecibe, Paso, banderas, interr, Despachos
  <2>3. CASE DispatchDescarta
    <3>1. a_dispatch' \in Seq(Despachos) /\ raras' \in Nat
      BY <2>3, LeeTipo, AnotaTipo DEF DispatchDescarta
    <3> QED BY <2>3, <3>1 DEF TypeOK, Quedan, DispatchDescarta, Paso, semaforos, banderas, interr, Despachos
  <2>4. CASE DispatchAcepta
    BY <2>4 DEF TypeOK, Quedan, DispatchAcepta, Paso, semaforos, banderas, interr, kernel
  <2> QED BY <1>4, <2>1, <2>2, <2>3, <2>4 DEF Dispatch
<1>5. ASSUME Interrupcion PROVE TypeOK' /\ Quedan'
  <2>1. CASE InterrupcionAcepta
    BY <2>1 DEF TypeOK, Quedan, InterrupcionAcepta, Paso, semaforos, banderas, kernel
  <2>2. CASE InterrupcionEscribe
    <3>1. a_interrupt' \in Seq({"FIN_QUANTUM", "EXIT_CONSOLA"}) /\ interrupcion_actual' \in {"FIN_QUANTUM", "EXIT_CONSOLA"}
      BY <2>2, InterrupcionLeeTipo DEF InterrupcionEscribe
    <3> QED BY <2>2, <3>1 DEF TypeOK, Quedan, InterrupcionEscribe, Paso, semaforos, banderas
  <2>3. CASE InterrupcionIgnora
    <3>1. a_interrupt' \in Seq({"FIN_QUANTUM", "EXIT_CONSOLA"})
      BY <2>3, InterrupcionLeeTipo DEF InterrupcionIgnora
    <3> QED BY <2>3, <3>1 DEF TypeOK, Quedan, InterrupcionIgnora, Paso, semaforos, banderas, interr
  <2>4. CASE InterrupcionCae
    <3>1. a_interrupt' \in Seq({"FIN_QUANTUM", "EXIT_CONSOLA"})
      BY <2>4, InterrupcionLeeTipo DEF InterrupcionCae
    <3> QED BY <2>4, <3>1 DEF TypeOK, Quedan, InterrupcionCae, Muere, semaforos, banderas, interr
  <2> QED BY <1>5, <2>1, <2>2, <2>3, <2>4 DEF Interrupcion
<1>6. ASSUME CicloEspera PROVE TypeOK' /\ Quedan'
  BY <1>6 DEF TypeOK, Quedan, CicloEspera, Paso, semaforos, banderas, interr, kernel
<1>7. ASSUME Instruccion PROVE TypeOK' /\ Quedan'
  <2> USE DEF Ejecuta, Paso, Banderas, semaforos, banderas, interr, kernel, Motivos
  <2>1. CASE Registros
    <3>1. raras' \in Nat BY <2>1, AnotaTipo DEF Registros
    <3>8. Quedan' BY <2>1 DEF Registros, Quedan
    <3>9. TypeOK' BY <2>1, <3>1 DEF Registros, TypeOK
    <3> QED BY <3>8, <3>9
  <2>2. CASE Mov
    <3>1. raras' \in Nat BY <2>2, AnotaTipo DEF Mov
    <3>8. Quedan' BY <2>2 DEF Mov, Quedan
    <3>9. TypeOK' BY <2>2, <3>1 DEF Mov, TypeOK
    <3> QED BY <3>8, <3>9
  <2>3. CASE Resize
    <3>1. raras' \in Nat BY <2>3, AnotaTipo DEF Resize
    <3>2. vueltas' = vueltas \/ EnviaPCB("SIN_MEMORIA") BY <2>3 DEF Resize
    <3>3. vueltas' \in Seq(Vueltas) BY <3>2, EnviaTipo DEF TypeOK, Vueltas
    <3> QED BY <2>3, <3>1, <3>3 DEF Resize, TypeOK, Quedan, Vueltas
  <2>4. CASE CopyString
    <3>1. raras' \in Nat BY <2>4, AnotaTipo DEF CopyString
    <3> QED BY <2>4, <3>1 DEF CopyString, TypeOK, Quedan
  <2>5. CASE IoGenSleep
    <3>1. raras' \in Nat BY <2>5, AnotaTipo DEF IoGenSleep
    <3>2. vueltas' \in Seq(Vueltas) BY <2>5, EnviaTipo DEF IoGenSleep
    <3>8. Quedan' BY <2>5 DEF IoGenSleep, Quedan
    <3>4. es_exit' \in BOOLEAN /\ es_bloqueante' \in BOOLEAN BY <2>5 DEF IoGenSleep
    <3>5. pc' \in [{"dispatch", "ciclo", "interrupcion"} ->
                     {"espera", "recibe", "accept", "fetch", "recv", "check", "libera"}]
      BY <2>5 DEF IoGenSleep, TypeOK
    <3>6. checks' \in Nat /\ sem_recibir_pcb' \in Nat BY <2>5 DEF IoGenSleep, TypeOK
    <3>7. UNCHANGED <<vivo, sem_execute, PCB, interr, kernel>> BY <2>5 DEF IoGenSleep
    <3>9. TypeOK' BY <3>1, <3>2, <3>4, <3>5, <3>6, <3>7 DEF TypeOK, Vueltas
    <3> QED BY <3>8, <3>9
  <2>6. CASE IoStd
    <3>1. raras' \in Nat BY <2>6, AnotaTipo DEF IoStd
    <3>2. vueltas' = vueltas \/ EnviaPCB("SOLICITAR_STDIN") BY <2>6 DEF IoStd
    <3>3. vueltas' \in Seq(Vueltas) BY <3>2, EnviaTipo DEF TypeOK, Vueltas
    <3>8. Quedan' BY <2>6 DEF IoStd, Quedan
    <3>4. es_exit' \in BOOLEAN /\ es_bloqueante' \in BOOLEAN BY <2>6 DEF IoStd
    <3>5. pc' \in [{"dispatch", "ciclo", "interrupcion"} ->
                     {"espera", "recibe", "accept", "fetch", "recv", "check", "libera"}]
      BY <2>6 DEF IoStd, TypeOK
    <3>6. checks' \in Nat /\ sem_recibir_pcb' \in Nat BY <2>6 DEF IoStd, TypeOK
    <3>7. UNCHANGED <<vivo, sem_execute, PCB, interr, kernel>> BY <2>6 DEF IoStd
    <3>9. TypeOK' BY <3>1, <3>3, <3>4, <3>5, <3>6, <3>7 DEF TypeOK, Vueltas
    <3> QED BY <3>8, <3>9
  <2>7. CASE IoFs
    <3>1. raras' \in Nat BY <2>7, AnotaTipo DEF IoFs
    <3> QED BY <2>7, <3>1 DEF IoFs, TypeOK, Quedan
  <2>8. CASE Exit
    <3>1. raras' \in Nat BY <2>8, AnotaTipo DEF Exit
    <3>2. vueltas' \in Seq(Vueltas) BY <2>8, EnviaTipo DEF Exit
    <3> QED BY <2>8, <3>1, <3>2 DEF Exit, TypeOK, Quedan, Vueltas
  <2>9. CASE Otra
    <3>1. raras' \in Nat BY <2>9, AnotaTipo DEF Otra
    <3>2. vueltas' \in Seq(Vueltas) BY <2>9, EnviaTipo DEF Otra
    <3> QED BY <2>9, <3>1, <3>2 DEF Otra, TypeOK, Quedan, Vueltas
  <2>10. CASE EjecutaYMuere
    <3>1. raras' \in Nat BY <2>10, AnotaTipo DEF EjecutaYMuere
    <3> QED BY <2>10, <3>1 DEF EjecutaYMuere, Muere, TypeOK, Quedan
  <2> QED
    BY <1>7, <2>1, <2>2, <2>3, <2>4, <2>5, <2>6, <2>7, <2>8, <2>9, <2>10 DEF Instruccion
<1>8. ASSUME Check PROVE TypeOK' /\ Quedan'
  <2> USE DEF Paso, semaforos, banderas, interr, kernel, DespuesDelCheck
  <2>1. CASE CheckSinInterrupcion
    BY <2>1 DEF CheckSinInterrupcion, TypeOK, Quedan
  <2>2. CASE CheckDesaloja
    <3>1. vueltas' \in Seq(Vueltas) BY <2>2, EnviaTipo DEF CheckDesaloja, Motivos
    <3> QED BY <2>2, <3>1 DEF CheckDesaloja, TypeOK, Quedan, Vueltas
  <2>3. CASE CheckYaDesalojado
    BY <2>3 DEF CheckYaDesalojado, TypeOK, Quedan
  <2>4. CASE Libera
    BY <2>4 DEF Libera, TypeOK, Quedan
  <2> QED BY <1>8, <2>1, <2>2, <2>3, <2>4 DEF Check
<1>9. CASE UNCHANGED vars
  BY <1>9 DEF vars, TypeOK, Quedan, semaforos, banderas, interr, kernel
<1> QED
  BY <1>1, <1>2, <1>3, <1>4, <1>5, <1>6, <1>7, <1>8, <1>9 DEF Next, Kernel

-----------------------------------------------------------------------------
(* The token, step by step. Rare instructions and messages count in raras, *)
(* so EnRegla' leaves the steps below.                                     *)

Regulares ==
    \/ \E op \in OpDespacho : KernelDespacha(op)
    \/ \E motivo \in {"FIN_QUANTUM", "EXIT_CONSOLA"} : KernelInterrumpe(motivo)
    \/ KernelCierra
    \/ DispatchEspera \/ DispatchRecibe \/ DispatchAcepta
    \/ InterrupcionAcepta \/ InterrupcionEscribe \/ InterrupcionIgnora
    \/ CicloEspera \/ Registros \/ IoGenSleep \/ Exit \/ Otra \/ Check
    \/ UNCHANGED vars

LEMMA AnotaRara ==
    ASSUME TypeOK, NEW k, k \notin Conformes, Anota(k)
    PROVE  raras' # 0
  BY DEF TypeOK, Anota

LEMMA EnReglaPasos ==
    ASSUME TypeOK, [Next]_vars, EnRegla'
    PROVE  EnRegla /\ Regulares
<1>1. vivo' /\ raras' = 0
  BY DEF EnRegla
<1> USE DEF Conformes
<1>2. ASSUME Mov \/ Resize \/ CopyString \/ IoStd \/ IoFs PROVE FALSE
  <2>1. \E k \in {"mov", "resize", "copy_string", "io_std", "io_fs"} : Anota(k)
    BY <1>2 DEF Mov, Resize, CopyString, IoStd, IoFs, Ejecuta
  <2> QED BY <1>1, <2>1, AnotaRara
<1>3. ASSUME DispatchDescarta PROVE FALSE
  <2>1. \E k \in {"cierre", "CODE_PCB"} : Anota(k)
    BY <1>3 DEF DispatchDescarta
  <2> QED BY <1>1, <2>1, AnotaRara
<1>4. ASSUME EjecutaYMuere \/ InterrupcionCae PROVE FALSE
  BY <1>1, <1>4 DEF EjecutaYMuere, InterrupcionCae, Muere
<1>5. Regulares
  BY <1>2, <1>3, <1>4 DEF Next, Kernel, Dispatch, Interrupcion, Instruccion, Regulares
<1>6. vivo
  BY <1>5, <1>1 DEF Regulares, KernelDespacha, KernelInterrumpe, KernelCierra, DispatchEspera,
     DispatchRecibe, DispatchAcepta, InterrupcionAcepta, InterrupcionEscribe, InterrupcionIgnora,
     CicloEspera, Registros, IoGenSleep, Exit, Otra, Ejecuta, Check, CheckSinInterrupcion,
     CheckDesaloja, CheckYaDesalojado, Libera, Paso, vars
<1>7. raras = 0
  <2>1. ASSUME NEW k, Anota(k) PROVE raras = 0
    BY <1>1, <2>1 DEF Anota, TypeOK
  <2>2. raras' = raras \/ \E k \in {"registros", "io_gen_sleep", "exit", "otra"} : Anota(k)
    BY <1>5 DEF Regulares, KernelDespacha, KernelInterrumpe, KernelCierra, DispatchEspera,
       DispatchRecibe, DispatchAcepta, InterrupcionAcepta, InterrupcionEscribe, InterrupcionIgnora,
       CicloEspera, Registros, IoGenSleep, Exit, Otra, Ejecuta, Check, CheckSinInterrupcion,
       CheckDesaloja, CheckYaDesalojado, Libera, vars
  <2> QED BY <1>1, <2>1, <2>2
<1> QED BY <1>5, <1>6, <1>7 DEF EnRegla

-----------------------------------------------------------------------------
(* What a step does to the messages on their way.                          *)

LEMMA CaminoIgual ==
    ASSUME EnRegla, EnCamino, UNCHANGED <<a_dispatch, enviados>>,
           Len(vueltas') = Len(vueltas), Tiene' => Tiene
    PROVE  EnCamino'
  BY DEF EnCamino

\* The process leaves the CPU: nothing else was on its way.
LEMMA CaminoDevuelve ==
    ASSUME TypeOK, EnRegla, EnCamino, UNCHANGED <<a_dispatch, enviados>>,
           Len(vueltas') = Len(vueltas) + 1, Tiene, ~Tiene'
    PROVE  EnCamino'
<1>1. Len(vueltas) \in Nat
  BY DEF TypeOK
<1>2. enviados = Len(vueltas) + 1 /\ \A k \in DOMAIN a_dispatch : a_dispatch[k].op = "cierre"
  BY DEF EnCamino
<1> QED BY <1>1, <1>2 DEF EnCamino

LEMMA CaminoCierra ==
    ASSUME TypeOK, EnRegla, EnCamino, KernelCierra
    PROVE  EnCamino'
<1>1. a_dispatch \in Seq(Despachos) /\ [op |-> "cierre", pcb |-> 0] \in Despachos
  BY DEF TypeOK, Despachos
<1>2. /\ DOMAIN a_dispatch = 1..Len(a_dispatch) /\ Len(a_dispatch) \in Nat
      /\ DOMAIN a_dispatch' = 1..(Len(a_dispatch) + 1)
      /\ a_dispatch'[Len(a_dispatch) + 1].op = "cierre"
      /\ \A k \in 1..Len(a_dispatch) : a_dispatch'[k] = a_dispatch[k]
  BY <1>1, ConUltima DEF KernelCierra
<1>3. \A k \in DOMAIN a_dispatch' : a_dispatch'[k].op # "cierre" =>
          k \in DOMAIN a_dispatch /\ a_dispatch'[k] = a_dispatch[k]
  BY <1>2
<1>4. Tiene' = Tiene /\ UNCHANGED <<enviados, vueltas>>
  BY DEF KernelCierra, Tiene, CicloTiene, SigueEnCPU, semaforos, banderas
<1> QED BY <1>3, <1>4 DEF EnCamino

LEMMA CaminoDespacha ==
    ASSUME TypeOK, EnRegla, EnCamino, NEW op \in OpDespacho, KernelDespacha(op)
    PROVE  EnCamino'
<1>1. a_dispatch \in Seq(Despachos) /\ [op |-> op, pcb |-> enviados + 1] \in Despachos
  BY CpuOK DEF TypeOK, Despachos
<1>2. /\ DOMAIN a_dispatch = 1..Len(a_dispatch) /\ Len(a_dispatch) \in Nat
      /\ DOMAIN a_dispatch' = 1..(Len(a_dispatch) + 1)
      /\ a_dispatch'[Len(a_dispatch) + 1].pcb = enviados + 1
      /\ \A k \in 1..Len(a_dispatch) : a_dispatch'[k] = a_dispatch[k]
  BY <1>1, ConUltima DEF KernelDespacha
<1>3. /\ enviados \in Nat /\ Len(vueltas) \in Nat /\ enviados' = enviados + 1
      /\ Len(vueltas) >= enviados /\ vueltas' = vueltas
  BY DEF TypeOK, KernelDespacha
<1>4. Tiene' = Tiene
  BY DEF KernelDespacha, Tiene, CicloTiene, SigueEnCPU, semaforos, banderas
<1>5. enviados = Len(vueltas) /\ ~Tiene /\ \A k \in DOMAIN a_dispatch : a_dispatch[k].op = "cierre"
  BY <1>3 DEF EnCamino
<1>6. \A k \in DOMAIN a_dispatch' : a_dispatch'[k].op # "cierre" => k = Len(a_dispatch) + 1
  BY <1>2, <1>5
<1> QED BY <1>2, <1>3, <1>4, <1>5, <1>6 DEF EnCamino

\* The process enters the CPU: it was the only one on its way.
LEMMA CaminoRecibe ==
    ASSUME TypeOK, EnRegla, EnCamino, DispatchRecibe, ~Tiene
    PROVE  EnCamino' /\ PCB' = Len(vueltas) + 1
<1>1. a_dispatch \in Seq(Despachos) /\ a_dispatch # <<>> /\ a_dispatch' = Tail(a_dispatch)
      /\ Head(a_dispatch).op = "PCBBITO" /\ PCB' = Head(a_dispatch).pcb
  BY DEF TypeOK, Despachos, DispatchRecibe, Lee
<1>2. /\ Head(a_dispatch) = a_dispatch[1] /\ Len(a_dispatch) \in Nat /\ Len(a_dispatch) > 0
      /\ DOMAIN a_dispatch = 1..Len(a_dispatch)
      /\ DOMAIN a_dispatch' = 1..(Len(a_dispatch) - 1)
      /\ \A k \in 1..(Len(a_dispatch) - 1) : a_dispatch'[k] = a_dispatch[k + 1]
  BY <1>1, SinPrimera
<1>3. 1 \in DOMAIN a_dispatch
  BY <1>2
<1>4. /\ PCB' = enviados /\ enviados = Len(vueltas) + 1
      /\ \A j \in DOMAIN a_dispatch : a_dispatch[j].op # "cierre" => j = 1
  BY <1>1, <1>2, <1>3 DEF EnCamino
<1>5. \A k \in DOMAIN a_dispatch' : k + 1 \in DOMAIN a_dispatch /\ k + 1 # 1
  BY <1>2
<1>6. \A k \in DOMAIN a_dispatch' : a_dispatch'[k].op = "cierre"
  BY <1>2, <1>4, <1>5
<1>7. enviados' = enviados /\ vueltas' = vueltas /\ Len(vueltas) \in Nat
  BY DEF DispatchRecibe, TypeOK
<1> QED BY <1>4, <1>6, <1>7 DEF EnCamino

\* And to the PCBs that are back.
LEMMA OrdenIgual ==
    ASSUME VueltasEnOrden, EnRegla, vueltas' = vueltas, PCB' = PCB, Tiene' => Tiene
    PROVE  VueltasEnOrden'
  BY DEF VueltasEnOrden, Tiene

LEMMA OrdenDevuelve ==
    ASSUME TypeOK, VueltasEnOrden, EnRegla, NEW motivo \in Motivos, EnviaPCB(motivo), Tiene, ~Tiene'
    PROVE  VueltasEnOrden' /\ Len(vueltas') = Len(vueltas) + 1
<1>1. vueltas \in Seq(Vueltas) /\ [pcb |-> PCB, motivo |-> motivo] \in Vueltas
  BY DEF TypeOK, Vueltas, Motivos
<1>2. /\ DOMAIN vueltas = 1..Len(vueltas) /\ Len(vueltas) \in Nat
      /\ DOMAIN vueltas' = 1..(Len(vueltas) + 1) /\ Len(vueltas') = Len(vueltas) + 1
      /\ vueltas'[Len(vueltas) + 1].pcb = PCB
      /\ \A k \in 1..Len(vueltas) : vueltas'[k] = vueltas[k]
  BY <1>1, ConUltima DEF EnviaPCB
<1>3. PCB = Len(vueltas) + 1 /\ \A k \in DOMAIN vueltas : vueltas[k].pcb = k
  BY DEF VueltasEnOrden, Tiene
<1>4. \A k \in DOMAIN vueltas' : vueltas'[k].pcb = k
  BY <1>2, <1>3
<1> QED BY <1>2, <1>4 DEF VueltasEnOrden, Tiene

-----------------------------------------------------------------------------
(* Every regular step keeps the token, the order and the way.              *)

Ficha == sem_recibir_pcb + sem_execute + Uno(pc["dispatch"] = "recibe") + Uno(CicloTiene)

\* A step of TurnoCPU, or none.
Turna ==
    \/ (Tiene' <=> Tiene) /\ Len(vueltas') = Len(vueltas)
    \/ ~Tiene /\ Tiene' /\ Len(vueltas') = Len(vueltas)
    \/ Tiene /\ ~Tiene' /\ Len(vueltas') = Len(vueltas) + 1

Sigue == FichaUnica' /\ VueltasEnOrden' /\ Recorrido' /\ EnCamino' /\ Turna

\* The token stays on one side of the CPU: nothing that VueltasEnOrden or EnCamino see changes.
LEMMA FichaQuieta ==
    ASSUME IInv, EnRegla, UNCHANGED <<a_dispatch, enviados, vueltas, PCB>>,
           Ficha' = 1, Tiene' <=> Tiene, Recorrido'
    PROVE  Sigue
<1>1. FichaUnica'
  BY DEF FichaUnica, Ficha
<1>2. EnCamino'
  BY CaminoIgual DEF IInv
<1>3. VueltasEnOrden'
  BY OrdenIgual DEF IInv
<1> QED BY <1>1, <1>2, <1>3 DEF Sigue, Turna

\* The process is sent back and the token goes to sem_recibir_pcb.
LEMMA FichaVuelve ==
    ASSUME IInv, EnRegla, UNCHANGED <<a_dispatch, enviados>>, NEW motivo \in Motivos, EnviaPCB(motivo),
           Ficha' = 1, Tiene, ~Tiene', Recorrido'
    PROVE  Sigue
<1>1. FichaUnica'
  BY DEF FichaUnica, Ficha
<1>2. VueltasEnOrden' /\ Len(vueltas') = Len(vueltas) + 1
  BY OrdenDevuelve DEF IInv
<1>3. EnCamino'
  BY <1>2, CaminoDevuelve DEF IInv
<1> QED BY <1>1, <1>2, <1>3 DEF Sigue, Turna

LEMMA PasosRegulares ==
    ASSUME IInv, TypeOK', EnRegla, EnRegla', Regulares
    PROVE  Sigue
<1> USE DEF Paso, semaforos, banderas, interr, kernel
<1>1. /\ TypeOK /\ Ficha = 1
      /\ pc["dispatch"] \in {"espera", "recibe"} /\ pc["ciclo"] # "recv"
      /\ pc["ciclo"] \in {"check", "libera"} => checks = 1
  BY DEF IInv, FichaUnica, Recorrido, Ficha
<1>2. ASSUME NEW op \in OpDespacho, KernelDespacha(op) PROVE Sigue
  <2>1. FichaUnica' /\ VueltasEnOrden' /\ Recorrido'
    BY <1>1, <1>2 DEF KernelDespacha, FichaUnica, VueltasEnOrden, Recorrido, Ficha, CicloTiene,
       SigueEnCPU, IInv, Tiene
  <2>2. EnCamino'
    BY <1>2, CaminoDespacha DEF IInv
  <2>3. Turna
    BY <1>2 DEF KernelDespacha, Turna, Tiene, CicloTiene, SigueEnCPU
  <2> QED BY <2>1, <2>2, <2>3 DEF Sigue
<1>3. ASSUME KernelCierra PROVE Sigue
  <2>1. FichaUnica' /\ VueltasEnOrden' /\ Recorrido'
    BY <1>1, <1>3 DEF KernelCierra, FichaUnica, VueltasEnOrden, Recorrido, Ficha, CicloTiene,
       SigueEnCPU, IInv, Tiene
  <2>2. EnCamino'
    BY <1>3, CaminoCierra DEF IInv
  <2>3. Turna
    BY <1>3 DEF KernelCierra, Turna, Tiene, CicloTiene, SigueEnCPU
  <2> QED BY <2>1, <2>2, <2>3 DEF Sigue
\* Nothing the token depends on.
<1>4. ASSUME UNCHANGED <<pc, sem_recibir_pcb, sem_execute, es_exit, es_bloqueante, checks,
                         a_dispatch, enviados, vueltas, PCB>>
      PROVE Sigue
  BY <1>1, <1>4, FichaQuieta DEF Ficha, Tiene, CicloTiene, SigueEnCPU, Recorrido
<1>5. ASSUME NEW motivo \in {"FIN_QUANTUM", "EXIT_CONSOLA"}, KernelInterrumpe(motivo) PROVE Sigue
  BY <1>4, <1>5 DEF KernelInterrumpe
<1>6. ASSUME InterrupcionEscribe \/ InterrupcionIgnora \/ InterrupcionAcepta PROVE Sigue
  <2>1. /\ pc'["dispatch"] = pc["dispatch"] /\ pc'["ciclo"] = pc["ciclo"]
        /\ UNCHANGED <<sem_recibir_pcb, sem_execute, es_exit, es_bloqueante, checks,
                        a_dispatch, enviados, vueltas, PCB>>
    BY <1>1, <1>6 DEF InterrupcionEscribe, InterrupcionIgnora, InterrupcionAcepta, TypeOK
  <2> QED BY <1>1, <2>1, FichaQuieta DEF Ficha, Tiene, CicloTiene, SigueEnCPU, Recorrido
<1>7. ASSUME DispatchEspera PROVE Sigue
  <2>1. /\ pc["dispatch"] = "espera" /\ pc'["dispatch"] = "recibe" /\ pc'["ciclo"] = pc["ciclo"]
        /\ sem_recibir_pcb' = sem_recibir_pcb - 1
        /\ UNCHANGED <<sem_execute, es_exit, es_bloqueante, checks, a_dispatch, enviados, vueltas, PCB>>
    BY <1>1, <1>7 DEF DispatchEspera, TypeOK
  <2>2. Tiene' = Tiene /\ CicloTiene' = CicloTiene
    BY <2>1 DEF Tiene, CicloTiene, SigueEnCPU
  <2>3. Ficha' = 1
    BY <1>1, <2>1, <2>2 DEF Ficha, Uno, TypeOK
  <2> QED BY <1>1, <2>1, <2>2, <2>3, FichaQuieta DEF Recorrido
<1>8. ASSUME DispatchRecibe PROVE Sigue
  <2>1. /\ pc["dispatch"] = "recibe" /\ pc'["dispatch"] = "espera" /\ pc'["ciclo"] = pc["ciclo"]
        /\ sem_execute' = sem_execute + 1
        /\ UNCHANGED <<sem_recibir_pcb, es_exit, es_bloqueante, checks, enviados, vueltas>>
    BY <1>1, <1>8 DEF DispatchRecibe, TypeOK
  <2>2. CicloTiene' = CicloTiene
    BY <2>1 DEF CicloTiene, SigueEnCPU
  <2>3. Ficha' = 1
    BY <1>1, <2>1, <2>2 DEF Ficha, Uno, TypeOK
  <2>4. ~Tiene
    BY <1>1, <2>1 DEF Ficha, Uno, TypeOK, Tiene
  <2>5. EnCamino' /\ PCB' = Len(vueltas) + 1
    BY <1>1, <1>8, <2>4, CaminoRecibe DEF IInv
  <2>6. FichaUnica' /\ Recorrido'
    BY <1>1, <2>1, <2>3 DEF FichaUnica, Ficha, Recorrido
  <2>7. VueltasEnOrden'
    BY <2>1, <2>5 DEF VueltasEnOrden, IInv
  <2>8. Turna
    BY <2>1, <2>4, <1>1 DEF Turna, Tiene, TypeOK
  <2> QED BY <2>5, <2>6, <2>7, <2>8 DEF Sigue
<1>9. ASSUME DispatchAcepta PROVE Sigue
  BY <1>1, <1>9 DEF DispatchAcepta
<1>10. ASSUME CicloEspera PROVE Sigue
  <2>1. /\ pc'["dispatch"] = pc["dispatch"] /\ pc["ciclo"] = "espera" /\ pc'["ciclo"] = "fetch"
        /\ sem_execute > 0 /\ sem_execute' = sem_execute - 1
        /\ UNCHANGED <<sem_recibir_pcb, es_exit, es_bloqueante, checks, a_dispatch, enviados, vueltas, PCB>>
    BY <1>1, <1>10 DEF CicloEspera, TypeOK
  <2>2. Tiene /\ ~CicloTiene /\ CicloTiene'
    BY <2>1 DEF Tiene, CicloTiene
  <2>3. Ficha' = 1
    BY <1>1, <2>1, <2>2 DEF Ficha, Uno, TypeOK
  <2>4. Tiene' <=> Tiene
    BY <2>2 DEF Tiene
  <2> QED BY <1>1, <2>1, <2>3, <2>4, FichaQuieta DEF Recorrido
<1>11. ASSUME Registros PROVE Sigue
  <2>1. /\ pc'["dispatch"] = pc["dispatch"] /\ pc["ciclo"] = "fetch" /\ pc'["ciclo"] = "check"
        /\ es_exit' = FALSE /\ es_bloqueante' = FALSE /\ checks' = 1
        /\ UNCHANGED <<sem_recibir_pcb, sem_execute, a_dispatch, enviados, vueltas, PCB>>
    BY <1>1, <1>11 DEF Registros, Ejecuta, Banderas, TypeOK
  <2>2. CicloTiene /\ CicloTiene' /\ Tiene
    BY <2>1 DEF CicloTiene, SigueEnCPU, Tiene
  <2>3. Ficha' = 1
    BY <1>1, <2>1, <2>2 DEF Ficha, Uno, TypeOK
  <2>4. Tiene' <=> Tiene
    BY <2>2 DEF Tiene
  <2> QED BY <1>1, <2>1, <2>3, <2>4, FichaQuieta DEF Recorrido
<1>12. ASSUME IoGenSleep \/ Exit PROVE Sigue
  <2>1. /\ pc'["dispatch"] = pc["dispatch"] /\ pc["ciclo"] = "fetch" /\ pc'["ciclo"] = "check"
        /\ checks' = 1 /\ sem_recibir_pcb' = sem_recibir_pcb + 1
        /\ UNCHANGED <<sem_execute, a_dispatch, enviados, PCB>>
    BY <1>1, <1>12 DEF IoGenSleep, Exit, Ejecuta, TypeOK
  <2>2. CicloTiene /\ ~CicloTiene' /\ Tiene
    BY <1>12, <2>1 DEF IoGenSleep, Exit, Banderas, CicloTiene, SigueEnCPU, Tiene
  <2>3. Ficha' = 1 /\ sem_execute = 0
    BY <1>1, <2>1, <2>2 DEF Ficha, Uno, TypeOK
  <2>4. ~Tiene'
    BY <2>1, <2>2, <2>3 DEF Tiene
  <2>5. \E motivo \in Motivos : EnviaPCB(motivo)
    BY <1>12 DEF IoGenSleep, Exit, Motivos
  <2> QED BY <1>1, <2>1, <2>2, <2>3, <2>4, <2>5, FichaVuelve DEF Recorrido
<1>13. ASSUME Otra PROVE Sigue
  <2>1. /\ pc'["dispatch"] = pc["dispatch"] /\ pc["ciclo"] = "fetch" /\ pc'["ciclo"] = "espera"
        /\ sem_recibir_pcb' = sem_recibir_pcb + 1
        /\ UNCHANGED <<sem_execute, a_dispatch, enviados, PCB>>
    BY <1>1, <1>13 DEF Otra, Ejecuta, TypeOK
  <2>2. CicloTiene /\ ~CicloTiene' /\ Tiene
    BY <2>1 DEF CicloTiene, Tiene
  <2>3. Ficha' = 1 /\ sem_execute = 0
    BY <1>1, <2>1, <2>2 DEF Ficha, Uno, TypeOK
  <2>4. ~Tiene'
    BY <2>1, <2>2, <2>3 DEF Tiene
  <2>5. \E motivo \in Motivos : EnviaPCB(motivo)
    BY <1>13 DEF Otra, Motivos
  <2> QED BY <1>1, <2>1, <2>2, <2>3, <2>4, <2>5, FichaVuelve DEF Recorrido
<1>14. ASSUME CheckSinInterrupcion PROVE Sigue
  <2>1. /\ pc'["dispatch"] = pc["dispatch"] /\ pc["ciclo"] = "check" /\ pc'["ciclo"] = "espera"
        /\ sem_execute' = IF SigueEnCPU THEN sem_execute + 1 ELSE sem_execute
        /\ UNCHANGED <<sem_recibir_pcb, a_dispatch, enviados, vueltas, PCB>>
    BY <1>1, <1>14 DEF CheckSinInterrupcion, DespuesDelCheck, TypeOK
  <2>2. ~CicloTiene' /\ (CicloTiene <=> SigueEnCPU)
    BY <2>1 DEF CicloTiene
  <2>3. Ficha' = 1
    BY <1>1, <2>1, <2>2 DEF Ficha, Uno, TypeOK
  <2>4. Tiene' <=> Tiene
    <3>1. CASE SigueEnCPU
      BY <1>1, <2>1, <2>2, <3>1 DEF Tiene, TypeOK
    <3>2. CASE ~SigueEnCPU
      BY <2>1, <2>2, <3>2 DEF Tiene
    <3> QED BY <3>1, <3>2
  <2> QED BY <1>1, <2>1, <2>3, <2>4, FichaQuieta DEF Recorrido
<1>15. ASSUME CheckDesaloja PROVE Sigue
  <2>1. /\ pc'["dispatch"] = pc["dispatch"] /\ pc["ciclo"] = "check" /\ pc'["ciclo"] = "libera"
        /\ sem_recibir_pcb' = sem_recibir_pcb + 1 /\ SigueEnCPU
        /\ UNCHANGED <<sem_execute, checks, a_dispatch, enviados, PCB>>
    BY <1>1, <1>15 DEF CheckDesaloja, TypeOK
  <2>2. CicloTiene /\ ~CicloTiene' /\ Tiene
    BY <2>1 DEF CicloTiene, Tiene
  <2>3. Ficha' = 1 /\ sem_execute = 0
    BY <1>1, <2>1, <2>2 DEF Ficha, Uno, TypeOK
  <2>4. ~Tiene'
    BY <2>1, <2>2, <2>3 DEF Tiene
  <2>5. \E motivo \in Motivos : EnviaPCB(motivo)
    BY <1>15 DEF CheckDesaloja, Motivos
  <2> QED BY <1>1, <2>1, <2>2, <2>3, <2>4, <2>5, FichaVuelve DEF Recorrido
<1>16. ASSUME CheckYaDesalojado \/ Libera PROVE Sigue
  <2>1. /\ pc'["dispatch"] = pc["dispatch"] /\ pc'["ciclo"] \in {"libera", "espera"}
        /\ pc'["ciclo"] = "libera" => checks' = 1
        /\ UNCHANGED <<sem_recibir_pcb, sem_execute, a_dispatch, enviados, vueltas, PCB>>
    BY <1>1, <1>16 DEF CheckYaDesalojado, Libera, DespuesDelCheck, TypeOK
  <2>2. ~CicloTiene' /\ ~CicloTiene
    BY <1>16, <2>1 DEF CheckYaDesalojado, Libera, CicloTiene
  <2>3. Ficha' = 1
    BY <1>1, <2>1, <2>2 DEF Ficha, Uno, TypeOK
  <2>4. Tiene' <=> Tiene
    BY <2>1, <2>2 DEF Tiene
  <2> QED BY <1>1, <2>1, <2>3, <2>4, FichaQuieta DEF Recorrido
<1> QED
  BY <1>2, <1>3, <1>4, <1>5, <1>6, <1>7, <1>8, <1>9, <1>10, <1>11, <1>12, <1>13, <1>14, <1>15,
     <1>16 DEF Regulares, Check, vars

-----------------------------------------------------------------------------
(* The theorems.                                                           *)

LEMMA AlEmpezar == Init => IInv
<1> SUFFICES ASSUME Init PROVE IInv
  OBVIOUS
<1>1. ~Tiene /\ ~CicloTiene /\ pc["dispatch"] = "espera" /\ pc["ciclo"] = "espera"
  BY DEF Init, Tiene, CicloTiene
<1>2. TypeOK
  <2>1. pc \in [{"dispatch", "ciclo", "interrupcion"} ->
                   {"espera", "recibe", "accept", "fetch", "recv", "check", "libera"}]
    BY DEF Init
  <2>2. a_dispatch \in Seq(Despachos) /\ vueltas \in Seq(Vueltas)
    BY EmptySeq DEF Init
  <2>3. a_interrupt \in Seq({"FIN_QUANTUM", "EXIT_CONSOLA"})
    BY EmptySeq DEF Init
  <2>4. vivo \in BOOLEAN /\ es_exit \in BOOLEAN /\ es_bloqueante \in BOOLEAN
        /\ hay_interrupcion_x_consola \in BOOLEAN
    BY Zenon DEF Init
  <2>5. /\ interrupcion_actual \in {"NULL", "basura", "FIN_QUANTUM", "EXIT_CONSOLA"}
        /\ sem_recibir_pcb \in Nat /\ sem_execute \in Nat /\ PCB \in Nat /\ checks \in Nat
        /\ enviados \in Nat /\ interrumpidas \in Nat /\ cierres \in Nat /\ raras \in Nat
    BY DEF Init
  <2> QED BY <2>1, <2>2, <2>3, <2>4, <2>5 DEF TypeOK, Despachos, Vueltas
<1>3. FichaUnica
  BY <1>1 DEF Init, FichaUnica, Uno
<1>4. VueltasEnOrden /\ EnCamino /\ Recorrido /\ Quedan
  BY <1>1 DEF Init, VueltasEnOrden, EnCamino, Recorrido, Quedan, Tiene
<1> QED BY <1>2, <1>3, <1>4 DEF IInv

LEMMA Paso1 ==
    ASSUME IInv, [Next]_vars
    PROVE  IInv' /\ (EnRegla' => EnRegla /\ Turna)
<1>1. TypeOK' /\ Quedan'
  BY Tipos DEF IInv
<1>2. ASSUME EnRegla' PROVE EnRegla /\ Sigue
  <2>1. EnRegla /\ Regulares
    BY <1>2, EnReglaPasos DEF IInv
  <2> QED BY <1>1, <1>2, <2>1, PasosRegulares
<1>3. ASSUME ~EnRegla' PROVE IInv'
  BY <1>1, <1>3 DEF IInv, FichaUnica, VueltasEnOrden, Recorrido, EnCamino
<1> QED BY <1>1, <1>2, <1>3 DEF IInv, Sigue

LEMMA Siempre == Spec => []IInv
<1>1. IInv /\ [Next]_vars => IInv'
  BY Paso1
<1> QED BY AlEmpezar, <1>1, PTL DEF Spec

\* The variables keep their types, the semaphores among them: no sem_wait goes below zero.
THEOREM CpuTipos == Spec => []TypeOK
<1>1. IInv => TypeOK
  BY DEF IInv
<1> QED BY Siempre, <1>1, PTL

\* However the three threads interleave, and whenever interruptions arrive, the PCB has
\* exactly one owner, while only instructions that post once have run.
THEOREM FichaSiempreUnica == Spec => []FichaUnica
<1>1. IInv => FichaUnica
  BY DEF IInv
<1> QED BY Siempre, <1>1, PTL

\* And the PCBs go back in order, each once, none overwritten while it was in the CPU.
THEOREM VueltasSiempreEnOrden == Spec => []VueltasEnOrden
<1>1. IInv => VueltasEnOrden
  BY DEF IInv
<1> QED BY Siempre, <1>1, PTL

\* The CPU implements the turn that the kernel's short-term scheduler is built on.
THEOREM CpuCumpleElTurno == Spec => CumpleElTurno
<1> DEFINE t == IF ~EnRegla THEN "fuera" ELSE IF sem_execute > 0 \/ CicloTiene THEN "ocupada" ELSE "libre"
<1>1. Init => Turno!Init
  <2> SUFFICES ASSUME Init PROVE Turno!Init
    OBVIOUS
  <2>1. EnRegla /\ sem_execute = 0 /\ ~CicloTiene
    BY DEF Init, EnRegla, CicloTiene
  <2>2. Len(vueltas) = 0
    BY DEF Init
  <2> QED BY <2>1, <2>2 DEF Turno!Init
<1>2. IInv /\ [Next]_vars => [Turno!Next]_<<t, Len(vueltas)>>
  <2> SUFFICES ASSUME IInv, [Next]_vars
               PROVE  [Turno!Next]_<<t, Len(vueltas)>>
    OBVIOUS
  <2>1. EnRegla' => EnRegla /\ Turna
    BY Paso1
  <2>2. CASE ~EnRegla'
    BY <2>2 DEF Turno!Next, Turno!Falla
  <2>3. CASE EnRegla'
    BY <2>1, <2>3 DEF Turna, Tiene, Turno!Next, Turno!Toma, Turno!Devuelve
  <2> QED BY <2>2, <2>3
<1> QED BY Siempre, <1>1, <1>2, PTL DEF Spec, CumpleElTurno, Turno!Spec
=============================================================================
