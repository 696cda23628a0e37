--------------------------- MODULE MemoriaPruebas ---------------------------
(***************************************************************************)
(* Theorems about Memoria: its types, the frames and the translations.     *)
(* EnCurso is what the two threads know of the request each has in hand;   *)
(* with it the types are inductive, and with both the frames are.          *)
(***************************************************************************)
EXTENDS Memoria, FiniteSetTheorems, SequenceTheorems, TLAPS

USE DEF pedido

\* The requests in hand: about two different processes; no more pages to take out than
\* the table has; no more frames to look at than the count has seen free.
EnCurso ==
    /\ \A h \in {"kernel", "cpu"} : pc[h] # "recv" => pid[h] \in Pids
    /\ pc["kernel"] # "recv" /\ pc["cpu"] # "recv" => pid["kernel"] # pid["cpu"]
    /\ pc["cpu"] = "acorta" => resta <= Len(tabla[pid["cpu"]])
    /\ pc["cpu"] \in {"toma_mutex", "asigna"} => resta <= CantMarcos - 1

Bien == TypeOK /\ EnCurso
MismasFilas == UNCHANGED <<tabla, frames>>

-----------------------------------------------------------------------------
(* Rows.                                                                   *)

\* What Tail, SubSeq and RemoveAt leave of a sequence.
LEMMA SinPrimera ==
    ASSUME NEW S, NEW s \in Seq(S), s # <<>>
    PROVE  /\ Head(s) = s[1] /\ 1 \in DOMAIN s /\ Tail(s) \in Seq(S)
           /\ Len(Tail(s)) = Len(s) - 1
           /\ \A n \in DOMAIN Tail(s) : n + 1 \in DOMAIN s /\ Tail(s)[n] = s[n + 1]
           /\ \A n \in DOMAIN s \ {1} : n - 1 \in DOMAIN Tail(s) /\ Tail(s)[n - 1] = s[n]
  OBVIOUS

LEMMA SinUltima ==
    ASSUME NEW S, NEW s \in Seq(S), Len(s) > 0
    PROVE  LET t == SubSeq(s, 1, Len(s) - 1) IN
           /\ Len(s) \in DOMAIN s /\ t \in Seq(S) /\ Len(t) = Len(s) - 1
           /\ \A n \in DOMAIN t : n \in DOMAIN s \ {Len(s)} /\ t[n] = s[n]
           /\ \A n \in DOMAIN s \ {Len(s)} : n \in DOMAIN t
<1> DEFINE t == SubSeq(s, 1, Len(s) - 1)
<1>1. Len(s) - 1 \in Nat /\ DOMAIN s = 1..Len(s) OBVIOUS
<1>2. /\ t \in Seq(S) /\ Len(t) = Len(s) - 1
      /\ \A n \in 1..(Len(s) - 1) : t[n] = s[n]
  BY <1>1, SubSeqProperties
<1>3. DOMAIN t = 1..(Len(s) - 1) BY <1>2
<1> HIDE DEF t
<1>4. /\ Len(s) \in DOMAIN s /\ t \in Seq(S) /\ Len(t) = Len(s) - 1
      /\ \A n \in DOMAIN t : n \in DOMAIN s \ {Len(s)} /\ t[n] = s[n]
      /\ \A n \in DOMAIN s \ {Len(s)} : n \in DOMAIN t
  BY <1>1, <1>2, <1>3
<1> QED BY <1>4 DEF t

LEMMA SinUna ==
    ASSUME NEW S, NEW s \in Seq(S), NEW n \in DOMAIN s
    PROVE  RemoveAt(s, n) \in Seq(S)
  BY DEF RemoveAt

\* cantidad_de_marcos_disponibles counts one frame less than there are.
LEMMA CuentaAcotada == Cardinality(MarcosDisponibles) <= CantMarcos - 1
<1> DEFINE Vistos == 0..(CantMarcos - 2)
<1>1. IsFiniteSet(Vistos) /\ Cardinality(Vistos) = CantMarcos - 1 BY FS_Interval, MemoriaOK
<1>2. MarcosDisponibles \in SUBSET Vistos BY DEF MarcosDisponibles
<1> QED BY <1>1, <1>2, FS_Subset, FS_CardinalityType, MemoriaOK

-----------------------------------------------------------------------------
(* Types and requests in hand.                                             *)

LEMMA BienInicial == Init => Bien
  BY MemoriaOK DEF Init, Bien, TypeOK, EnCurso, PasosKernel, PasosCPU

USE DEF Bien, TypeOK, EnCurso, PasosKernel, PasosCPU, Paso, Sirve, SinPedido

LEMMA BienKernel ==
    ASSUME Bien, NEW p \in Pids, IniciarProceso(p) \/ FinalizarProceso(p) \/ Finaliza
    PROVE  Bien'
<1>1. CASE IniciarProceso(p) BY <1>1 DEF IniciarProceso
<1>2. CASE FinalizarProceso(p) BY <1>2 DEF FinalizarProceso
<1>3. CASE Retira
  <2>1. lista' \in Seq(Pids) BY <1>3, SinUna DEF Retira
  <2> QED BY <1>3, <2>1 DEF Retira
<1>4. CASE LiberaFila
  <2> DEFINE q == pid["kernel"]
  <2>1. q \in Pids /\ tabla[q] \in Seq(Fila) /\ tabla[q] # <<>> BY <1>4 DEF LiberaFila
  <2>2. tabla' \in [Pids -> Seq(Fila)] BY <1>4, <2>1, SinPrimera DEF LiberaFila
  <2>3. pc["cpu"] # "recv" => tabla'[pid["cpu"]] = tabla[pid["cpu"]] BY <1>4, <2>1 DEF LiberaFila
  <2> QED BY <1>4, <2>2, <2>3 DEF LiberaFila
<1>5. CASE TerminaFinalizar BY <1>5 DEF TerminaFinalizar
<1> QED BY <1>1, <1>2, <1>3, <1>4, <1>5 DEF Finaliza

LEMMA BienAjusta ==
    ASSUME Bien, Ajusta
    PROVE  Bien'
<1>1. CASE Calcula
  <2>1. pid["cpu"] \in Pids /\ Len(tabla[pid["cpu"]]) \in Nat BY <1>1 DEF Calcula
  <2> QED BY <1>1, <2>1 DEF Calcula
<1>2. CASE AcortaFila
  <2> DEFINE q == pid["cpu"]
  <2>1. q \in Pids /\ tabla[q] \in Seq(Fila) /\ resta \in Nat /\ resta > 0 /\ resta <= Len(tabla[q])
    BY <1>2 DEF AcortaFila
  <2>2. /\ SubSeq(tabla[q], 1, Len(tabla[q]) - 1) \in Seq(Fila)
        /\ Len(SubSeq(tabla[q], 1, Len(tabla[q]) - 1)) = Len(tabla[q]) - 1
    BY <2>1, SinUltima
  <2>3. tabla' \in [Pids -> Seq(Fila)] /\ Len(tabla'[q]) = Len(tabla[q]) - 1
    BY <1>2, <2>1, <2>2 DEF AcortaFila
  <2> QED BY <1>2, <2>1, <2>3 DEF AcortaFila
<1>3. CASE FinAcorta BY <1>3 DEF FinAcorta
<1>4. CASE Cuenta
  <2> DEFINE Vistos == Cardinality(MarcosDisponibles)
  <2>1. MarcosDisponibles \in SUBSET (0..(CantMarcos - 2)) BY DEF MarcosDisponibles
  <2>2. Vistos \in Nat
    <3>1. IsFiniteSet(0..(CantMarcos - 2)) BY FS_Interval, MemoriaOK
    <3>2. IsFiniteSet(MarcosDisponibles) BY <2>1, <3>1, FS_Subset
    <3> QED BY <3>2, FS_CardinalityType
  <2>3. pc' = [pc EXCEPT !["cpu"] = IF Vistos < resta THEN "responde_oom" ELSE "toma_mutex"]
    BY <1>4 DEF Cuenta
  <2> HIDE DEF Vistos
  <2>4. pc'["cpu"] = "toma_mutex" => resta <= CantMarcos - 1
    <3>1. Vistos <= CantMarcos - 1 BY CuentaAcotada DEF Vistos
    <3> QED BY <2>2, <2>3, <3>1, MemoriaOK
  <2>5. pc'["cpu"] \in {"responde_oom", "toma_mutex"} BY <2>3
  <2> QED BY <1>4, <2>3, <2>4, <2>5 DEF Cuenta
<1>5. CASE TomaMutex BY <1>5 DEF TomaMutex
<1>6. CASE AsignaLibre
  <2> DEFINE q == pid["cpu"]
             fila == [numpag |-> Len(tabla[q]) + 1, marco |-> index]
  <2>1. q \in Pids /\ tabla[q] \in Seq(Fila) /\ index \in Marcos
    BY <1>6, MemoriaOK DEF AsignaLibre, Marcos
  <2>2. fila \in Fila BY <2>1 DEF Fila
  <2>3. tabla' = [tabla EXCEPT ![q] = Append(@, fila)] BY <1>6 DEF AsignaLibre
  <2>4. tabla' \in [Pids -> Seq(Fila)] BY <2>1, <2>2, <2>3
  <2> QED BY <1>6, <2>1, <2>4 DEF AsignaLibre
<1>7. CASE AsignaOcupado BY <1>7 DEF AsignaOcupado
<1>8. CASE FinAsigna BY <1>8 DEF FinAsigna
<1>9. CASE Responde BY <1>9 DEF Responde
<1> QED BY <1>1, <1>2, <1>3, <1>4, <1>5, <1>6, <1>7, <1>8, <1>9 DEF Ajusta

LEMMA BienCPU ==
    ASSUME Bien, NEW p \in Pids, NEW n \in 0..MaxPaginas,
           PideAjuste(p, n) \/ PideInstruccion(p) \/ BuscaSigue \/ BuscaHalla
    PROVE  Bien' /\ MismasFilas
<1>1. CASE PideAjuste(p, n) BY <1>1, MemoriaOK DEF PideAjuste, Atendible, MismasFilas
<1>2. CASE PideInstruccion(p) BY <1>2 DEF PideInstruccion, Atendible, MismasFilas
<1>3. CASE BuscaSigue BY <1>3 DEF BuscaSigue, MismasFilas
<1>4. CASE BuscaHalla BY <1>4 DEF BuscaHalla, MismasFilas
<1> QED BY <1>1, <1>2, <1>3, <1>4

LEMMA BienCae ==
    ASSUME Bien, NEW p \in Pids, MarcoFueraDeTabla(p) \/ PideAjusteCorto \/ BuscaFuera
    PROVE  Bien' /\ MismasFilas
  BY DEF MarcoFueraDeTabla, PideAjusteCorto, BuscaFuera, Cae, MismasFilas

LEMMA BienPaso ==
    ASSUME Bien, [Next]_vars
    PROVE  Bien'
<1>1. CASE UNCHANGED vars BY <1>1 DEF vars
<1>2. ASSUME NEW p \in Pids, IniciarProceso(p) \/ FinalizarProceso(p) PROVE Bien'
  BY <1>2, BienKernel
<1>3. ASSUME NEW p \in Pids, PideInstruccion(p) \/ MarcoFueraDeTabla(p) PROVE Bien'
  <2>1. 0 \in 0..MaxPaginas BY MemoriaOK
  <2> QED BY <1>3, <2>1, BienCPU, BienCae
<1>4. ASSUME NEW p \in Pids, NEW n \in 0..MaxPaginas, PideAjuste(p, n) PROVE Bien'
  BY <1>4, BienCPU
<1>5. CASE PideAjusteCorto BY <1>5 DEF PideAjusteCorto, Cae
<1>6. CASE Finaliza
  <2>1. pid["kernel"] \in Pids BY <1>6 DEF Finaliza, Retira, LiberaFila, TerminaFinalizar
  <2> QED BY <1>6, <2>1, BienKernel
<1>7. CASE Ajusta BY <1>7, BienAjusta
<1>8. CASE Busca
  <2>1. CASE BuscaSigue BY <2>1 DEF BuscaSigue
  <2>2. CASE BuscaHalla BY <2>2 DEF BuscaHalla
  <2>3. CASE BuscaFuera BY <2>3 DEF BuscaFuera, Cae
  <2> QED BY <1>8, <2>1, <2>2, <2>3 DEF Busca
<1> QED BY <1>1, <1>2, <1>3, <1>4, <1>5, <1>6, <1>7, <1>8 DEF Next

LEMMA SiempreBien == Spec => []Bien
<1>1. Bien /\ [Next]_vars => Bien' BY BienPaso
<1> QED BY BienInicial, <1>1, PTL DEF Spec

\* Every variable keeps its type; in particular every row names a frame of the memory,
\* so aumentar_tamanio_proceso never looks past the bit array (memoria.c 623-645).
THEOREM MemoriaTipada == Spec => []TypeOK
<1>1. Bien => TypeOK BY DEF Bien
<1> QED BY SiempreBien, <1>1, PTL

-----------------------------------------------------------------------------
(* Frames.                                                                 *)

HIDE DEF Bien, TypeOK, EnCurso, PasosKernel, PasosCPU, Paso, Sirve, SinPedido

LEMMA MarcosInicial == Init => MarcosExactos
  BY DEF Init, MarcosExactos, FilasMarcadas, MarcosConFila, UnaFilaPorMarco

LEMMA MarcosIguales ==
    ASSUME MarcosExactos, MismasFilas
    PROVE  MarcosExactos'
  BY DEF MarcosExactos, MismasFilas, FilasMarcadas, MarcosConFila, UnaFilaPorMarco

\* A row goes away with the bit of its frame: t is the table without row k.
LEMMA MarcosQuitar ==
    ASSUME Bien, MarcosExactos, NEW q \in Pids, NEW k \in DOMAIN tabla[q], NEW t \in Seq(Fila),
           \A n \in DOMAIN t : \E m \in DOMAIN tabla[q] \ {k} : t[n] = tabla[q][m],
           \A m \in DOMAIN tabla[q] \ {k} : \E n \in DOMAIN t : t[n] = tabla[q][m],
           \A n, m \in DOMAIN t : t[n].marco = t[m].marco => n = m,
           tabla' = [tabla EXCEPT ![q] = t],
           frames' = frames \ {tabla[q][k].marco}
    PROVE  MarcosExactos'
<1> USE DEF MarcosExactos
<1>1. tabla'[q] = t /\ \A p \in Pids \ {q} : tabla'[p] = tabla[p] BY DEF Bien, TypeOK
<1>2. FilasMarcadas'
  <2> SUFFICES ASSUME NEW p \in Pids, NEW n \in DOMAIN tabla'[p]
               PROVE  tabla'[p][n].marco \in frames'
    BY DEF FilasMarcadas
  <2>1. CASE p = q
    <3>1. tabla'[p] = t /\ n \in DOMAIN t BY <1>1, <2>1
    <3>2. PICK m \in DOMAIN tabla[q] \ {k} : t[n] = tabla[q][m] BY <3>1
    <3>3. t[n].marco \in frames /\ t[n].marco # tabla[q][k].marco
      BY <3>2 DEF FilasMarcadas, UnaFilaPorMarco
    <3> QED BY <3>1, <3>3
  <2>2. CASE p # q
    <3>1. tabla'[p] = tabla[p] BY <1>1, <2>2
    <3> QED BY <2>2, <3>1 DEF FilasMarcadas, UnaFilaPorMarco
  <2> QED BY <2>1, <2>2
<1>3. MarcosConFila'
  <2> SUFFICES ASSUME NEW m \in frames'
               PROVE  \E p \in Pids : \E n \in DOMAIN tabla'[p] : tabla'[p][n].marco = m
    BY DEF MarcosConFila
  <2>1. PICK p \in Pids : \E n \in DOMAIN tabla[p] : tabla[p][n].marco = m
    BY DEF MarcosConFila
  <2>2. PICK n \in DOMAIN tabla[p] : tabla[p][n].marco = m BY <2>1
  <2>3. CASE p = q
    <3>1. n \in DOMAIN tabla[q] \ {k} BY <2>2, <2>3
    <3>2. PICK j \in DOMAIN t : t[j] = tabla[q][n] BY <3>1
    <3> QED BY <1>1, <2>2, <2>3, <3>2
  <2>4. CASE p # q
    <3>1. tabla'[p] = tabla[p] BY <1>1, <2>4
    <3> QED BY <2>2, <3>1
  <2> QED BY <2>3, <2>4
<1>4. UnaFilaPorMarco'
  <2> SUFFICES ASSUME NEW a \in Pids, NEW b \in Pids,
                      NEW n \in DOMAIN tabla'[a], NEW m \in DOMAIN tabla'[b],
                      tabla'[a][n].marco = tabla'[b][m].marco
               PROVE  a = b /\ n = m
    BY DEF UnaFilaPorMarco
  <2>1. ASSUME NEW p \in Pids, NEW i \in DOMAIN tabla'[p]
        PROVE  \E j \in DOMAIN tabla[p] : tabla'[p][i] = tabla[p][j]
    <3>1. CASE p = q
      <4>1. tabla'[p] = t /\ i \in DOMAIN t BY <1>1, <3>1
      <4> QED BY <3>1, <4>1
    <3>2. CASE p # q
      <4>1. tabla'[p] = tabla[p] BY <1>1, <3>2
      <4> QED BY <4>1
    <3> QED BY <3>1, <3>2
  <2>2. a = b BY <2>1 DEF UnaFilaPorMarco
  <2>3. CASE a = q
    <3>1. tabla'[a] = t /\ tabla'[b] = t BY <1>1, <2>2, <2>3
    <3> QED BY <2>2, <3>1
  <2>4. CASE a # q
    <3>1. tabla'[a] = tabla[a] BY <1>1, <2>4
    <3> QED BY <2>2, <3>1 DEF UnaFilaPorMarco
  <2> QED BY <2>2, <2>3, <2>4
<1> QED BY <1>2, <1>3, <1>4

LEMMA MarcosLibera ==
    ASSUME Bien, MarcosExactos, LiberaFila
    PROVE  MarcosExactos'
<1> SUFFICES ASSUME NEW k, k = 1 PROVE MarcosExactos' OBVIOUS
<1> DEFINE q == pid["kernel"]
           t == Tail(tabla[q])
<1>1. q \in Pids /\ tabla[q] \in Seq(Fila) /\ tabla[q] # <<>>
  BY DEF LiberaFila, Bien, TypeOK, EnCurso, Paso
<1>2. /\ Head(tabla[q]) = tabla[q][k] /\ k \in DOMAIN tabla[q] /\ t \in Seq(Fila)
      /\ \A n \in DOMAIN t : n + 1 \in DOMAIN tabla[q] /\ t[n] = tabla[q][n + 1]
      /\ \A n \in DOMAIN tabla[q] \ {k} : n - 1 \in DOMAIN t /\ t[n - 1] = tabla[q][n]
  BY <1>1, SinPrimera
<1>3. /\ tabla' = [tabla EXCEPT ![q] = t]
      /\ frames' = frames \ {tabla[q][k].marco}
  BY <1>2 DEF LiberaFila
<1>4. DOMAIN t \subseteq Nat \ {0} BY <1>1, <1>2
<1> HIDE DEF t, q
<1>5. /\ \A n \in DOMAIN t : n + 1 \in DOMAIN tabla[q] \ {k}
      /\ \A n, m \in DOMAIN t : n + 1 = m + 1 => n = m
  BY <1>2, <1>4
<1>6. \A n, m \in DOMAIN t : t[n].marco = t[m].marco => n = m
  BY <1>1, <1>2, <1>5 DEF MarcosExactos, UnaFilaPorMarco
<1>7. /\ \A n \in DOMAIN t : \E m \in DOMAIN tabla[q] \ {k} : t[n] = tabla[q][m]
      /\ \A m \in DOMAIN tabla[q] \ {k} : \E n \in DOMAIN t : t[n] = tabla[q][m]
  BY <1>2, <1>5
<1>8. k \in DOMAIN tabla[q] /\ t \in Seq(Fila) BY <1>2
<1> QED BY <1>1, <1>3, <1>6, <1>7, <1>8, MarcosQuitar

LEMMA MarcosAcorta ==
    ASSUME Bien, MarcosExactos, AcortaFila
    PROVE  MarcosExactos'
<1> SUFFICES ASSUME NEW u, u = Len(tabla[pid["cpu"]]) PROVE MarcosExactos' OBVIOUS
<1> DEFINE q == pid["cpu"]
           t == SubSeq(tabla[q], 1, u - 1)
<1>1. q \in Pids /\ tabla[q] \in Seq(Fila) /\ u > 0
  BY DEF AcortaFila, Bien, TypeOK, EnCurso, Paso
<1>2. /\ u \in DOMAIN tabla[q] /\ t \in Seq(Fila)
      /\ \A n \in DOMAIN t : n \in DOMAIN tabla[q] \ {u} /\ t[n] = tabla[q][n]
      /\ \A n \in DOMAIN tabla[q] \ {u} : n \in DOMAIN t
  BY <1>1, SinUltima
<1>3. /\ tabla' = [tabla EXCEPT ![q] = t]
      /\ frames' = frames \ {tabla[q][u].marco}
  BY DEF AcortaFila
<1> HIDE DEF t, q
<1>4. /\ \A n \in DOMAIN t : \E m \in DOMAIN tabla[q] \ {u} : t[n] = tabla[q][m]
      /\ \A m \in DOMAIN tabla[q] \ {u} : \E n \in DOMAIN t : t[n] = tabla[q][m]
      /\ \A n, m \in DOMAIN t : t[n].marco = t[m].marco => n = m
  BY <1>1, <1>2 DEF MarcosExactos, UnaFilaPorMarco
<1>5. u \in DOMAIN tabla[q] /\ t \in Seq(Fila) BY <1>2
<1> QED BY <1>1, <1>3, <1>4, <1>5, MarcosQuitar

\* A free frame is taken and put in a row at the end of the table.
LEMMA MarcosAsigna ==
    ASSUME Bien, MarcosExactos, AsignaLibre
    PROVE  MarcosExactos'
<1> USE DEF MarcosExactos
<1> DEFINE q == pid["cpu"]
           k == Len(tabla[q]) + 1
           fila == [numpag |-> k, marco |-> index]
           t == Append(tabla[q], fila)
<1>1. q \in Pids /\ tabla[q] \in Seq(Fila) /\ index \notin frames
  BY DEF AsignaLibre, Bien, TypeOK, EnCurso, Paso
<1>2. /\ DOMAIN t = DOMAIN tabla[q] \cup {k} /\ k \notin DOMAIN tabla[q]
      /\ t[k] = fila /\ \A n \in DOMAIN tabla[q] : t[n] = tabla[q][n]
  <2>1. DOMAIN tabla[q] = 1..Len(tabla[q]) /\ Len(tabla[q]) \in Nat BY <1>1
  <2>2. Len(t) = k /\ DOMAIN t = 1..k BY <1>1
  <2>3. t[k] = fila /\ \A n \in 1..Len(tabla[q]) : t[n] = tabla[q][n] BY <1>1
  <2> QED BY <2>1, <2>2, <2>3
<1>3. tabla' = [tabla EXCEPT ![q] = t] /\ frames' = frames \cup {index} BY DEF AsignaLibre
<1>4. fila.marco = index OBVIOUS
<1> HIDE DEF q, k, fila, t
<1>5. \A p \in Pids : tabla'[p] = IF p = q THEN t ELSE tabla[p] BY <1>3 DEF Bien, TypeOK
<1>6. FilasMarcadas' BY <1>1, <1>2, <1>3, <1>4, <1>5 DEF FilasMarcadas
<1>7. MarcosConFila'
  <2> SUFFICES ASSUME NEW m \in frames'
               PROVE  \E p \in Pids : \E n \in DOMAIN tabla'[p] : tabla'[p][n].marco = m
    BY DEF MarcosConFila
  <2>1. CASE m = index BY <1>1, <1>2, <1>4, <1>5, <2>1
  <2>2. CASE m \in frames
    <3>1. PICK p \in Pids : \E n \in DOMAIN tabla[p] : tabla[p][n].marco = m
      BY <2>2 DEF MarcosConFila
    <3>2. PICK n \in DOMAIN tabla[p] : tabla[p][n].marco = m BY <3>1
    <3>3. n \in DOMAIN tabla'[p] /\ tabla'[p][n] = tabla[p][n] BY <1>2, <1>5
    <3> QED BY <3>2, <3>3
  <2> QED BY <1>3, <2>1, <2>2
<1>8. UnaFilaPorMarco'
  <2> SUFFICES ASSUME NEW a \in Pids, NEW b \in Pids,
                      NEW n \in DOMAIN tabla'[a], NEW m \in DOMAIN tabla'[b],
                      tabla'[a][n].marco = tabla'[b][m].marco
               PROVE  a = b /\ n = m
    BY DEF UnaFilaPorMarco
  <2> DEFINE Vieja(p, i) == i \in DOMAIN tabla[p]
  <2>1. /\ ~Vieja(a, n) => a = q /\ n = k /\ tabla'[a][n].marco = index
        /\ ~Vieja(b, m) => b = q /\ m = k /\ tabla'[b][m].marco = index
    BY <1>2, <1>4, <1>5
  <2>2. /\ Vieja(a, n) => tabla'[a][n] = tabla[a][n] /\ tabla[a][n].marco # index
        /\ Vieja(b, m) => tabla'[b][m] = tabla[b][m] /\ tabla[b][m].marco # index
    BY <1>1, <1>2, <1>5 DEF FilasMarcadas
  <2> QED BY <2>1, <2>2 DEF UnaFilaPorMarco
<1> QED BY <1>6, <1>7, <1>8

\* The actions that move no row.
LEMMA MarcosPaso ==
    ASSUME Bien, MarcosExactos, [Next]_vars
    PROVE  MarcosExactos'
<1>1. CASE LiberaFila BY <1>1, MarcosLibera
<1>2. CASE AcortaFila BY <1>2, MarcosAcorta
<1>3. CASE AsignaLibre BY <1>3, MarcosAsigna
<1>4. CASE ~LiberaFila /\ ~AcortaFila /\ ~AsignaLibre
  <2> SUFFICES MismasFilas BY MarcosIguales
  <2>1. ASSUME NEW p \in Pids, IniciarProceso(p) \/ FinalizarProceso(p) PROVE MismasFilas
    BY <2>1 DEF IniciarProceso, FinalizarProceso, MismasFilas
  <2>2. ASSUME NEW p \in Pids, NEW n \in 0..MaxPaginas, PideAjuste(p, n) PROVE MismasFilas
    BY <2>2 DEF PideAjuste, MismasFilas
  <2>3. ASSUME NEW p \in Pids, PideInstruccion(p) \/ MarcoFueraDeTabla(p) PROVE MismasFilas
    BY <2>3 DEF PideInstruccion, MarcoFueraDeTabla, Cae, MismasFilas
  <2>4. CASE PideAjusteCorto \/ Finaliza \/ Busca
    BY <1>4, <2>4 DEF PideAjusteCorto, Finaliza, Retira, TerminaFinalizar, Busca, BuscaSigue,
      BuscaHalla, BuscaFuera, Cae, MismasFilas
  <2>5. CASE Ajusta
    BY <1>4, <2>5 DEF Ajusta, Calcula, FinAcorta, Cuenta, TomaMutex, AsignaOcupado, FinAsigna,
      Responde, MismasFilas
  <2>6. CASE UNCHANGED vars BY <2>6 DEF vars, MismasFilas
  <2> QED BY <2>1, <2>2, <2>3, <2>4, <2>5, <2>6 DEF Next
<1> QED BY <1>1, <1>2, <1>3, <1>4

\* The frames of the bit array are exactly those of the rows, one row each, whatever the
\* number of processes, frames and pages (memoria.c 299-327 against 606-645).
THEOREM MarcosSiempreExactos == Spec => []MarcosExactos
<1>1. Bien /\ MarcosExactos /\ [Next]_vars => MarcosExactos' BY MarcosPaso
<1> QED BY MarcosInicial, SiempreBien, <1>1, PTL DEF Spec

-----------------------------------------------------------------------------
(* Translations.                                                           *)

LEMMA TraduccionPaso ==
    ASSUME Bien, [Next]_vars,
           NEW p \in Pids \ {pid["kernel"]}, NEW n \in DOMAIN tabla[p] \cap DOMAIN tabla'[p]
    PROVE  tabla'[p][n].marco = tabla[p][n].marco
<1>1. CASE LiberaFila
  <2>1. tabla'[p] = tabla[p] BY <1>1 DEF LiberaFila, Bien, TypeOK
  <2> QED BY <2>1
<1>2. CASE AcortaFila
  <2> DEFINE q == pid["cpu"]
             t == SubSeq(tabla[q], 1, Len(tabla[q]) - 1)
  <2>1. q \in Pids /\ tabla[q] \in Seq(Fila) /\ Len(tabla[q]) > 0
    BY <1>2 DEF AcortaFila, Bien, TypeOK, EnCurso, Paso
  <2>2. \A m \in DOMAIN t : t[m] = tabla[q][m] BY <2>1, SinUltima
  <2>3. tabla' = [tabla EXCEPT ![q] = t] BY <1>2 DEF AcortaFila
  <2> HIDE DEF t
  <2> QED BY <2>1, <2>2, <2>3 DEF Bien, TypeOK
<1>3. CASE AsignaLibre
  <2> DEFINE q == pid["cpu"]
             fila == [numpag |-> Len(tabla[q]) + 1, marco |-> index]
  <2>1. q \in Pids /\ tabla[q] \in Seq(Fila)
    BY <1>3 DEF AsignaLibre, Bien, TypeOK, EnCurso, Paso
  <2>2. \A m \in DOMAIN tabla[q] : Append(tabla[q], fila)[m] = tabla[q][m] BY <2>1
  <2>3. tabla' = [tabla EXCEPT ![q] = Append(@, fila)] BY <1>3 DEF AsignaLibre
  <2> HIDE DEF fila
  <2> QED BY <2>1, <2>2, <2>3 DEF Bien, TypeOK
<1>4. CASE ~LiberaFila /\ ~AcortaFila /\ ~AsignaLibre
  <2>1. tabla' = tabla
    BY <1>4 DEF Next, vars, IniciarProceso, FinalizarProceso, PideAjuste, PideInstruccion,
      MarcoFueraDeTabla, PideAjusteCorto, Finaliza, Retira, TerminaFinalizar, Busca, BuscaSigue,
      BuscaHalla, BuscaFuera, Cae, Ajusta, Calcula, FinAcorta, Cuenta, TomaMutex, AsignaOcupado,
      FinAsigna, Responde
  <2> QED BY <2>1
<1> QED BY <1>1, <1>2, <1>3, <1>4

\* No resize changes the frame of a page that stays, so what the CPU translated before it
\* still holds (memoria.c 606-645).
THEOREM TraduccionSiempreEstable == Spec => TraduccionEstable
<1>1. Bien /\ [Next]_vars =>
        [\A p \in Pids \ {pid["kernel"]} : \A n \in DOMAIN tabla[p] \cap DOMAIN tabla'[p] :
           tabla'[p][n].marco = tabla[p][n].marco]_vars
  BY TraduccionPaso
<1> QED BY SiempreBien, <1>1, PTL DEF Spec, TraduccionEstable

-----------------------------------------------------------------------------
(* The memory implements Paginas.                                          *)

Columna(t) == [n \in DOMAIN t |-> t[n].marco]
Columnas == [p \in Pids |-> Columna(tabla[p])]

\* The frames of a table that lost or won a row are those of the table, less or more one.
LEMMA ColumnaSeq ==
    ASSUME NEW s \in Seq(Fila)
    PROVE  /\ Columna(s) \in Seq(Marcos) /\ Len(Columna(s)) = Len(s)
           /\ \A n \in 1..Len(s) : Columna(s)[n] = s[n].marco
<1>1. DOMAIN s = 1..Len(s) /\ \A n \in 1..Len(s) : s[n] \in Fila OBVIOUS
<1>2. \A n \in 1..Len(s) : s[n].marco \in Marcos BY <1>1 DEF Fila
<1> QED BY <1>1, <1>2 DEF Columna

LEMMA SonIguales ==
    ASSUME NEW S, NEW c \in Seq(S), NEW d \in Seq(S), Len(c) = Len(d),
           \A n \in 1..Len(c) : c[n] = d[n]
    PROVE  c = d
  OBVIOUS

LEMMA ColumnaSinPrimera ==
    ASSUME NEW s \in Seq(Fila), s # <<>>
    PROVE  Columna(s) # <<>> /\ Columna(Tail(s)) = Tail(Columna(s))
<1> DEFINE t == Tail(s)
           c == Columna(t)
           d == Tail(Columna(s))
<1>1. /\ t \in Seq(Fila) /\ Len(t) = Len(s) - 1 /\ Len(s) \in Nat
      /\ \A n \in 1..(Len(s) - 1) : n + 1 \in 1..Len(s) /\ t[n] = s[n + 1]
  OBVIOUS
<1>2. /\ Columna(s) \in Seq(Marcos) /\ Len(Columna(s)) = Len(s) /\ Columna(s) # <<>>
      /\ \A n \in 1..Len(s) : Columna(s)[n] = s[n].marco
  BY ColumnaSeq
<1>3. /\ d \in Seq(Marcos) /\ Len(d) = Len(s) - 1
      /\ \A n \in 1..(Len(s) - 1) : d[n] = Columna(s)[n + 1]
  <2> HIDE DEF Columna
  <2> QED BY <1>2
<1> HIDE DEF t
<1>4. /\ c \in Seq(Marcos) /\ Len(c) = Len(s) - 1
      /\ \A n \in 1..(Len(s) - 1) : c[n] = t[n].marco
  BY <1>1, ColumnaSeq
<1> HIDE DEF c, d
<1>5. \A n \in 1..Len(c) : c[n] = d[n] BY <1>1, <1>2, <1>3, <1>4
<1>6. c = d BY <1>3, <1>4, <1>5, SonIguales
<1> QED BY <1>2, <1>6 DEF c, d, t

LEMMA ColumnaSinUltima ==
    ASSUME NEW s \in Seq(Fila), Len(s) > 0
    PROVE  /\ Columna(s) # <<>>
           /\ Columna(SubSeq(s, 1, Len(s) - 1)) = SubSeq(Columna(s), 1, Len(Columna(s)) - 1)
<1> DEFINE t == SubSeq(s, 1, Len(s) - 1)
           c == Columna(t)
           d == SubSeq(Columna(s), 1, Len(Columna(s)) - 1)
<1>1. /\ t \in Seq(Fila) /\ Len(t) = Len(s) - 1 /\ Len(s) \in Nat
      /\ \A n \in 1..(Len(s) - 1) : n \in 1..Len(s) /\ t[n] = s[n]
  <2>1. /\ t \in Seq(Fila) /\ Len(t) = Len(s) - 1
        /\ \A n \in DOMAIN t : n \in DOMAIN s \ {Len(s)} /\ t[n] = s[n]
    BY SinUltima
  <2> HIDE DEF t
  <2>2. DOMAIN t = 1..(Len(s) - 1) /\ DOMAIN s = 1..Len(s) /\ Len(s) \in Nat BY <2>1
  <2> QED BY <2>1, <2>2
<1>2. /\ Columna(s) \in Seq(Marcos) /\ Len(Columna(s)) = Len(s) /\ Columna(s) # <<>>
      /\ \A n \in 1..Len(s) : Columna(s)[n] = s[n].marco
  BY ColumnaSeq
<1>3. /\ d \in Seq(Marcos) /\ Len(d) = Len(s) - 1
      /\ \A n \in 1..(Len(s) - 1) : d[n] = Columna(s)[n]
  <2> SUFFICES ASSUME NEW k, k = Columna(s)
               PROVE  /\ SubSeq(k, 1, Len(k) - 1) \in Seq(Marcos)
                      /\ Len(SubSeq(k, 1, Len(k) - 1)) = Len(s) - 1
                      /\ \A n \in 1..(Len(s) - 1) : SubSeq(k, 1, Len(k) - 1)[n] = k[n]
    OBVIOUS
  <2>1. k \in Seq(Marcos) /\ Len(k) = Len(s) /\ Len(k) > 0
    <3> HIDE DEF Columna
    <3> QED BY <1>2
  <2> DEFINE e == SubSeq(k, 1, Len(k) - 1)
  <2>2. /\ e \in Seq(Marcos) /\ Len(e) = Len(k) - 1
        /\ \A n \in DOMAIN e : n \in DOMAIN k \ {Len(k)} /\ e[n] = k[n]
    BY <2>1, SinUltima
  <2> HIDE DEF e
  <2>3. DOMAIN e = 1..(Len(k) - 1) BY <2>2
  <2>4. e \in Seq(Marcos) /\ Len(e) = Len(s) - 1 /\ \A n \in 1..(Len(s) - 1) : e[n] = k[n]
    BY <2>1, <2>2, <2>3
  <2> QED BY <2>4 DEF e
<1> HIDE DEF t
<1>4. /\ c \in Seq(Marcos) /\ Len(c) = Len(s) - 1
      /\ \A n \in 1..(Len(s) - 1) : c[n] = t[n].marco
  BY <1>1, ColumnaSeq
<1> HIDE DEF c, d
<1>5. \A n \in 1..Len(c) : c[n] = d[n] BY <1>1, <1>2, <1>3, <1>4
<1>6. c = d BY <1>3, <1>4, <1>5, SonIguales
<1> QED BY <1>2, <1>6 DEF c, d, t

LEMMA ColumnaConOtra ==
    ASSUME NEW s \in Seq(Fila), NEW f \in Fila
    PROVE  Columna(Append(s, f)) = Append(Columna(s), f.marco)
<1> DEFINE t == Append(s, f)
           c == Columna(t)
           d == Append(Columna(s), f.marco)
<1>1. /\ t \in Seq(Fila) /\ Len(t) = Len(s) + 1 /\ Len(s) \in Nat /\ t[Len(s) + 1] = f
      /\ \A n \in 1..Len(s) : t[n] = s[n]
  OBVIOUS
<1>2. /\ Columna(s) \in Seq(Marcos) /\ Len(Columna(s)) = Len(s) /\ f.marco \in Marcos
      /\ \A n \in 1..Len(s) : Columna(s)[n] = s[n].marco
  BY ColumnaSeq DEF Fila
<1>3. /\ d \in Seq(Marcos) /\ Len(d) = Len(s) + 1 /\ d[Len(s) + 1] = f.marco
      /\ \A n \in 1..Len(s) : d[n] = Columna(s)[n]
  <2> HIDE DEF Columna
  <2> QED BY <1>2
<1> HIDE DEF t
<1>4. /\ c \in Seq(Marcos) /\ Len(c) = Len(s) + 1
      /\ \A n \in 1..(Len(s) + 1) : c[n] = t[n].marco
  BY <1>1, ColumnaSeq
<1> HIDE DEF c, d
<1>5. ASSUME NEW n \in 1..Len(c) PROVE c[n] = d[n]
  <2>1. n \in 1..Len(s) \/ n = Len(s) + 1 BY <1>1, <1>4
  <2> QED BY <1>1, <1>2, <1>3, <1>4, <2>1
<1>6. c = d BY <1>3, <1>4, <1>5, SonIguales
<1> QED BY <1>6 DEF c, d, t

\* The columns after a step that changes one table.
LEMMA ColumnasTras ==
    ASSUME NEW q \in Pids, NEW t, TypeOK, tabla' = [tabla EXCEPT ![q] = t]
    PROVE  Columnas' = [Columnas EXCEPT ![q] = Columna(t)]
<1>1. \A p \in Pids : tabla'[p] = IF p = q THEN t ELSE tabla[p] BY DEF TypeOK
<1>2. \A p \in Pids : Columna(tabla'[p]) = IF p = q THEN Columna(t) ELSE Columnas[p]
  BY <1>1 DEF Columnas
<1>3. Columnas' = [p \in Pids |-> Columna(tabla'[p])] BY DEF Columnas, Columna
<1>4. DOMAIN Columnas = Pids BY DEF Columnas
<1> HIDE DEF Columnas, Columna
<1> QED BY <1>2, <1>3, <1>4

\* One step of the memory is one step of Paginas or none.
LEMMA PaginasPaso ==
    ASSUME Bien, MarcosExactos, [Next]_vars
    PROVE  [Abstracta!Next]_Columnas
<1> USE DEF Abstracta!Next
<1>1. \A p \in Pids : tabla[p] \in Seq(Fila) /\ Columnas[p] = Columna(tabla[p])
  BY DEF Bien, TypeOK, Columnas
<1>2. CASE LiberaFila
  <2> DEFINE q == pid["kernel"]
  <2>1. q \in Pids /\ tabla[q] # <<>> /\ tabla' = [tabla EXCEPT ![q] = Tail(tabla[q])]
    BY <1>2 DEF LiberaFila, Bien, TypeOK, EnCurso, Paso
  <2> HIDE DEF q
  <2>2. Columnas[q] # <<>> /\ Columna(Tail(tabla[q])) = Tail(Columnas[q])
    BY <1>1, <2>1, ColumnaSinPrimera
  <2>3. Columnas' = [Columnas EXCEPT ![q] = Tail(Columnas[q])]
    BY <2>1, <2>2, ColumnasTras DEF Bien
  <2> QED BY <2>1, <2>2, <2>3 DEF Abstracta!Suelta, Columnas, Columna
<1>3. CASE AcortaFila
  <2> DEFINE q == pid["cpu"]
             t == SubSeq(tabla[q], 1, Len(tabla[q]) - 1)
  <2>1. q \in Pids /\ tabla[q] \in Seq(Fila) /\ Len(tabla[q]) > 0
        /\ tabla' = [tabla EXCEPT ![q] = t]
    BY <1>3 DEF AcortaFila, Bien, TypeOK, EnCurso, Paso
  <2>2. Columnas[q] # <<>> /\ Columna(t) = SubSeq(Columnas[q], 1, Len(Columnas[q]) - 1)
    BY <1>1, <2>1, ColumnaSinUltima
  <2> HIDE DEF q, t
  <2>3. Columnas' = [Columnas EXCEPT ![q] = SubSeq(Columnas[q], 1, Len(Columnas[q]) - 1)]
    BY <2>1, <2>2, ColumnasTras DEF Bien
  <2> QED BY <2>1, <2>2, <2>3 DEF Abstracta!Achica, Columnas, Columna
<1>4. CASE AsignaLibre
  <2> DEFINE q == pid["cpu"]
             fila == [numpag |-> Len(tabla[q]) + 1, marco |-> index]
  <2>1. q \in Pids /\ tabla[q] \in Seq(Fila) /\ fila \in Fila /\ fila.marco = index
        /\ tabla' = [tabla EXCEPT ![q] = Append(tabla[q], fila)]
    <3>1. q \in Pids /\ tabla[q] \in Seq(Fila) BY <1>4 DEF AsignaLibre, Bien, TypeOK, EnCurso, Paso
    <3>2. index \in Marcos
      BY <1>4, MemoriaOK DEF AsignaLibre, Bien, TypeOK, EnCurso, Paso, Marcos
    <3>3. tabla' = [tabla EXCEPT ![q] = Append(@, fila)] BY <1>4 DEF AsignaLibre
    <3>4. Len(tabla[q]) + 1 \in Nat BY <3>1
    <3> QED BY <3>1, <3>2, <3>3, <3>4 DEF Fila
  <2> HIDE DEF q, fila
  <2>2. Columna(Append(tabla[q], fila)) = Append(Columnas[q], index)
    BY <1>1, <2>1, ColumnaConOtra
  <2>3. Columnas' = [Columnas EXCEPT ![q] = Append(Columnas[q], index)]
    BY <2>1, <2>2, ColumnasTras DEF Bien
  <2>4. index \in Marcos \ UNION {Abstracta!Propios(p) : p \in Pids}
    <3>1. index \in Marcos /\ index \notin frames
      BY <1>4, MemoriaOK DEF AsignaLibre, Bien, TypeOK, EnCurso, Paso, Marcos
    <3>2. \A p \in Pids : Abstracta!Propios(p) \subseteq frames
      BY <1>1 DEF Abstracta!Propios, MarcosExactos, FilasMarcadas, Columna
    <3> QED BY <3>1, <3>2
  <2> QED BY <2>1, <2>3, <2>4 DEF Abstracta!Crece, Abstracta!Libres, Columnas, Columna
<1>5. CASE ~LiberaFila /\ ~AcortaFila /\ ~AsignaLibre
  <2>1. tabla' = tabla
    BY <1>5 DEF Next, vars, IniciarProceso, FinalizarProceso, PideAjuste, PideInstruccion,
      MarcoFueraDeTabla, PideAjusteCorto, Finaliza, Retira, TerminaFinalizar, Busca, BuscaSigue,
      BuscaHalla, BuscaFuera, Cae, Ajusta, Calcula, FinAcorta, Cuenta, TomaMutex, AsignaOcupado,
      FinAsigna, Responde
  <2> QED BY <2>1 DEF Columnas, Columna
<1> QED BY <1>2, <1>3, <1>4, <1>5

\* The two threads of the memory, bit by bit, implement tables that change at their ends
\* with frames nobody else has (memoria.c 299-327, 606-645).
THEOREM MemoriaImplementaPaginas == Spec => ImplementaPaginas
<1>1. Init => Abstracta!Init BY DEF Init, Abstracta!Init
<1>2. Bien /\ MarcosExactos /\ [Next]_vars => [Abstracta!Next]_Columnas BY PaginasPaso
<1> QED BY SiempreBien, MarcosSiempreExactos, <1>1, <1>2, PTL
      DEF Spec, ImplementaPaginas, Abstracta!Spec, Columnas, Columna
=============================================================================
