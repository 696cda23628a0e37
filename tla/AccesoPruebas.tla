--------------------------- MODULE AccesoPruebas ---------------------------
(***************************************************************************)
(* Theorems about Acceso: its types, the size of the TLB, the requests of  *)
(* a process, the frames of its pieces and the order of their bytes.       *)
(***************************************************************************)
EXTENDS Acceso, FiniteSetTheorems, SequenceTheorems, WellFoundedInduction, TLAPS

USE AccesoOK, MmuOK, InterfacesOK

-----------------------------------------------------------------------------
(* Sequences.                                                              *)

LEMMA Elemento == ASSUME NEW S, NEW s \in Seq(S), NEW n \in DOMAIN s PROVE s[n] \in S
  OBVIOUS

\* What Tail leaves of a sequence, and what Append adds.
LEMMA Cola ==
    ASSUME NEW S, NEW s \in Seq(S), s # <<>>
    PROVE  /\ Head(s) = s[1] /\ 1 \in DOMAIN s /\ Head(s) \in S
           /\ Tail(s) \in Seq(S) /\ Len(Tail(s)) = Len(s) - 1
           /\ \A n \in DOMAIN Tail(s) : n + 1 \in DOMAIN s /\ Tail(s)[n] = s[n + 1]
  OBVIOUS

LEMMA Unica == ASSUME NEW S, NEW s \in Seq(S), Len(s) = 1 PROVE Tail(s) = <<>>
<1>1. s # <<>> OBVIOUS
<1>2. Tail(s) \in Seq(S) /\ Len(Tail(s)) = 0 BY <1>1, Cola
<1> QED BY <1>2, EmptySeq

LEMMA Agregado ==
    ASSUME NEW S, NEW s \in Seq(S), NEW e \in S
    PROVE  /\ Append(s, e) \in Seq(S) /\ Len(Append(s, e)) = Len(s) + 1
           /\ \A n \in DOMAIN Append(s, e) :
                \/ n \in DOMAIN s /\ Append(s, e)[n] = s[n]
                \/ n = Len(s) + 1 /\ Append(s, e)[n] = e
           /\ \A n \in DOMAIN s : n \in DOMAIN Append(s, e) /\ Append(s, e)[n] = s[n]
           /\ Append(s, e)[Len(s) + 1] = e
  OBVIOUS

-----------------------------------------------------------------------------
(* Translations.                                                           *)

\* A frame that the table or the TLB has for p.
Conocido(p, m) ==
    m \in Tablas!Propios(p) \/ \E n \in Entradas(p) : tlb[n].marco = m

EnteraDe(p, pieza) ==
    /\ pieza \in Pieza /\ Conocido(p, pieza.marco)
    /\ pieza.desplazamiento + pieza.bytes <= TamPagina

\* A page is a number.
LEMMA PaginaNatural == ASSUME NEW d \in Int PROVE PaginaDe(d) \in Nat
<1>1. CASE d < 0 BY <1>1 DEF PaginaDe
<1>2. CASE ~(d < 0)
  <2>1. d \div TamPagina \in Nat BY <1>2, SMT
  <2> QED BY <1>2, <2>1 DEF PaginaDe
<1> QED BY <1>1, <1>2

\* The length of a piece and its place in the frame.
LEMMA BytesDePieza ==
    ASSUME NEW dir \in Nat, NEW tam \in Nat, NEW pagina \in Nat
    PROVE  /\ Bytes(dir, tam, pagina) \in 1..TamPagina
           /\ dir % TamPagina \in 0..(TamPagina - 1)
           /\ pagina = PaginaDe(dir) =>
                (dir % TamPagina) + Bytes(dir, tam, pagina) = TamPagina
<1>1. dir % TamPagina \in 0..(TamPagina - 1) BY SMT
<1>2. Final(dir, tam) % TamPagina \in 0..(TamPagina - 1) BY SMT DEF Final
<1>3. CASE pagina = PaginaDe(dir)
  <2>1. Bytes(dir, tam, pagina) = TamPagina - (dir % TamPagina) BY <1>3 DEF Bytes
  <2> QED BY <1>1, <2>1
<1>4. CASE pagina # PaginaDe(dir) /\ pagina = PaginaDe(Final(dir, tam))
  <2>1. Bytes(dir, tam, pagina) = (Final(dir, tam) % TamPagina) + 1 BY <1>4 DEF Bytes
  <2> QED BY <1>1, <1>2, <1>4, <2>1
<1>5. CASE pagina # PaginaDe(dir) /\ pagina # PaginaDe(Final(dir, tam))
  <2>1. Bytes(dir, tam, pagina) = TamPagina BY <1>5 DEF Bytes
  <2> QED BY <1>1, <1>5, <2>1
<1> QED BY <1>3, <1>4, <1>5

\* A process has one entry in the TLB: it is the one that is found.
LEMMA EntradaHallada ==
    ASSUME TypeOK, TlbAcotada, NEW p \in Pids, Entradas(p) # {}
    PROVE  \E n \in Entradas(p) : Entrada(p) = tlb[n]
<1>1. PICK n : n \in Entradas(p) OBVIOUS
<1>2. \A k \in Entradas(p) : n = k BY <1>1 DEF TlbAcotada
<1>3. n \in Nat BY <1>1 DEF Entradas, TypeOK
<1>4. \A k \in Entradas(p) : n <= k BY <1>2, <1>3
<1> DEFINE primera == CHOOSE k \in Entradas(p) : \A j \in Entradas(p) : k <= j
<1>5. primera \in Entradas(p) BY <1>1, <1>4
<1> QED BY <1>5 DEF Entrada

\* MMU answers a frame that is known of p, when the memory has the pages it is asked.
LEMMA MarcoConocido ==
    ASSUME TypeOK, TlbAcotada, NEW p \in Pids, NEW dir \in Nat, NEW tam \in Nat,
           ~PideMarcoQueNoHay(p, dir, tam), NEW pagina \in Recorridas(dir, tam)
    PROVE  /\ MarcoDe(p, PaginaDe(dir), pagina) \in Marcos
           /\ Conocido(p, MarcoDe(p, PaginaDe(dir), pagina))
<1>1. PaginaDe(dir) \in Nat BY PaginaNatural
<1>2. PaginaDe(Final(dir, tam)) \in Nat BY PaginaNatural DEF Final
<1>3. pagina \in Nat /\ PaginaDe(dir) \in Recorridas(dir, tam) BY <1>1, <1>2 DEF Recorridas
<1>4. ASSUME NEW g \in Nat, g \in Pedidas(p, dir, tam)
      PROVE  tabla[p][g + 1] \in Marcos /\ tabla[p][g + 1] \in Tablas!Propios(p)
  <2>1. g + 1 \in DOMAIN tabla[p] BY <1>4 DEF PideMarcoQueNoHay, EnTabla
  <2>2. tabla[p] \in Seq(Marcos) BY DEF TypeOK
  <2> QED BY <2>1, <2>2 DEF Tablas!Propios
<1>5. CASE MaxTlb = 0
  <2>1. pagina \in Pedidas(p, dir, tam) BY <1>5 DEF Pedidas
  <2> QED BY <1>3, <1>4, <1>5, <2>1 DEF MarcoDe, Conocido
<1>6. CASE MaxTlb # 0 /\ Entradas(p) # {}
  <2>1. PICK n \in Entradas(p) : Entrada(p) = tlb[n] BY <1>6, EntradaHallada
  <2>2. tlb[n].marco \in Marcos
    <3>1. n \in DOMAIN tlb BY <2>1 DEF Entradas
    <3>2. tlb \in Seq([pid: Pids, num_pag: Nat, marco: Marcos]) BY DEF TypeOK
    <3>3. tlb[n] \in [pid: Pids, num_pag: Nat, marco: Marcos] BY <3>1, <3>2, Elemento
    <3> QED BY <3>3
  <2> QED BY <1>6, <2>1, <2>2 DEF MarcoDe, Conocido
<1>7. CASE MaxTlb # 0 /\ Entradas(p) = {}
  <2>1. PaginaDe(dir) \in Pedidas(p, dir, tam) BY <1>3, <1>7 DEF Pedidas
  <2> QED BY <1>1, <1>4, <1>7, <2>1 DEF MarcoDe, Conocido
<1> QED BY <1>5, <1>6, <1>7

\* The pieces of an access, each in one frame that is known of p.
LEMMA Traducidas ==
    ASSUME TypeOK, TlbAcotada, NEW p \in Pids, NEW dir \in Nat, NEW tam \in Nat,
           ~PideMarcoQueNoHay(p, dir, tam)
    PROVE  /\ ObtenerTraducciones(p, dir, tam) \in Seq(Pieza)
           /\ \A n \in DOMAIN ObtenerTraducciones(p, dir, tam) :
                EnteraDe(p, ObtenerTraducciones(p, dir, tam)[n])
<1> DEFINE primera == PaginaDe(dir)
           ultima == PaginaDe(Final(dir, tam))
           largo == ultima - primera + 1
           pieza(n) == [marco |-> MarcoDe(p, primera, primera + n - 1),
                        desplazamiento |-> IF n = 1 THEN dir % TamPagina ELSE 0,
                        bytes |-> Bytes(dir, tam, primera + n - 1)]
           t == [n \in 1..largo |-> pieza(n)]
<1>1. primera \in Nat /\ ultima \in Nat BY PaginaNatural DEF Final
<1>2. ASSUME NEW n \in 1..largo PROVE EnteraDe(p, pieza(n))
  <2>1. primera + n - 1 \in Nat /\ primera + n - 1 \in Recorridas(dir, tam)
    BY <1>1, <1>2 DEF Recorridas
  <2>2. /\ MarcoDe(p, primera, primera + n - 1) \in Marcos
        /\ Conocido(p, MarcoDe(p, primera, primera + n - 1))
    BY <2>1, MarcoConocido
  <2>3. /\ Bytes(dir, tam, primera + n - 1) \in 1..TamPagina
        /\ dir % TamPagina \in 0..(TamPagina - 1)
        /\ n = 1 => (dir % TamPagina) + Bytes(dir, tam, primera + n - 1) = TamPagina
    <3>1. n = 1 => primera + n - 1 = primera BY <1>1
    <3> QED BY <2>1, <3>1, BytesDePieza
  <2> QED BY <1>2, <2>2, <2>3 DEF EnteraDe, Pieza
<1>3. ObtenerTraducciones(p, dir, tam) = t BY DEF ObtenerTraducciones
<1>4. \A n \in 1..largo : pieza(n) \in Pieza BY <1>2 DEF EnteraDe
<1> HIDE DEF pieza
<1>5. t \in Seq(Pieza)
  <2>1. CASE largo \in Nat BY <1>4, <2>1, IsASeq
  <2>2. CASE largo \notin Nat
    <3>1. 1..largo = {} BY <1>1, <2>2
    <3>2. t = <<>> BY <3>1
    <3>3. <<>> \in Seq(Pieza) OBVIOUS
    <3> QED BY <3>2, <3>3, Zenon
  <2> QED BY <2>1, <2>2
<1>6. DOMAIN t = 1..largo /\ \A n \in 1..largo : t[n] = pieza(n) OBVIOUS
<1> QED BY <1>2, <1>3, <1>5, <1>6
-----------------------------------------------------------------------------
(* The dialogue of the kernel with an interface.                           *)

\* A request of the kernel is being served.
Ocupada(i) == pc_io[i] \in {"escribe", "opera"}

\* One message at a time, about the request in hand.
Callado(i) == de_kernel[i] = <<>> /\ a_kernel[i] = <<>> /\ ~Ocupada(i)

Informa(i, op) ==
    /\ ~Ocupada(i) /\ mano[i] = SinPedido
    /\ \/ /\ Len(de_kernel[i]) = 1 /\ de_kernel[i][1].op = op /\ de_kernel[i][1].pid = Nadie
          /\ a_kernel[i] = <<>>
       \/ de_kernel[i] = <<>> /\ Len(a_kernel[i]) = 1 /\ pc_io[i] # "conecta"

\* The request was sent, is being served, was answered, or was lost with the interface.
Atendido(i) ==
    /\ mano[i].pid \in Pids
    /\ \/ /\ Len(de_kernel[i]) = 1 /\ de_kernel[i][1].op = "INSTRUCCION"
          /\ de_kernel[i][1].pid = mano[i].pid
          /\ a_kernel[i] = <<>> /\ pc_io[i] = "atiende"
       \/ /\ de_kernel[i] = <<>> /\ a_kernel[i] = <<>>
          /\ Ocupada(i) => tarea[i].pid = mano[i].pid
       \/ de_kernel[i] = <<>> /\ Len(a_kernel[i]) = 1 /\ ~Ocupada(i)

SinNadaEnMano == {"pregunta_nombre", "pregunta_tipo", "tope", "toma", "vacia", "liberada"}

DialogoDe(i) ==
    /\ ~Ocupada(i) => tarea[i] = SinTarea
    /\ pc_k[i] \notin {"pregunta_nombre", "espera_nombre"} => pc_io[i] # "conecta"
    /\ pc_k[i] \in SinNadaEnMano => Callado(i) /\ mano[i] = SinPedido
    /\ pc_k[i] = "espera_nombre" => Informa(i, "INFORMAR_NOMBRE")
    /\ pc_k[i] = "espera_tipo" => Informa(i, "INFORMAR_TIPO")
    /\ pc_k[i] = "recibe" => Atendido(i)
    /\ pc_k[i] = "desconecta" => Callado(i) /\ mano[i].pid \in Pids
    /\ \A n \in DOMAIN bloq[i] : bloq[i][n].pid \in Pids

Dialogo == \A i \in Interfaces : DialogoDe(i)

dialogo(i) == <<pc_io[i], tarea[i], pc_k[i], mano[i], bloq[i], de_kernel[i], a_kernel[i]>>

LEMMA OtroDialogo ==
    ASSUME NEW i, DialogoDe(i), UNCHANGED dialogo(i)
    PROVE  DialogoDe(i)'
  BY DEF DialogoDe, dialogo, Callado, Informa, Atendido, Ocupada

\* The program of the interface, its user, or its end.
DelPrograma(i) == EnInterfaz(i) \/ Escribe(i) \/ Cierra(i)

\* Each step leaves the dialogues of the other interfaces alone.
LEMMA DialogoAjeno ==
    ASSUME TypeOK, NEW i \in Interfaces, NEW j \in Interfaces, j # i,
           Atiende(i) \/ DelPrograma(i)
    PROVE  UNCHANGED dialogo(j)
<1> USE DEF dialogo
<1>1. CASE KPregunta(i) BY <1>1 DEF KPregunta, PasoK, KEnvia, TypeOK
<1>2. CASE KConoce(i) BY <1>2 DEF KConoce, PasoK, KLee, TypeOK
<1>3. CASE KToma(i)
  <2>1. UNCHANGED <<pc_io, tarea, a_kernel>> BY <1>3 DEF KToma
  <2>2. bloq'[j] = bloq[j] /\ mano'[j] = mano[j] BY <1>3 DEF KToma, TypeOK
  <2>3. pc_k'[j] = pc_k[j] /\ de_kernel'[j] = de_kernel[j]
    BY <1>3 DEF KToma, KManda, PasoK, KEnvia, TypeOK
  <2> QED BY <2>1, <2>2, <2>3
<1>4. CASE KRecibe(i) BY <1>4 DEF KRecibe, PasoK, KLee, TypeOK
<1>5. CASE KMiraPlan(i) \/ KRecibeNada(i) \/ KLibera(i)
  BY <1>5 DEF KMiraPlan, KRecibeNada, KLibera, PasoK, TypeOK, esvars
<1>6. CASE KDevuelve(i) \/ KVacia(i)
  BY <1>6 DEF KDevuelve, KVacia, PasoK, TypeOK, esvars
<1>7. CASE DelPrograma(i)
  <2>1. UNCHANGED kernel BY <1>7 DEF DelPrograma, EnInterfaz, Escribe, Cierra
  <2>2. UNCHANGED <<pc_io[j], tarea[j], de_kernel[j], a_kernel[j]>>
    BY <1>7 DEF DelPrograma, EnInterfaz, Escribe, Cierra, Interfaz, EsConecta, EsInforma,
                EsInstruccion, UsuarioEscribe, EsPieza, EsAvisa, EsCierra, PasoEs, EsLee, EsEnvia,
                TypeOK
  <2> QED BY <2>1, <2>2 DEF kernel
<1> QED BY <1>1, <1>2, <1>3, <1>4, <1>5, <1>6, <1>7 DEF Atiende

-----------------------------------------------------------------------------
(* The types, in parts: a step keeps those of the variables it leaves.     *)

Entradilla == [pid: Pids, num_pag: Nat, marco: Marcos]
Estados == {"READY", "EXEC", "BLOCKED", "EXIT"}
Respuestas == {"NOMBRE_INFORMADO", "GENERICA", "STDIN", "STDOUT", "0", "1"}
PcKernel == {"pregunta_nombre", "espera_nombre", "pregunta_tipo", "espera_tipo", "tope", "toma",
             "recibe", "desconecta", "vacia", "liberada"}
Fases == {"conecta", "atiende", "escribe", "opera", "fin"}
Tarea == [pid: Pids \cup {Nadie}, piezas: Seq(Pieza), exitosa: BOOLEAN]

TipoMemoria ==
    /\ vivo \in BOOLEAN /\ debe_planificar \in BOOLEAN
    /\ tabla \in [Pids -> Seq(Marcos)] /\ lista \subseteq Pids
TipoTlb == tlb \in Seq(Entradilla)
TipoProcesos ==
    estado \in [Pids -> Estados] /\ cola_block \subseteq Pids /\ cola_exit \in Seq(Pids)
TipoCuenta == pedidos \in Nat /\ dudosos \subseteq Pids
TipoMov == mov \in Seq(Pieza)
TipoHilo == pc_k \in [Interfaces -> PcKernel] /\ mano \in [Interfaces -> Pedido]
TipoColas == bloq \in [Interfaces -> Seq(Pedido)]
TipoPc == pc_io \in [Interfaces -> Fases]
TipoTarea == tarea \in [Interfaces -> Tarea]
TipoIda == de_kernel \in [Interfaces -> Seq(Mensaje)]
TipoVuelta == a_kernel \in [Interfaces -> Seq(Respuestas)]

TipoInterfaces == TipoPc /\ TipoTarea /\ TipoIda /\ TipoVuelta

LEMMA Partes ==
    TypeOK <=> /\ TipoMemoria /\ TipoTlb /\ TipoProcesos /\ TipoCuenta /\ TipoMov
               /\ TipoHilo /\ TipoColas /\ TipoInterfaces
  BY Zenon DEF TypeOK, TipoMemoria, TipoTlb, TipoProcesos, TipoCuenta, TipoMov, TipoHilo,
         TipoColas, TipoInterfaces, TipoPc, TipoTarea, TipoIda, TipoVuelta,
         Entradilla, Estados, Respuestas, PcKernel, Fases, Tarea

LEMMA PartesPrimas ==
    TypeOK' <=> /\ TipoMemoria' /\ TipoTlb' /\ TipoProcesos' /\ TipoCuenta' /\ TipoMov'
                /\ TipoHilo' /\ TipoColas' /\ TipoInterfaces'
  BY Zenon DEF TypeOK, TipoMemoria, TipoTlb, TipoProcesos, TipoCuenta, TipoMov, TipoHilo,
         TipoColas, TipoInterfaces, TipoPc, TipoTarea, TipoIda, TipoVuelta,
         Entradilla, Estados, Respuestas, PcKernel, Fases, Tarea

LEMMA TiposIguales ==
    /\ TipoMemoria /\ UNCHANGED <<vivo, debe_planificar, memoria>> => TipoMemoria'
    /\ TipoTlb /\ UNCHANGED tlb => TipoTlb'
    /\ TipoProcesos /\ UNCHANGED procesos => TipoProcesos'
    /\ TipoCuenta /\ UNCHANGED <<pedidos, dudosos>> => TipoCuenta'
    /\ TipoMov /\ UNCHANGED mov => TipoMov'
    /\ TipoHilo /\ UNCHANGED <<pc_k, mano>> => TipoHilo'
    /\ TipoColas /\ UNCHANGED bloq => TipoColas'
    /\ TipoInterfaces /\ UNCHANGED esvars => TipoInterfaces'
  BY DEF TipoMemoria, TipoTlb, TipoProcesos, TipoCuenta, TipoMov, TipoHilo,
         TipoColas, TipoInterfaces, TipoPc, TipoTarea, TipoIda, TipoVuelta,
         memoria, procesos, esvars

LEMMA PedidoVacio == SinPedido \in Pedido /\ SinTarea \in Tarea /\ SinPedido.pid = Nadie
<1>1. <<>> \in Seq(Pieza) OBVIOUS
<1> QED BY <1>1 DEF SinPedido, SinTarea, Pedido, Tarea

-----------------------------------------------------------------------------
(* The TLB after a translation.                                            *)

LEMMA TlbTraducida ==
    ASSUME TypeOK, TlbAcotada, NEW p \in Pids, NEW dir \in Nat, NEW tam \in Nat,
           Traduce(p, dir, tam)
    PROVE  /\ TipoTlb' /\ TlbAcotada'
           /\ \A n \in DOMAIN tlb' :
                \/ \E k \in DOMAIN tlb : tlb'[n] = tlb[k]
                \/ tlb'[n].pid = p /\ tlb'[n].marco \in Tablas!Propios(p)
<1>t. tlb \in Seq(Entradilla) BY Partes DEF TipoTlb
<1>1. CASE tlb' = tlb BY <1>1, <1>t DEF TipoTlb, TlbAcotada, Entradas
<1>2. CASE tlb' # tlb
  <2> DEFINE g == PaginaDe(dir)
             e == Recordada(p, g)
  <2>1. /\ Recorridas(dir, tam) # {} /\ tlb' = TlbDespues(p, g)
        /\ MaxTlb # 0 /\ Entradas(p) = {} /\ tlb' = Append(ConLugar, e)
    BY <1>2 DEF Traduce, TlbDespues
  <2>2. g \in Nat /\ PaginaDe(Final(dir, tam)) \in Nat BY PaginaNatural DEF Final
  <2>3. g \in Pedidas(p, dir, tam)
    <3>1. g \in Recorridas(dir, tam) BY <2>1, <2>2 DEF Recorridas
    <3> QED BY <2>1, <3>1 DEF Pedidas
  <2>4. tabla[p][g + 1] \in Marcos /\ tabla[p][g + 1] \in Tablas!Propios(p)
    <3>1. g + 1 \in DOMAIN tabla[p] BY <2>3 DEF Traduce, PideMarcoQueNoHay, EnTabla
    <3>2. tabla[p] \in Seq(Marcos) BY DEF TypeOK
    <3> QED BY <3>1, <3>2 DEF Tablas!Propios
  <2>5. e \in Entradilla /\ e.pid = p /\ e.marco \in Tablas!Propios(p)
    BY <2>2, <2>4 DEF Recordada, Entradilla
  <2> HIDE DEF e, g
  <2>6. /\ ConLugar \in Seq(Entradilla) /\ Len(ConLugar) < MaxTlb
        /\ \E d \in {0, 1} : /\ \A n \in DOMAIN ConLugar : n + d \in DOMAIN tlb
                             /\ \A n \in DOMAIN ConLugar : ConLugar[n] = tlb[n + d]
    <3>1. Len(tlb) \in Nat /\ Len(tlb) <= MaxTlb /\ MaxTlb \in Nat /\ MaxTlb > 0
      BY <1>t, <2>1 DEF TlbAcotada
    <3>2. Len(tlb) \div MaxTlb = 1 <=> Len(tlb) = MaxTlb
      <4>1. CASE Len(tlb) = MaxTlb
        <5>1. MaxTlb \div MaxTlb = 1 BY <3>1, SMT
        <5> QED BY <4>1, <5>1
      <4>2. CASE Len(tlb) < MaxTlb
        <5>1. Len(tlb) \div MaxTlb = 0 BY <3>1, <4>2, SMT
        <5> QED BY <4>2, <5>1, <3>1
      <4> QED BY <3>1, <4>1, <4>2
    <3>3. CASE Len(tlb) = MaxTlb
      <4>1. tlb # <<>> /\ ConLugar = Tail(tlb) BY <3>1, <3>2, <3>3, <1>t DEF ConLugar
      <4>2. /\ Tail(tlb) \in Seq(Entradilla) /\ Len(Tail(tlb)) = Len(tlb) - 1
            /\ \A n \in DOMAIN Tail(tlb) : n + 1 \in DOMAIN tlb /\ Tail(tlb)[n] = tlb[n + 1]
        BY <1>t, <4>1, Cola
      <4> QED BY <3>1, <3>3, <4>1, <4>2
    <3>4. CASE Len(tlb) # MaxTlb
      <4>1. ConLugar = tlb BY <3>2, <3>4 DEF ConLugar
      <4> QED BY <3>1, <3>4, <4>1, <1>t
    <3> QED BY <3>3, <3>4
  <2>7. PICK d \in {0, 1} : \A n \in DOMAIN ConLugar : n + d \in DOMAIN tlb /\ ConLugar[n] = tlb[n + d]
    BY <2>6
  <2> DEFINE c == ConLugar
  <2>c. c \in Seq(Entradilla) BY <2>6
  <2> HIDE DEF c
  <2>8. /\ tlb' \in Seq(Entradilla) /\ Len(tlb') = Len(c) + 1
        /\ \A n \in DOMAIN tlb' :
              \/ n \in DOMAIN c /\ tlb'[n] = c[n]
              \/ n = Len(c) + 1 /\ tlb'[n] = e
    <3>1. tlb' = Append(c, e) BY <2>1 DEF c
    <3> QED BY <3>1, <2>c, <2>5, Agregado
  <2>9. \A n \in DOMAIN tlb' :
              \/ n + d \in DOMAIN tlb /\ tlb'[n] = tlb[n + d]
              \/ n = Len(c) + 1 /\ tlb'[n] = e
    BY <2>7, <2>8 DEF c
  <2>10. Len(tlb') <= MaxTlb BY <2>6, <2>8, <2>c DEF c
  <2>11. ASSUME NEW q \in Pids, NEW n \in Entradas(q)', NEW k \in Entradas(q)' PROVE n = k
    <3>1. n \in DOMAIN tlb' /\ tlb'[n].pid = q /\ k \in DOMAIN tlb' /\ tlb'[k].pid = q
      BY <2>11 DEF Entradas
    <3>d. n \in Int /\ k \in Int /\ d \in Int BY <2>8, <3>1
    <3>2. CASE q = p
      <4>1. \A j \in DOMAIN tlb : tlb[j].pid # p BY <2>1 DEF Entradas
      <4> QED BY <2>9, <3>1, <3>2, <4>1
    <3>3. CASE q # p
      <4>1. n + d \in Entradas(q) /\ k + d \in Entradas(q) BY <2>5, <2>9, <3>1, <3>3 DEF Entradas
      <4>2. n + d = k + d BY <4>1 DEF TlbAcotada
      <4> QED BY <4>2, <3>d
    <3> QED BY <3>2, <3>3
  <2>12. TlbAcotada' BY <2>10, <2>11 DEF TlbAcotada
  <2>13. \A n \in DOMAIN tlb' :
                \/ \E k \in DOMAIN tlb : tlb'[n] = tlb[k]
                \/ tlb'[n].pid = p /\ tlb'[n].marco \in Tablas!Propios(p)
    BY <2>5, <2>9
  <2> QED BY <2>8, <2>12, <2>13 DEF TipoTlb
<1> QED BY <1>1, <1>2

-----------------------------------------------------------------------------
(* The dialogue, step by step.                                             *)

LEMMA DialogoPregunta ==
    ASSUME TypeOK, NEW i \in Interfaces, DialogoDe(i), KPregunta(i)
    PROVE  DialogoDe(i)' /\ TipoHilo' /\ TipoIda'
<1>t. TipoHilo /\ TipoInterfaces /\ de_kernel[i] \in Seq(Mensaje)
  BY Partes DEF TipoInterfaces, TipoIda
<1>u. /\ pc_io'[i] = pc_io[i] /\ tarea' = tarea /\ mano' = mano /\ bloq' = bloq
      /\ a_kernel' = a_kernel
  BY DEF KPregunta
<1>1. PICK de, a, op :
        /\ PasoK(i, de, a) /\ KEnvia(i, op, Nadie, <<>>)
        /\ \/ de = "pregunta_nombre" /\ a = "espera_nombre" /\ op = "INFORMAR_NOMBRE"
           \/ de = "pregunta_tipo" /\ a = "espera_tipo" /\ op = "INFORMAR_TIPO"
  <2>1. CASE PasoK(i, "pregunta_nombre", "espera_nombre") /\ KEnvia(i, "INFORMAR_NOMBRE", Nadie, <<>>)
    BY <2>1, Zenon
  <2>2. CASE PasoK(i, "pregunta_tipo", "espera_tipo") /\ KEnvia(i, "INFORMAR_TIPO", Nadie, <<>>)
    BY <2>2, Zenon
  <2> QED BY <2>1, <2>2 DEF KPregunta
<1>2. Callado(i) /\ mano[i] = SinPedido /\ (de = "pregunta_tipo" => pc_io[i] # "conecta")
  BY <1>1 DEF DialogoDe, PasoK, SinNadaEnMano
<1> DEFINE m == [op |-> op, pid |-> Nadie, traducciones |-> <<>>]
<1>3. m \in Mensaje
  <2>1. <<>> \in Seq(Pieza) OBVIOUS
  <2> QED BY <1>1, <2>1 DEF Mensaje
<1>4. de_kernel' = [de_kernel EXCEPT ![i] = Append(@, m)] BY <1>1 DEF KEnvia
<1>5. m.op = op /\ m.pid = Nadie OBVIOUS
<1> HIDE DEF m
<1>6. Append(de_kernel[i], m) \in Seq(Mensaje) BY <1>3, <1>t
<1>7. TipoIda' /\ de_kernel'[i] = Append(de_kernel[i], m)
  BY <1>4, <1>6, <1>t DEF TipoIda, TipoInterfaces
<1>8. Len(de_kernel'[i]) = 1 /\ de_kernel'[i][1] = m
  <2>1. de_kernel[i] = <<>> BY <1>2 DEF Callado
  <2> QED BY <1>7, <2>1, <1>t, <1>3, Agregado
<1>9. pc_k'[i] = a /\ TipoHilo' BY <1>1, <1>t, <1>u DEF PasoK, TipoHilo, PcKernel
<1>10. Informa(i, op)' BY <1>2, <1>5, <1>8, <1>u DEF Informa, Callado, Ocupada
<1> QED BY <1>1, <1>2, <1>7, <1>9, <1>10, <1>u DEF DialogoDe, SinNadaEnMano, Ocupada

LEMMA DialogoConoce ==
    ASSUME TypeOK, NEW i \in Interfaces, DialogoDe(i), KConoce(i)
    PROVE  DialogoDe(i)' /\ TipoHilo' /\ TipoVuelta'
<1>t. TipoHilo /\ TipoInterfaces /\ a_kernel \in [Interfaces -> Seq(Respuestas)]
  BY Partes DEF TipoInterfaces, TipoVuelta
<1>u. /\ pc_io'[i] = pc_io[i] /\ tarea' = tarea /\ mano' = mano /\ bloq' = bloq
      /\ de_kernel' = de_kernel
  BY DEF KConoce
<1>1. PICK de, a, op :
        /\ PasoK(i, de, a)
        /\ \/ de = "espera_nombre" /\ a = "pregunta_tipo" /\ op = "INFORMAR_NOMBRE"
           \/ de = "espera_tipo" /\ a = "tope" /\ op = "INFORMAR_TIPO"
  <2>1. CASE PasoK(i, "espera_nombre", "pregunta_tipo") BY <2>1, Zenon
  <2>2. CASE PasoK(i, "espera_tipo", "tope") BY <2>2, Zenon
  <2> QED BY <2>1, <2>2 DEF KConoce
<1>2. Informa(i, op) BY <1>1 DEF DialogoDe, PasoK
<1>3. KLee(i) BY DEF KConoce
<1>4. a_kernel[i] # <<>> /\ a_kernel' = [a_kernel EXCEPT ![i] = Tail(@)] BY <1>3 DEF KLee
<1>5. de_kernel[i] = <<>> /\ Len(a_kernel[i]) = 1 /\ pc_io[i] # "conecta" BY <1>2, <1>4 DEF Informa
<1>6. Tail(a_kernel[i]) \in Seq(Respuestas) /\ Tail(a_kernel[i]) = <<>>
  BY <1>4, <1>5, <1>t
<1>7. TipoVuelta' /\ a_kernel'[i] = <<>> BY <1>4, <1>6, <1>t DEF TipoVuelta
<1>8. pc_k'[i] = a /\ TipoHilo' BY <1>1, <1>t, <1>u DEF PasoK, TipoHilo, PcKernel
<1>9. Callado(i)' /\ mano'[i] = SinPedido BY <1>2, <1>5, <1>7, <1>u DEF Callado, Informa, Ocupada
<1> QED BY <1>1, <1>5, <1>7, <1>8, <1>9, <1>u DEF DialogoDe, SinNadaEnMano, Ocupada

\* What the send leaves in the socket, and where it leaves the thread.
LEMMA Mandado ==
    ASSUME TypeOK, NEW i \in Interfaces, DialogoDe(i), NEW r \in Pedido, r.pid \in Pids,
           KManda(i, r), UNCHANGED <<pc_io, tarea, a_kernel>>, mano'[i] = r
    PROVE  /\ TipoIda' /\ pc_k[i] = "toma"
           /\ \/ pc_k' = [pc_k EXCEPT ![i] = "recibe"] /\ Atendido(i)'
              \/ pc_k' = [pc_k EXCEPT ![i] = "desconecta"] /\ Callado(i)'
<1>t. de_kernel \in [Interfaces -> Seq(Mensaje)] BY Partes DEF TipoInterfaces, TipoIda
<1>1. pc_k[i] = "toma" BY DEF KManda, PasoK
<1>2. Callado(i) /\ pc_io[i] # "conecta" BY <1>1 DEF DialogoDe, SinNadaEnMano
<1>3. CASE PasoK(i, "toma", "recibe") /\ pc_io[i] # "fin"
           /\ KEnvia(i, "INSTRUCCION", r.pid, r.traducciones)
  <2> DEFINE m == [op |-> "INSTRUCCION", pid |-> r.pid, traducciones |-> r.traducciones]
  <2>1. m \in Mensaje BY DEF Mensaje, Pedido
  <2>2. de_kernel' = [de_kernel EXCEPT ![i] = Append(@, m)] BY <1>3 DEF KEnvia
  <2>3. m.op = "INSTRUCCION" /\ m.pid = r.pid OBVIOUS
  <2> HIDE DEF m
  <2>4. Append(de_kernel[i], m) \in Seq(Mensaje) BY <2>1, <1>t
  <2>5. TipoIda' /\ de_kernel'[i] = Append(de_kernel[i], m) BY <2>2, <2>4, <1>t DEF TipoIda
  <2>6. Len(de_kernel'[i]) = 1 /\ de_kernel'[i][1] = m
    <3>1. de_kernel[i] = <<>> BY <1>2 DEF Callado
    <3> QED BY <2>5, <3>1, <1>t, <2>1, Agregado
  <2>7. pc_io[i] = "atiende"
    <3>1. pc_io[i] \in Fases BY Partes DEF TipoInterfaces, TipoPc
    <3> QED BY <1>2, <1>3, <3>1 DEF Fases, Callado, Ocupada
  <2>8. Atendido(i)' BY <1>2, <2>3, <2>6, <2>7 DEF Atendido, Callado
  <2> QED BY <1>1, <1>3, <2>5, <2>8 DEF PasoK
<1>4. CASE UNCHANGED de_kernel /\ pc_io[i] = "fin"
           /\ (PasoK(i, "toma", "recibe") \/ PasoK(i, "toma", "desconecta"))
  <2>1. TipoIda' BY <1>t, <1>4 DEF TipoIda
  <2>2. Callado(i)' /\ Atendido(i)' BY <1>2, <1>4 DEF Callado, Atendido, Ocupada
  <2> QED BY <1>1, <1>4, <2>1, <2>2 DEF PasoK
<1> QED BY <1>3, <1>4 DEF KManda

LEMMA DialogoToma ==
    ASSUME TypeOK, NEW i \in Interfaces, DialogoDe(i), KToma(i)
    PROVE  DialogoDe(i)' /\ TipoHilo' /\ TipoColas' /\ TipoIda'
<1>t. TipoHilo /\ bloq \in [Interfaces -> Seq(Pedido)] BY Partes DEF TipoColas
<1>u. pc_io' = pc_io /\ tarea' = tarea /\ a_kernel' = a_kernel BY DEF KToma
<1>1. bloq[i] # <<>> BY DEF KToma
<1> DEFINE r == Head(bloq[i])
<1>2. r \in Pedido /\ r.pid \in Pids
  <2>1. r = bloq[i][1] /\ 1 \in DOMAIN bloq[i] /\ r \in Pedido BY <1>1, <1>t, Cola
  <2> QED BY <2>1 DEF DialogoDe
<1>3. mano' = [mano EXCEPT ![i] = r] /\ bloq' = [bloq EXCEPT ![i] = Tail(@)] /\ KManda(i, r)
  BY DEF KToma
<1> HIDE DEF r
<1>4. mano'[i] = r BY <1>3, <1>t DEF TipoHilo
<1>5. /\ TipoIda' /\ pc_k[i] = "toma"
      /\ \/ pc_k' = [pc_k EXCEPT ![i] = "recibe"] /\ Atendido(i)'
         \/ pc_k' = [pc_k EXCEPT ![i] = "desconecta"] /\ Callado(i)'
  BY <1>2, <1>3, <1>4, <1>u, Mandado
<1>6. TipoHilo' BY <1>2, <1>3, <1>5, <1>t DEF TipoHilo, PcKernel
<1>7. /\ Tail(bloq[i]) \in Seq(Pedido)
      /\ \A n \in DOMAIN Tail(bloq[i]) : n + 1 \in DOMAIN bloq[i] /\ Tail(bloq[i])[n] = bloq[i][n + 1]
  BY <1>1, <1>t, Cola
<1>8. TipoColas' /\ bloq'[i] = Tail(bloq[i]) BY <1>3, <1>7, <1>t DEF TipoColas
<1>9. \A n \in DOMAIN bloq'[i] : bloq'[i][n].pid \in Pids BY <1>7, <1>8 DEF DialogoDe
<1>10. pc_io[i] # "conecta" BY <1>5 DEF DialogoDe
<1>11. /\ pc_k'[i] \in {"recibe", "desconecta"} /\ (pc_k'[i] = "recibe" => Atendido(i)')
       /\ (pc_k'[i] = "desconecta" => Callado(i)')
  BY <1>5, <1>t DEF TipoHilo
<1> QED BY <1>2, <1>4, <1>5, <1>6, <1>8, <1>9, <1>10, <1>11, <1>u
        DEF DialogoDe, SinNadaEnMano, Ocupada

LEMMA DialogoRecibe ==
    ASSUME TypeOK, NEW i \in Interfaces, DialogoDe(i), KRecibe(i)
    PROVE  /\ DialogoDe(i)' /\ TipoHilo' /\ TipoVuelta' /\ mano[i].pid \in Pids
<1>t. TipoHilo /\ a_kernel \in [Interfaces -> Seq(Respuestas)]
  BY Partes DEF TipoInterfaces, TipoVuelta
<1>u. pc_io' = pc_io /\ tarea' = tarea /\ bloq' = bloq /\ de_kernel' = de_kernel BY DEF KRecibe
<1>1. PasoK(i, "recibe", "tope") /\ KLee(i) /\ mano' = [mano EXCEPT ![i] = SinPedido]
  BY DEF KRecibe
<1>2. Atendido(i) /\ pc_io[i] # "conecta" BY <1>1 DEF DialogoDe, PasoK
<1>4. a_kernel[i] # <<>> /\ a_kernel' = [a_kernel EXCEPT ![i] = Tail(@)] BY <1>1 DEF KLee
<1>5. de_kernel[i] = <<>> /\ Len(a_kernel[i]) = 1 /\ ~Ocupada(i) BY <1>2, <1>4 DEF Atendido
<1>6. Tail(a_kernel[i]) \in Seq(Respuestas) /\ Tail(a_kernel[i]) = <<>>
  BY <1>4, <1>5, <1>t
<1>7. TipoVuelta' /\ a_kernel'[i] = <<>> BY <1>4, <1>6, <1>t DEF TipoVuelta
<1>8. pc_k'[i] = "tope" /\ mano'[i] = SinPedido /\ TipoHilo'
  BY <1>1, <1>t, PedidoVacio DEF PasoK, TipoHilo, PcKernel
<1>9. Callado(i)' BY <1>5, <1>7, <1>u DEF Callado, Ocupada
<1> QED BY <1>2, <1>7, <1>8, <1>9, <1>u DEF DialogoDe, Atendido, SinNadaEnMano, Ocupada

\* The loop goes on, or leaves at the end of the interface, and frees its structures.
LEMMA DialogoAvanza ==
    ASSUME TypeOK, NEW i \in Interfaces, DialogoDe(i), KMiraPlan(i) \/ KRecibeNada(i) \/ KLibera(i)
    PROVE  DialogoDe(i)' /\ TipoHilo'
<1>t. TipoHilo BY Partes
<1>u. UNCHANGED <<mano, bloq, pc_io, tarea, de_kernel, a_kernel>>
  BY DEF KMiraPlan, KRecibeNada, KLibera, esvars
<1>1. CASE KMiraPlan(i) \/ KLibera(i)
  <2>1. /\ pc_k[i] \in {"tope", "vacia"} /\ pc_k'[i] \in {"toma", "liberada"} /\ TipoHilo'
    BY <1>1, <1>t, <1>u DEF KMiraPlan, KLibera, PasoK, TipoHilo, PcKernel
  <2> QED BY <2>1, <1>u DEF DialogoDe, SinNadaEnMano, Callado, Ocupada
<1>2. CASE KRecibeNada(i)
  <2>1. /\ pc_k[i] = "recibe" /\ pc_k'[i] = "desconecta" /\ TipoHilo' /\ a_kernel[i] = <<>>
        /\ pc_io[i] = "fin"
    BY <1>2, <1>t, <1>u DEF KRecibeNada, PasoK, TipoHilo, PcKernel
  <2>2. Atendido(i) BY <2>1 DEF DialogoDe
  <2>3. mano[i].pid \in Pids /\ de_kernel[i] = <<>> BY <2>1, <2>2 DEF Atendido
  <2>4. Callado(i)' BY <2>1, <2>3, <1>u DEF Callado, Ocupada
  <2> QED BY <2>1, <2>3, <2>4, <1>u DEF DialogoDe, SinNadaEnMano, Ocupada
<1> QED BY <1>1, <1>2

LEMMA DialogoDevuelve ==
    ASSUME TypeOK, NEW i \in Interfaces, DialogoDe(i), KDevuelve(i)
    PROVE  DialogoDe(i)' /\ TipoHilo' /\ TipoColas'
<1>t. TipoHilo /\ bloq \in [Interfaces -> Seq(Pedido)] /\ mano[i] \in Pedido
  BY Partes DEF TipoColas, TipoHilo
<1>u. UNCHANGED <<pc_io, tarea, de_kernel, a_kernel>> BY DEF KDevuelve, esvars
<1>1. /\ pc_k[i] = "desconecta" /\ pc_k' = [pc_k EXCEPT ![i] = "vacia"]
      /\ bloq' = [bloq EXCEPT ![i] = Append(@, mano[i])]
      /\ mano' = [mano EXCEPT ![i] = SinPedido]
  BY DEF KDevuelve, PasoK
<1>2. Callado(i) /\ mano[i].pid \in Pids BY <1>1 DEF DialogoDe
<1>3. Append(bloq[i], mano[i]) \in Seq(Pedido) BY <1>t
<1>4. TipoColas' /\ bloq'[i] = Append(bloq[i], mano[i]) BY <1>1, <1>3, <1>t DEF TipoColas
<1>5. \A n \in DOMAIN bloq'[i] : bloq'[i][n].pid \in Pids
  BY <1>2, <1>4, <1>t, Agregado DEF DialogoDe
<1>6. pc_k'[i] = "vacia" /\ mano'[i] = SinPedido /\ TipoHilo'
  BY <1>1, <1>t, PedidoVacio DEF TipoHilo, PcKernel
<1> QED BY <1>1, <1>2, <1>4, <1>5, <1>6, <1>u DEF DialogoDe, SinNadaEnMano, Callado, Ocupada

LEMMA DialogoVacia ==
    ASSUME TypeOK, NEW i \in Interfaces, DialogoDe(i), KVacia(i)
    PROVE  DialogoDe(i)' /\ TipoHilo' /\ TipoColas' /\ Head(bloq[i]).pid \in Pids
<1>t. TipoHilo /\ bloq \in [Interfaces -> Seq(Pedido)] BY Partes DEF TipoColas
<1>u. UNCHANGED <<mano, pc_io, tarea, de_kernel, a_kernel>> BY DEF KVacia, esvars
<1>1. /\ pc_k[i] = "vacia" /\ pc_k' = [pc_k EXCEPT ![i] = "vacia"] /\ bloq[i] # <<>>
      /\ bloq' = [bloq EXCEPT ![i] = Tail(@)]
  BY DEF KVacia, PasoK
<1>2. /\ Tail(bloq[i]) \in Seq(Pedido) /\ Head(bloq[i]) = bloq[i][1] /\ 1 \in DOMAIN bloq[i]
      /\ \A n \in DOMAIN Tail(bloq[i]) : n + 1 \in DOMAIN bloq[i] /\ Tail(bloq[i])[n] = bloq[i][n + 1]
  BY <1>1, <1>t, Cola
<1>3. TipoColas' /\ bloq'[i] = Tail(bloq[i]) BY <1>1, <1>2, <1>t DEF TipoColas
<1>4. Head(bloq[i]).pid \in Pids /\ \A n \in DOMAIN bloq'[i] : bloq'[i][n].pid \in Pids
  BY <1>2, <1>3 DEF DialogoDe
<1>5. pc_k'[i] = "vacia" /\ TipoHilo' BY <1>1, <1>t, <1>u DEF TipoHilo, PcKernel
<1> QED BY <1>1, <1>3, <1>4, <1>5, <1>u DEF DialogoDe, SinNadaEnMano, Callado, Ocupada

LEMMA DialogoInterfaz ==
    ASSUME TypeOK, NEW i \in Interfaces, DialogoDe(i), DelPrograma(i)
    PROVE  DialogoDe(i)' /\ TipoInterfaces'
<1>t. /\ pc_io \in [Interfaces -> Fases]
      /\ tarea \in [Interfaces -> Tarea]
      /\ de_kernel \in [Interfaces -> Seq(Mensaje)]
      /\ a_kernel \in [Interfaces -> Seq(Respuestas)]
  BY Partes DEF TipoInterfaces, TipoPc, TipoTarea, TipoIda, TipoVuelta
<1>k. pc_k[i] \in PcKernel BY Partes DEF TipoHilo
<1>m. tarea[i] \in Tarea /\ de_kernel[i] \in Seq(Mensaje) /\ a_kernel[i] \in Seq(Respuestas)
  BY <1>t
<1>u. pc_k' = pc_k /\ mano' = mano /\ bloq' = bloq
  BY DEF DelPrograma, EnInterfaz, Escribe, Cierra, kernel
<1>b. \A n \in DOMAIN bloq'[i] : bloq'[i][n].pid \in Pids BY <1>u DEF DialogoDe
<1>p. ASSUME NEW de, NEW a \in Fases, PasoEs(i, de, a)
      PROVE  pc_io[i] = de /\ pc_io'[i] = a /\ TipoPc'
  BY <1>p, <1>t DEF PasoEs, TipoPc
<1>f. /\ "atiende" \in Fases /\ "opera" \in Fases /\ "escribe" \in Fases /\ "fin" \in Fases
      /\ \A x \in Fases : x \in {"conecta", "atiende", "escribe", "opera", "fin"}
  BY DEF Fases
<1>l. ASSUME NEW op, EsLee(i, op)
      PROVE  /\ de_kernel[i] # <<>> /\ Head(de_kernel[i]) = de_kernel[i][1]
             /\ Head(de_kernel[i]) \in Mensaje /\ Head(de_kernel[i]).op = op
             /\ de_kernel'[i] = Tail(de_kernel[i]) /\ TipoIda'
  <2>1. de_kernel[i] # <<>> /\ Head(de_kernel[i]).op = op
        /\ de_kernel' = [de_kernel EXCEPT ![i] = Tail(@)]
    BY <1>l DEF EsLee
  <2>2. /\ Head(de_kernel[i]) = de_kernel[i][1] /\ Head(de_kernel[i]) \in Mensaje
        /\ Tail(de_kernel[i]) \in Seq(Mensaje)
    BY <2>1, <1>m, Cola
  <2> QED BY <2>1, <2>2, <1>t DEF TipoIda
<1>e. ASSUME NEW x \in Respuestas, EsEnvia(i, x)
      PROVE  a_kernel'[i] = Append(a_kernel[i], x) /\ TipoVuelta'
  <2>1. Append(a_kernel[i], x) \in Seq(Respuestas) BY <1>m
  <2> QED BY <1>e, <2>1, <1>t DEF EsEnvia, TipoVuelta
<1>v. ASSUME NEW x \in Respuestas, a_kernel[i] = <<>>
      PROVE  Len(Append(a_kernel[i], x)) = 1
  BY <1>v
<1>w. ASSUME Len(de_kernel[i]) = 1 PROVE Tail(de_kernel[i]) = <<>>
  BY <1>w, <1>m, Unica
<1>1. CASE EsConecta(i)
  <2>1. PasoEs(i, "conecta", IF SaleSiConecta THEN "fin" ELSE "atiende")
        /\ UNCHANGED <<tarea, de_kernel, a_kernel>>
    BY <1>1 DEF EsConecta
  <2>2. pc_io[i] = "conecta" /\ pc_io'[i] \in {"fin", "atiende"} /\ TipoPc'
    BY <2>1, <1>p, <1>f
  <2>3. TipoInterfaces' BY <2>1, <2>2, <1>t DEF TipoInterfaces, TipoTarea, TipoIda, TipoVuelta
  <2>4. ~Ocupada(i) /\ ~Ocupada(i)' BY <2>2 DEF Ocupada
  <2>5. pc_k[i] \in {"pregunta_nombre", "espera_nombre"} BY <2>2 DEF DialogoDe
  <2> QED BY <2>1, <2>2, <2>3, <2>4, <2>5, <1>u, <1>b DEF DialogoDe, Callado, Informa
<1>2. CASE EsInforma(i)
  <2>1. PICK op \in {"INFORMAR_NOMBRE", "INFORMAR_TIPO"}, x \in Respuestas :
          PasoEs(i, "atiende", "atiende") /\ EsLee(i, op) /\ EsEnvia(i, x) /\ tarea' = tarea
    BY <1>2 DEF EsInforma, Respuestas
  <2>2. pc_io[i] = "atiende" /\ pc_io'[i] = "atiende" /\ TipoPc' BY <2>1, <1>p, <1>f
  <2>3. /\ de_kernel[i] # <<>> /\ de_kernel[i][1].op = op
        /\ de_kernel'[i] = Tail(de_kernel[i]) /\ TipoIda'
    BY <2>1, <1>l
  <2>4. a_kernel'[i] = Append(a_kernel[i], x) /\ TipoVuelta' BY <2>1, <1>e
  <2>5. TipoInterfaces' BY <2>1, <2>2, <2>3, <2>4, <1>t DEF TipoInterfaces, TipoTarea
  <2>o. ~Ocupada(i) /\ ~Ocupada(i)' BY <2>2 DEF Ocupada
  <2>6. ASSUME NEW o, Informa(i, o) PROVE Informa(i, o)'
    <3>1. Len(de_kernel[i]) = 1 /\ a_kernel[i] = <<>> BY <2>3, <2>6 DEF Informa
    <3>2. de_kernel'[i] = <<>> /\ Len(a_kernel'[i]) = 1 BY <3>1, <2>3, <2>4, <1>v, <1>w
    <3> QED BY <2>2, <2>o, <2>6, <3>2, <1>u DEF Informa
  <2>7. ~Atendido(i) /\ ~Callado(i) BY <2>1, <2>2, <2>3 DEF Atendido, Callado
  <2> QED BY <2>1, <2>2, <2>o, <2>5, <2>6, <2>7, <1>u, <1>b DEF DialogoDe
<1>3. CASE EsInstruccion(i)
  <2> DEFINE a == IF TipoInterfaz[i] = "STDIN" THEN "escribe" ELSE "opera"
  <2>1. /\ PasoEs(i, "atiende", a) /\ EsLee(i, "INSTRUCCION") /\ a_kernel' = a_kernel
        /\ tarea' = [tarea EXCEPT ![i] = [pid |-> Head(de_kernel[i]).pid,
                                      piezas |-> Head(de_kernel[i]).traducciones,
                                      exitosa |-> TRUE]]
    BY <1>3 DEF EsInstruccion
  <2>a. a \in Fases /\ a \in {"escribe", "opera"} BY <1>f
  <2> HIDE DEF a
  <2>2. pc_io[i] = "atiende" /\ pc_io'[i] = a /\ TipoPc' BY <2>1, <2>a, <1>p
  <2>3. /\ de_kernel[i] # <<>> /\ Head(de_kernel[i]) = de_kernel[i][1]
        /\ Head(de_kernel[i]) \in Mensaje /\ de_kernel[i][1].op = "INSTRUCCION"
        /\ de_kernel'[i] = Tail(de_kernel[i]) /\ TipoIda'
    BY <2>1, <1>l
  <2>4. TipoTarea' /\ tarea'[i].pid = de_kernel[i][1].pid
    BY <2>1, <2>3, <1>t DEF TipoTarea, Tarea, Mensaje
  <2>5. TipoInterfaces' BY <2>1, <2>2, <2>3, <2>4, <1>t DEF TipoInterfaces, TipoVuelta
  <2>o. Ocupada(i)' /\ ~Ocupada(i) BY <2>a, <2>2 DEF Ocupada
  <2>6. \A o \in {"INFORMAR_NOMBRE", "INFORMAR_TIPO"} : ~Informa(i, o) BY <2>3 DEF Informa
  <2>7. ~Callado(i) BY <2>3 DEF Callado
  <2>8. pc_k[i] = "recibe" /\ Atendido(i) BY <2>6, <2>7, <1>k DEF DialogoDe, PcKernel, SinNadaEnMano
  <2>9. Len(de_kernel[i]) = 1 /\ de_kernel[i][1].pid = mano[i].pid /\ a_kernel[i] = <<>>
        /\ mano[i].pid \in Pids
    BY <2>2, <2>3, <2>8 DEF Atendido
  <2>10. de_kernel'[i] = <<>> BY <2>3, <2>9, <1>w
  <2>11. Atendido(i)' BY <2>1, <2>4, <2>9, <2>10, <1>u DEF Atendido
  <2>12. pc_io'[i] # "conecta" BY <2>a, <2>2
  <2> QED BY <2>o, <2>5, <2>8, <2>11, <2>12, <1>u, <1>b DEF DialogoDe, SinNadaEnMano
<1>4. CASE EsPieza(i)
  <2>1. /\ PasoEs(i, "opera", "opera") /\ tarea[i].piezas # <<>> /\ UNCHANGED <<de_kernel, a_kernel>>
        /\ tarea' = [tarea EXCEPT ![i] = [pid |-> tarea[i].pid,
                                          piezas |-> Tail(tarea[i].piezas),
                                          exitosa |-> TipoInterfaz[i] # "STDIN"]]
    BY <1>4 DEF EsPieza
  <2>2. pc_io[i] = "opera" /\ pc_io'[i] = "opera" /\ TipoPc' BY <2>1, <1>p, <1>f
  <2>3. Tail(tarea[i].piezas) \in Seq(Pieza) BY <2>1, <1>m DEF Tarea
  <2>5. TipoTarea' /\ tarea'[i].pid = tarea[i].pid
    BY <2>1, <2>3, <1>t, <1>m DEF TipoTarea, Tarea
  <2>6. TipoInterfaces' BY <2>1, <2>2, <2>5, <1>t DEF TipoInterfaces, TipoIda, TipoVuelta
  <2>o. Ocupada(i) /\ Ocupada(i)' BY <2>2 DEF Ocupada
  <2> QED BY <2>1, <2>2, <2>o, <2>5, <2>6, <1>u, <1>b DEF DialogoDe, Callado, Informa, Atendido
<1>5. CASE EsAvisa(i)
  <2>1. /\ PasoEs(i, "opera", "atiende") /\ de_kernel' = de_kernel
        /\ EsEnvia(i, IF tarea[i].exitosa THEN "1" ELSE "0")
        /\ tarea' = [tarea EXCEPT ![i] = SinTarea]
    BY <1>5 DEF EsAvisa
  <2> DEFINE x == IF tarea[i].exitosa THEN "1" ELSE "0"
  <2>2. pc_io[i] = "opera" /\ pc_io'[i] = "atiende" /\ TipoPc' BY <2>1, <1>p, <1>f
  <2>3. x \in Respuestas BY DEF Respuestas
  <2>x. EsEnvia(i, x) BY <2>1
  <2> HIDE DEF x
  <2>4. a_kernel'[i] = Append(a_kernel[i], x) /\ TipoVuelta' BY <2>x, <2>3, <1>e
  <2>5. TipoTarea' /\ tarea'[i] = SinTarea BY <2>1, <1>t, PedidoVacio DEF TipoTarea
  <2>6. TipoInterfaces' BY <2>1, <2>2, <2>4, <2>5, <1>t DEF TipoInterfaces, TipoIda
  <2>o. Ocupada(i) /\ ~Ocupada(i)' BY <2>2 DEF Ocupada
  <2>7. pc_k[i] = "recibe" /\ Atendido(i)
    BY <2>o, <1>k DEF DialogoDe, PcKernel, Callado, Informa, SinNadaEnMano
  <2>8. de_kernel[i] = <<>> /\ a_kernel[i] = <<>> /\ mano[i].pid \in Pids
    BY <2>2, <2>o, <2>7 DEF Atendido
  <2>9. Len(a_kernel'[i]) = 1 BY <2>3, <2>4, <2>8, <1>v
  <2>10. Atendido(i)' BY <2>1, <2>o, <2>8, <2>9, <1>u DEF Atendido
  <2> QED BY <2>2, <2>o, <2>5, <2>6, <2>7, <2>10, <1>u, <1>b DEF DialogoDe, SinNadaEnMano
<1>6. CASE Escribe(i)
  <2>1. PasoEs(i, "escribe", "opera") /\ UNCHANGED <<tarea, de_kernel, a_kernel>>
    BY <1>6 DEF Escribe, UsuarioEscribe
  <2>2. pc_io[i] = "escribe" /\ pc_io'[i] = "opera" /\ TipoPc' BY <2>1, <1>p, <1>f
  <2>3. TipoInterfaces' BY <2>1, <2>2, <1>t DEF TipoInterfaces, TipoTarea, TipoIda, TipoVuelta
  <2>o. Ocupada(i) /\ Ocupada(i)' BY <2>2 DEF Ocupada
  <2> QED BY <2>1, <2>2, <2>o, <2>3, <1>u, <1>b DEF DialogoDe, Callado, Informa, Atendido
<1>7. CASE Cierra(i)
  <2>1. /\ Conectada(i) /\ pc_io' = [pc_io EXCEPT ![i] = "fin"] /\ a_kernel' = a_kernel
        /\ tarea' = [tarea EXCEPT ![i] = SinTarea] /\ de_kernel' = [de_kernel EXCEPT ![i] = <<>>]
    BY <1>7 DEF Cierra, EsCierra
  <2>2. pc_io'[i] = "fin" /\ TipoPc' BY <2>1, <1>t, <1>f DEF TipoPc
  <2>3. tarea'[i] = SinTarea /\ TipoTarea' BY <2>1, <1>t, PedidoVacio DEF TipoTarea
  <2>4. de_kernel'[i] = <<>> /\ TipoIda'
    <3>1. <<>> \in Seq(Mensaje) OBVIOUS
    <3> QED BY <2>1, <3>1, <1>t DEF TipoIda
  <2>5. TipoInterfaces' BY <2>1, <2>2, <2>3, <2>4, <1>t DEF TipoInterfaces, TipoVuelta
  <2>o. ~Ocupada(i)' BY <2>2 DEF Ocupada
  <2>6. Callado(i) => Callado(i)' BY <2>1, <2>4, <2>o DEF Callado
  <2>7. Atendido(i) => Atendido(i)' BY <2>1, <2>4, <2>o, <1>u DEF Atendido
  <2> QED BY <2>1, <2>2, <2>3, <2>5, <2>6, <2>7, <1>u, <1>b DEF DialogoDe, Conectada
<1> QED BY <1>1, <1>2, <1>3, <1>4, <1>5, <1>6, <1>7 DEF DelPrograma, EnInterfaz, Interfaz

-----------------------------------------------------------------------------
(* Types, TLB and dialogue are inductive together.                         *)

Bien == TypeOK /\ TlbAcotada /\ Dialogo

LEMMA DialogoIgual == ASSUME Dialogo, UNCHANGED <<kernel, esvars>> PROVE Dialogo'
<1> SUFFICES ASSUME NEW i \in Interfaces PROVE DialogoDe(i)' BY DEF Dialogo
<1>1. DialogoDe(i) BY DEF Dialogo
<1>2. UNCHANGED dialogo(i) BY DEF dialogo, kernel, esvars
<1> QED BY <1>1, <1>2, OtroDialogo

LEMMA TlbIgual == ASSUME TlbAcotada, UNCHANGED tlb PROVE TlbAcotada'
  BY DEF TlbAcotada, Entradas

\* A step that leaves the TLB, the kernel and the interfaces alone.
LEMMA BienSiTipos ==
    ASSUME Bien, UNCHANGED <<tlb, kernel, esvars>>,
           TipoMemoria', TipoProcesos', TipoCuenta', TipoMov'
    PROVE  Bien'
<1>1. TypeOK /\ TlbAcotada /\ Dialogo BY DEF Bien
<1>2. TipoTlb' /\ TipoHilo' /\ TipoColas' /\ TipoInterfaces'
  BY <1>1, Partes, TiposIguales DEF kernel
<1>3. TypeOK' BY <1>2, PartesPrimas
<1>4. Dialogo' BY <1>1, DialogoIgual
<1>5. TlbAcotada' BY <1>1, TlbIgual
<1> QED BY <1>3, <1>4, <1>5 DEF Bien

\* A process changes its state, and may be sent to EXIT.
LEMMA TipoCambia ==
    ASSUME TipoProcesos, NEW p \in Pids, NEW a \in Estados,
           estado' = [estado EXCEPT ![p] = a], cola_block' \subseteq Pids,
           cola_exit' = cola_exit \/ AExit(p)
    PROVE  TipoProcesos'
<1>1. cola_exit' \in Seq(Pids) BY DEF TipoProcesos, AExit
<1> QED BY <1>1 DEF TipoProcesos

\* A kill from the console, wherever the process was found.
LEMMA Matado ==
    ASSUME NEW p \in Pids, Mata(p)
    PROVE  /\ estado' = [estado EXCEPT ![p] = "EXIT"] /\ AExit(p)
           /\ cola_block' \subseteq cola_block
           /\ dudosos \subseteq dudosos' /\ dudosos' \subseteq dudosos \cup {p}
           /\ \/ estado[p] = "READY"
              \/ estado[p] \in {"BLOCKED", "EXIT"} /\ (Pide(p) => p \in dudosos')
           /\ UNCHANGED <<tlb, kernel, esvars>> /\ UNCHANGED <<vivo, debe_planificar, memoria>>
           /\ UNCHANGED mov /\ pedidos' = pedidos
<1>1. CASE MataEnReady(p) BY <1>1 DEF MataEnReady, Cambia
<1>2. CASE MataEnBlock(p) BY <1>2 DEF MataEnBlock
<1> QED BY <1>1, <1>2 DEF Mata

LEMMA BienEstados ==
    ASSUME Bien, NEW p \in Pids, Despacha(p) \/ Desaloja(p) \/ Exit(p) \/ Mata(p)
    PROVE  Bien'
<1>1. TypeOK BY DEF Bien
<1>2. /\ UNCHANGED <<tlb, kernel, esvars>> /\ UNCHANGED <<vivo, debe_planificar, memoria>>
      /\ UNCHANGED mov /\ pedidos' = pedidos
  BY Matado DEF Despacha, Desaloja, Exit
<1>3. PICK a \in Estados : estado' = [estado EXCEPT ![p] = a]
  BY Matado DEF Despacha, Desaloja, Exit, Cambia, Estados
<1>4. cola_exit' = cola_exit \/ AExit(p) BY Matado DEF Despacha, Desaloja, Exit
<1>5. cola_block' \subseteq Pids
  <2>1. cola_block' \subseteq cola_block BY Matado DEF Despacha, Desaloja, Exit
  <2> QED BY <1>1, <2>1, Partes DEF TipoProcesos
<1>6. TipoProcesos' BY <1>1, <1>3, <1>4, <1>5, TipoCambia, Partes
<1>7. TipoMemoria' /\ TipoMov' BY <1>1, <1>2, Partes, TiposIguales
<1>8. TipoCuenta'
  <2>1. dudosos' \subseteq dudosos \cup {p} BY Matado DEF Despacha, Desaloja, Exit
  <2> QED BY <1>1, <1>2, <2>1, Partes DEF TipoCuenta
<1> QED BY <1>2, <1>6, <1>7, <1>8, BienSiTipos

LEMMA BienOrdena == ASSUME Bien, Ordena PROVE Bien'
<1>1. TypeOK BY DEF Bien
<1>2. UNCHANGED <<tlb, kernel, esvars>> /\ UNCHANGED procesos /\ UNCHANGED <<pedidos, dudosos>>
      /\ UNCHANGED mov
  BY DEF Ordena
<1>3. TipoProcesos' /\ TipoCuenta' /\ TipoMov' BY <1>1, <1>2, Partes, TiposIguales
<1>4. TipoMemoria' BY <1>1, Partes DEF Ordena, TipoMemoria, memoria
<1> QED BY <1>2, <1>3, <1>4, BienSiTipos

LEMMA BienCae == ASSUME Bien, Cae PROVE Bien'
<1>1. TypeOK BY DEF Bien
<1>2. UNCHANGED <<tlb, kernel, esvars>> /\ UNCHANGED procesos /\ UNCHANGED <<pedidos, dudosos>>
      /\ UNCHANGED mov
  BY DEF Cae
<1>3. TipoProcesos' /\ TipoCuenta' /\ TipoMov' BY <1>1, <1>2, Partes, TiposIguales
<1>4. TipoMemoria' BY <1>1, Partes DEF Cae, TipoMemoria, memoria
<1> QED BY <1>2, <1>3, <1>4, BienSiTipos

\* The memory: a table grows or shrinks, or a process leaves the list.
LEMMA TablaDespues ==
    ASSUME TypeOK, NEW p \in Pids, Tablas!Crece(p) \/ Tablas!Achica(p) \/ Tablas!Suelta(p)
    PROVE  tabla' \in [Pids -> Seq(Marcos)]
<1>1. tabla \in [Pids -> Seq(Marcos)] /\ tabla[p] \in Seq(Marcos) BY DEF TypeOK
<1>2. CASE Tablas!Crece(p)
  <2>1. PICK m \in Marcos : tabla' = [tabla EXCEPT ![p] = Append(@, m)]
    BY <1>2 DEF Tablas!Crece, Tablas!Libres
  <2> QED BY <1>1, <2>1
<1>3. CASE Tablas!Achica(p)
  <2>1. tabla[p] # <<>> /\ tabla' = [tabla EXCEPT ![p] = SubSeq(@, 1, Len(@) - 1)]
    BY <1>3 DEF Tablas!Achica
  <2>2. SubSeq(tabla[p], 1, Len(tabla[p]) - 1) \in Seq(Marcos) BY <1>1, <2>1
  <2> QED BY <1>1, <2>1, <2>2
<1>4. CASE Tablas!Suelta(p)
  <2>1. tabla[p] # <<>> /\ tabla' = [tabla EXCEPT ![p] = Tail(@)] BY <1>4 DEF Tablas!Suelta
  <2>2. Tail(tabla[p]) \in Seq(Marcos) BY <1>1, <2>1
  <2> QED BY <1>1, <2>1, <2>2
<1> QED BY <1>2, <1>3, <1>4

LEMMA BienMemoria ==
    ASSUME Bien, NEW p \in Pids, Amplia(p) \/ Recorta(p) \/ Suelta(p)
    PROVE  Bien'
<1>1. TypeOK BY DEF Bien
<1>2. /\ UNCHANGED <<tlb, kernel, esvars>> /\ UNCHANGED procesos /\ UNCHANGED mov
      /\ UNCHANGED <<vivo, debe_planificar, lista, pedidos>>
  BY DEF Amplia, Recorta, Suelta
<1>3. tabla' \in [Pids -> Seq(Marcos)] BY <1>1, TablaDespues DEF Amplia, Recorta, Suelta
<1>4. TipoMemoria' BY <1>1, <1>2, <1>3, Partes DEF TipoMemoria
<1>5. TipoCuenta' BY <1>1, <1>2, Partes DEF Amplia, Recorta, Suelta, TipoCuenta
<1>6. TipoProcesos' /\ TipoMov' BY <1>1, <1>2, Partes, TiposIguales
<1> QED BY <1>2, <1>4, <1>5, <1>6, BienSiTipos

LEMMA BienRetira == ASSUME Bien, Retira PROVE Bien'
<1>1. TypeOK BY DEF Bien
<1>2. UNCHANGED <<tlb, kernel, esvars>> /\ UNCHANGED mov /\ UNCHANGED <<pedidos, dudosos>>
  BY DEF Retira
<1>3. TipoMov' /\ TipoCuenta' BY <1>1, <1>2, Partes, TiposIguales
<1>4. TipoMemoria' BY <1>1, Partes DEF Retira, TipoMemoria
<1>5. TipoProcesos'
  <2>1. cola_exit \in Seq(Pids) /\ cola_exit # <<>> /\ cola_exit' = Tail(cola_exit)
        /\ UNCHANGED <<estado, cola_block>>
    BY <1>1, Partes DEF TipoProcesos, Retira
  <2>2. Tail(cola_exit) \in Seq(Pids) BY <2>1
  <2> QED BY <1>1, <2>1, <2>2, Partes DEF TipoProcesos
<1> QED BY <1>2, <1>3, <1>4, <1>5, BienSiTipos

LEMMA BienMovPieza == ASSUME Bien, MovPieza PROVE Bien'
<1>1. TypeOK BY DEF Bien
<1>2. UNCHANGED <<tlb, kernel, esvars>> /\ UNCHANGED procesos /\ UNCHANGED <<pedidos, dudosos>>
      /\ UNCHANGED <<vivo, debe_planificar, memoria>>
  BY DEF MovPieza
<1>3. TipoProcesos' /\ TipoCuenta' /\ TipoMemoria' BY <1>1, <1>2, Partes, TiposIguales
<1>4. mov \in Seq(Pieza) /\ mov # <<>> /\ mov' = Tail(mov) BY <1>1, Partes DEF TipoMov, MovPieza
<1>5. Tail(mov) \in Seq(Pieza) BY <1>4
<1>6. TipoMov' BY <1>4, <1>5 DEF TipoMov
<1> QED BY <1>2, <1>3, <1>6, BienSiTipos

LEMMA BienMov ==
    ASSUME Bien, NEW p \in Pids, NEW dir \in Nat, NEW tam \in Nat, Mov(p, dir, tam)
    PROVE  Bien'
<1>1. TypeOK /\ TlbAcotada /\ Dialogo BY DEF Bien
<1>2. Traduce(p, dir, tam) BY DEF Mov
<1>3. TipoTlb' /\ TlbAcotada' BY <1>1, <1>2, TlbTraducida
<1>4. UNCHANGED kernel /\ UNCHANGED esvars /\ UNCHANGED procesos /\ UNCHANGED <<pedidos, dudosos>>
      /\ UNCHANGED <<vivo, debe_planificar, memoria>>
  BY DEF Mov
<1>5. Dialogo' BY <1>1, <1>4, DialogoIgual
<1>6. ~PideMarcoQueNoHay(p, dir, tam) BY <1>2 DEF Traduce
<1>7. mov' = ObtenerTraducciones(p, dir, tam) BY DEF Mov
<1>8. TipoMov' BY <1>1, <1>6, <1>7, Traducidas DEF TipoMov
<1>9. /\ TipoMemoria' /\ TipoProcesos' /\ TipoCuenta' /\ TipoHilo' /\ TipoColas' /\ TipoInterfaces'
  BY <1>1, <1>4, Partes, TiposIguales DEF kernel
<1>10. TypeOK' BY <1>3, <1>8, <1>9, PartesPrimas
<1> QED BY <1>3, <1>5, <1>10 DEF Bien

LEMMA BienIoStdoutWrite ==
    ASSUME Bien, NEW p \in Pids, NEW dir \in Nat, NEW tam \in Nat, IoStdoutWrite(p, dir, tam)
    PROVE  Bien'
<1>1. TypeOK /\ TlbAcotada /\ Dialogo BY DEF Bien
<1>2. Traduce(p, dir, tam) BY DEF IoStdoutWrite
<1>3. TipoTlb' /\ TlbAcotada' BY <1>1, <1>2, TlbTraducida
<1>4. UNCHANGED kernel /\ UNCHANGED esvars /\ UNCHANGED mov /\ UNCHANGED <<pedidos, dudosos>>
      /\ UNCHANGED <<vivo, debe_planificar, memoria>>
  BY DEF IoStdoutWrite
<1>5. Dialogo' BY <1>1, <1>4, DialogoIgual
<1>6. TipoProcesos'
  <2>1. "EXIT" \in Estados /\ estado' = [estado EXCEPT ![p] = "EXIT"] /\ AExit(p)
    BY DEF IoStdoutWrite, Cambia, Estados
  <2>2. cola_block' \subseteq Pids BY <1>1, Partes DEF IoStdoutWrite, TipoProcesos
  <2> QED BY <1>1, <2>1, <2>2, TipoCambia, Partes
<1>7. /\ TipoMemoria' /\ TipoMov' /\ TipoCuenta' /\ TipoHilo' /\ TipoColas' /\ TipoInterfaces'
  BY <1>1, <1>4, Partes, TiposIguales DEF kernel
<1>8. TypeOK' BY <1>3, <1>6, <1>7, PartesPrimas
<1> QED BY <1>3, <1>5, <1>8 DEF Bien

\* IO_STDIN_READ, whether the interface is there or not.
PedidoNuevo(p, dir, tam) ==
    [pid |-> p, dir |-> dir, tam |-> tam, traducciones |-> ObtenerTraducciones(p, dir, tam)]

LEMMA ColasDespues ==
    ASSUME TypeOK, TlbAcotada, Dialogo, NEW p \in Pids, NEW i \in Interfaces,
           NEW dir \in Nat, NEW tam \in Nat, IoStdinRead(p, i, dir, tam), Conectada(i)
    PROVE  /\ PedidoNuevo(p, dir, tam) \in Pedido /\ PedidoNuevo(p, dir, tam).pid = p
           /\ PedidoNuevo(p, dir, tam).traducciones = ObtenerTraducciones(p, dir, tam)
           /\ bloq' = [bloq EXCEPT ![i] = Append(@, PedidoNuevo(p, dir, tam))]
           /\ TipoColas' /\ bloq'[i] = Append(bloq[i], PedidoNuevo(p, dir, tam))
           /\ bloq[i] \in Seq(Pedido)
           /\ estado' = [estado EXCEPT ![p] = "BLOCKED"] /\ UNCHANGED cola_exit
           /\ cola_block' = cola_block \cup {p}
<1> DEFINE r == PedidoNuevo(p, dir, tam)
<1>1. ~PideMarcoQueNoHay(p, dir, tam) BY DEF IoStdinRead, Traduce
<1>2. ObtenerTraducciones(p, dir, tam) \in Seq(Pieza) BY <1>1, Traducidas
<1>3. r \in Pedido /\ r.pid = p /\ r.traducciones = ObtenerTraducciones(p, dir, tam)
  BY <1>2 DEF Pedido, PedidoNuevo
<1>4. bloq' = [bloq EXCEPT ![i] = Append(@, r)] BY DEF IoStdinRead, PedidoNuevo
<1>5. /\ estado' = [estado EXCEPT ![p] = "BLOCKED"] /\ UNCHANGED cola_exit
      /\ cola_block' = cola_block \cup {p}
  BY DEF IoStdinRead, Cambia
<1> HIDE DEF r
<1>6. bloq \in [Interfaces -> Seq(Pedido)] BY Partes DEF TipoColas
<1>7. Append(bloq[i], r) \in Seq(Pedido) BY <1>3, <1>6
<1>8. TipoColas' /\ bloq'[i] = Append(bloq[i], r) /\ bloq[i] \in Seq(Pedido)
  BY <1>4, <1>6, <1>7 DEF TipoColas
<1> QED BY <1>3, <1>4, <1>5, <1>8 DEF r

LEMMA BienIoStdinRead ==
    ASSUME Bien, NEW p \in Pids, NEW i \in Interfaces, NEW dir \in Nat, NEW tam \in Nat,
           IoStdinRead(p, i, dir, tam)
    PROVE  Bien'
<1>1. TypeOK /\ TlbAcotada /\ Dialogo BY DEF Bien
<1>2. Traduce(p, dir, tam) BY DEF IoStdinRead
<1>3. TipoTlb' /\ TlbAcotada' BY <1>1, <1>2, TlbTraducida
<1>4. /\ UNCHANGED <<vivo, debe_planificar, memoria>> /\ UNCHANGED mov /\ UNCHANGED <<pc_k, mano>>
      /\ UNCHANGED esvars /\ dudosos' = dudosos /\ pedidos' = pedidos + 1
  BY DEF IoStdinRead
<1>5. TipoCuenta' BY <1>1, <1>4, Partes DEF TipoCuenta
<1>6. TipoMemoria' /\ TipoMov' /\ TipoHilo' /\ TipoInterfaces' BY <1>1, <1>4, Partes, TiposIguales
<1>7. CASE ~Conectada(i)
  <2>1. UNCHANGED <<cola_block, bloq>> /\ estado' = [estado EXCEPT ![p] = "EXIT"] /\ AExit(p)
    BY <1>7 DEF IoStdinRead, Cambia
  <2>2. "EXIT" \in Estados /\ cola_block' \subseteq Pids
    BY <1>1, <2>1, Partes DEF Estados, TipoProcesos
  <2>3. TipoProcesos' BY <1>1, <2>1, <2>2, TipoCambia, Partes
  <2>4. TipoColas' BY <1>1, <2>1, Partes, TiposIguales
  <2>5. Dialogo' BY <1>1, <1>4, <2>1, DialogoIgual DEF kernel
  <2>6. TypeOK' BY <1>3, <1>5, <1>6, <2>3, <2>4, PartesPrimas
  <2> QED BY <1>3, <2>5, <2>6 DEF Bien
<1>8. CASE Conectada(i)
  <2> DEFINE r == PedidoNuevo(p, dir, tam)
  <2>1. /\ r \in Pedido /\ r.pid = p /\ TipoColas' /\ bloq'[i] = Append(bloq[i], r)
        /\ bloq[i] \in Seq(Pedido) /\ bloq' = [bloq EXCEPT ![i] = Append(@, r)]
        /\ estado' = [estado EXCEPT ![p] = "BLOCKED"] /\ UNCHANGED cola_exit
        /\ cola_block' = cola_block \cup {p}
    BY <1>1, <1>8, ColasDespues
  <2> HIDE DEF r
  <2>2. "BLOCKED" \in Estados /\ cola_block' \subseteq Pids
    BY <1>1, <2>1, Partes DEF Estados, TipoProcesos
  <2>3. TipoProcesos' BY <1>1, <2>1, <2>2, TipoCambia, Partes
  <2>4. TypeOK' BY <1>3, <1>5, <1>6, <2>1, <2>3, PartesPrimas
  <2>5. ASSUME NEW j \in Interfaces PROVE DialogoDe(j)'
    <3>1. DialogoDe(j) BY <1>1 DEF Dialogo
    <3>2. UNCHANGED <<pc_io[j], tarea[j], pc_k[j], mano[j], de_kernel[j], a_kernel[j]>>
      BY <1>4 DEF esvars
    <3>3. CASE j # i
      <4>1. bloq'[j] = bloq[j] BY <3>3, <2>1, <1>1, Partes DEF TipoColas
      <4> QED BY <3>1, <3>2, <4>1, OtroDialogo DEF dialogo
    <3>4. CASE j = i
      <4>1. \A n \in DOMAIN bloq'[i] : bloq'[i][n].pid \in Pids
        BY <2>1, <3>1, <3>4, Agregado DEF DialogoDe
      <4> QED BY <3>1, <3>2, <3>4, <4>1 DEF DialogoDe, Callado, Informa, Atendido, Ocupada
    <3> QED BY <3>3, <3>4
  <2>6. Dialogo' BY <2>5 DEF Dialogo
  <2> QED BY <1>3, <2>4, <2>6 DEF Bien
<1> QED BY <1>7, <1>8

\* The threads of the kernel for the interfaces, and the interfaces.
LEMMA BienHilos ==
    ASSUME Bien, NEW i \in Interfaces, Atiende(i) \/ DelPrograma(i)
    PROVE  Bien'
<1>1. TypeOK /\ TlbAcotada /\ Dialogo BY DEF Bien
<1>2. DialogoDe(i) BY <1>1 DEF Dialogo
<1>3. /\ UNCHANGED <<vivo, debe_planificar, memoria>> /\ UNCHANGED mov /\ UNCHANGED tlb
      /\ UNCHANGED <<pedidos, dudosos>> /\ cola_block' = cola_block
  BY DEF Atiende, KPregunta, KConoce, KMiraPlan, KToma, KRecibe, KRecibeNada, KDevuelve, KVacia,
         KLibera, DelPrograma, EnInterfaz, Escribe, Cierra, procesos
<1>4. TlbAcotada' BY <1>1, <1>3, TlbIgual
<1>5. TipoMemoria' /\ TipoMov' /\ TipoTlb' /\ TipoCuenta' BY <1>1, <1>3, Partes, TiposIguales
<1>6. ASSUME DialogoDe(i)' PROVE Dialogo'
  <2> SUFFICES ASSUME NEW j \in Interfaces PROVE DialogoDe(j)' BY DEF Dialogo
  <2>1. CASE j = i BY <1>6, <2>1
  <2>2. CASE j # i
    <3>1. UNCHANGED dialogo(j) BY <1>1, <2>2, DialogoAjeno
    <3>2. DialogoDe(j) BY <1>1 DEF Dialogo
    <3> QED BY <3>1, <3>2, OtroDialogo
  <2> QED BY <2>1, <2>2
<1>7. ASSUME DialogoDe(i)', TipoProcesos', TipoHilo', TipoColas', TipoInterfaces' PROVE Bien'
  BY <1>4, <1>5, <1>6, <1>7, PartesPrimas DEF Bien
<1>p. CASE KPregunta(i)
  <2>1. DialogoDe(i)' /\ TipoHilo' /\ TipoIda' BY <1>1, <1>2, <1>p, DialogoPregunta
  <2>2. UNCHANGED procesos /\ UNCHANGED bloq /\ UNCHANGED <<pc_io, tarea, a_kernel>>
    BY <1>p DEF KPregunta
  <2>3. TipoProcesos' /\ TipoColas' BY <1>1, <2>2, Partes, TiposIguales
  <2>4. TipoInterfaces'
    BY <1>1, <2>1, <2>2, Partes DEF TipoInterfaces, TipoPc, TipoTarea, TipoVuelta
  <2> QED BY <1>7, <2>1, <2>3, <2>4
<1>c. CASE KConoce(i)
  <2>1. DialogoDe(i)' /\ TipoHilo' /\ TipoVuelta' BY <1>1, <1>2, <1>c, DialogoConoce
  <2>2. UNCHANGED procesos /\ UNCHANGED bloq /\ UNCHANGED <<pc_io, tarea, de_kernel>>
    BY <1>c DEF KConoce
  <2>3. TipoProcesos' /\ TipoColas' BY <1>1, <2>2, Partes, TiposIguales
  <2>4. TipoInterfaces'
    BY <1>1, <2>1, <2>2, Partes DEF TipoInterfaces, TipoPc, TipoTarea, TipoIda
  <2> QED BY <1>7, <2>1, <2>3, <2>4
<1>t. CASE KToma(i)
  <2>1. DialogoDe(i)' /\ TipoHilo' /\ TipoColas' /\ TipoIda' BY <1>1, <1>2, <1>t, DialogoToma
  <2>2. UNCHANGED procesos /\ UNCHANGED <<pc_io, tarea, a_kernel>> BY <1>t DEF KToma
  <2>3. TipoProcesos' BY <1>1, <2>2, Partes, TiposIguales
  <2>4. TipoInterfaces'
    BY <1>1, <2>1, <2>2, Partes DEF TipoInterfaces, TipoPc, TipoTarea, TipoVuelta
  <2> QED BY <1>7, <2>1, <2>3, <2>4
<1>b. cola_block' \subseteq Pids BY <1>1, <1>3, Partes DEF TipoProcesos
<1>r. CASE KRecibe(i)
  <2>1. DialogoDe(i)' /\ TipoHilo' /\ TipoVuelta' /\ mano[i].pid \in Pids
    BY <1>1, <1>2, <1>r, DialogoRecibe
  <2>2. UNCHANGED bloq /\ UNCHANGED <<pc_io, tarea, de_kernel>> BY <1>r DEF KRecibe
  <2>3. TipoProcesos'
    <3>1. CASE estado' = [estado EXCEPT ![mano[i].pid] = "READY"] /\ UNCHANGED cola_exit
      <4>1. "READY" \in Estados BY DEF Estados
      <4> QED BY <1>1, <1>b, <2>1, <3>1, <4>1, TipoCambia, Partes
    <3>2. CASE UNCHANGED estado /\ AExit(mano[i].pid)
      <4>1. cola_exit' \in Seq(Pids) BY <1>1, <2>1, <3>2, Partes DEF TipoProcesos, AExit
      <4> QED BY <1>1, <1>b, <3>2, <4>1, Partes DEF TipoProcesos
    <3> QED BY <1>r, <3>1, <3>2 DEF KRecibe
  <2>4. TipoColas' BY <1>1, <2>2, Partes, TiposIguales
  <2>5. TipoInterfaces'
    BY <1>1, <2>1, <2>2, Partes DEF TipoInterfaces, TipoPc, TipoTarea, TipoIda
  <2> QED BY <1>7, <2>1, <2>3, <2>4, <2>5
<1>m. CASE KMiraPlan(i) \/ KRecibeNada(i) \/ KLibera(i)
  <2>1. DialogoDe(i)' /\ TipoHilo' BY <1>1, <1>2, <1>m, DialogoAvanza
  <2>2. UNCHANGED procesos /\ UNCHANGED bloq /\ UNCHANGED esvars
    BY <1>m DEF KMiraPlan, KRecibeNada, KLibera
  <2>3. TipoProcesos' /\ TipoColas' /\ TipoInterfaces' BY <1>1, <2>2, Partes, TiposIguales
  <2> QED BY <1>7, <2>1, <2>3
<1>d. CASE KDevuelve(i)
  <2>1. DialogoDe(i)' /\ TipoHilo' /\ TipoColas' BY <1>1, <1>2, <1>d, DialogoDevuelve
  <2>2. UNCHANGED procesos /\ UNCHANGED esvars BY <1>d DEF KDevuelve
  <2>3. TipoProcesos' /\ TipoInterfaces' BY <1>1, <2>2, Partes, TiposIguales
  <2> QED BY <1>7, <2>1, <2>3
<1>v. CASE KVacia(i)
  <2>1. DialogoDe(i)' /\ TipoHilo' /\ TipoColas' /\ Head(bloq[i]).pid \in Pids
    BY <1>1, <1>2, <1>v, DialogoVacia
  <2>2. /\ estado' = [estado EXCEPT ![Head(bloq[i]).pid] = "EXIT"] /\ AExit(Head(bloq[i]).pid)
        /\ UNCHANGED esvars
    BY <1>v DEF KVacia
  <2>3. "EXIT" \in Estados BY DEF Estados
  <2>4. TipoProcesos' BY <1>1, <1>b, <2>1, <2>2, <2>3, TipoCambia, Partes
  <2>5. TipoInterfaces' BY <1>1, <2>2, Partes, TiposIguales
  <2> QED BY <1>7, <2>1, <2>4, <2>5
<1>e. CASE DelPrograma(i)
  <2>1. DialogoDe(i)' /\ TipoInterfaces' BY <1>1, <1>2, <1>e, DialogoInterfaz
  <2>2. UNCHANGED procesos /\ UNCHANGED kernel BY <1>e DEF DelPrograma, EnInterfaz, Escribe, Cierra
  <2>3. TipoProcesos' /\ TipoHilo' /\ TipoColas' BY <1>1, <2>2, Partes, TiposIguales DEF kernel
  <2> QED BY <1>7, <2>1, <2>3
<1> QED BY <1>p, <1>c, <1>t, <1>r, <1>m, <1>d, <1>v, <1>e DEF Atiende

\* The steps, by what they do.
Paso ==
    \/ \E p \in Pids : Despacha(p) \/ Desaloja(p) \/ Exit(p) \/ Mata(p)
    \/ \E p \in Pids : Amplia(p) \/ Recorta(p) \/ Suelta(p)
    \/ Cae \/ Retira \/ MovPieza \/ Ordena
    \/ \E p \in Pids : \E dir, tam \in Nat :
         Mov(p, dir, tam) \/ IoStdoutWrite(p, dir, tam)
    \/ \E p \in Pids : \E i \in Interfaces : \E dir, tam \in Nat : IoStdinRead(p, i, dir, tam)
    \/ \E i \in Interfaces : Atiende(i) \/ DelPrograma(i)

LEMMA Clasifica == ASSUME Next PROVE Paso
<1>1. CASE \E p \in Pids : Despacha(p) \/ Desaloja(p) \/ Mata(p) BY <1>1 DEF Paso
<1>2. ASSUME NEW p \in Pids, Instruccion(p) PROVE Paso
  <2>1. CASE Exit(p) BY <2>1 DEF Paso
  <2>2. CASE Resize(p) BY <2>2 DEF Resize, ResizeSinProceso, Paso
  <2>3. ASSUME NEW dir \in Direcciones, NEW tam \in TamRegistros, Mov(p, dir, tam) PROVE Paso
    <3>1. dir \in Nat /\ tam \in Nat BY DEF TamRegistros
    <3> QED BY <2>3, <3>1 DEF Paso
  <2>4. ASSUME NEW dir, NEW tam, TraduceYCae(p, dir, tam) PROVE Paso
    BY <2>4 DEF TraduceYCae, Paso
  <2>5. ASSUME NEW dir \in Direcciones, NEW tam \in Tamanios, IoStdoutWrite(p, dir, tam) PROVE Paso
    <3>1. dir \in Nat /\ tam \in Nat OBVIOUS
    <3> QED BY <2>5, <3>1 DEF Paso
  <2>6. ASSUME NEW dir \in Direcciones, NEW tam \in Tamanios, NEW i \in Interfaces,
               IoStdinRead(p, i, dir, tam)
        PROVE Paso
    <3>1. dir \in Nat /\ tam \in Nat OBVIOUS
    <3> QED BY <2>6, <3>1 DEF Paso
  <2> QED BY <1>2, <2>1, <2>2, <2>3, <2>4, <2>5, <2>6 DEF Instruccion
<1>3. CASE MovPieza \/ Ordena BY <1>3 DEF Paso
<1>4. ASSUME NEW i \in Interfaces,
             Atiende(i) \/ KUsaLiberada(i) \/ EnInterfaz(i) \/ Escribe(i) \/ Cierra(i)
      PROVE  Paso
  BY <1>4 DEF Paso, KUsaLiberada, DelPrograma
<1>5. CASE Salida BY <1>5 DEF Salida, RetiraDosVeces, Paso
<1> QED BY <1>1, <1>2, <1>3, <1>4, <1>5 DEF Next

LEMMA BienInicial == ASSUME Init PROVE Bien
<1>1. TypeOK
  <2>1. TipoMemoria /\ TipoProcesos /\ TipoCuenta
    BY DEF Init, Tablas!Init, TipoMemoria, TipoProcesos, TipoCuenta, Estados
  <2>2. TipoTlb /\ TipoMov BY DEF Init, TipoTlb, TipoMov
  <2>3. TipoHilo BY PedidoVacio DEF Init, TipoHilo, PcKernel
  <2>4. TipoColas BY DEF Init, TipoColas
  <2>5. TipoInterfaces
    <3>1. EsInit BY DEF Init
    <3>2. TipoPc BY <3>1 DEF EsInit, TipoPc, Fases
    <3>3. TipoTarea BY <3>1, PedidoVacio DEF EsInit, TipoTarea
    <3>4. TipoIda /\ TipoVuelta BY <3>1 DEF EsInit, TipoIda, TipoVuelta
    <3> QED BY <3>2, <3>3, <3>4 DEF TipoInterfaces
  <2> QED BY <2>1, <2>2, <2>3, <2>4, <2>5, Partes
<1>2. TlbAcotada BY DEF Init, TlbAcotada, Entradas
<1>3. Dialogo
  <2> SUFFICES ASSUME NEW i \in Interfaces PROVE DialogoDe(i) BY DEF Dialogo
  <2>1. /\ pc_k[i] = "pregunta_nombre" /\ mano[i] = SinPedido /\ bloq[i] = <<>>
        /\ pc_io[i] = "conecta" /\ tarea[i] = SinTarea
        /\ de_kernel[i] = <<>> /\ a_kernel[i] = <<>>
    BY DEF Init, EsInit
  <2>2. Callado(i) BY <2>1 DEF Callado, Ocupada
  <2>3. \A n \in DOMAIN bloq[i] : bloq[i][n].pid \in Pids BY <2>1
  <2> QED BY <2>1, <2>2, <2>3 DEF DialogoDe
<1> QED BY <1>1, <1>2, <1>3 DEF Bien

LEMMA BienPaso == ASSUME Bien, [Next]_vars PROVE Bien'
<1>1. CASE Next
  <2>1. Paso BY <1>1, Clasifica
  <2> QED BY <2>1, BienEstados, BienMemoria, BienCae, BienRetira, BienMovPieza, BienOrdena,
             BienMov, BienIoStdoutWrite, BienIoStdinRead, BienHilos DEF Paso
<1>2. CASE UNCHANGED vars
  <2>1. TypeOK BY DEF Bien
  <2>2. UNCHANGED <<tlb, kernel, esvars>> /\ UNCHANGED <<vivo, debe_planificar, memoria>> /\ UNCHANGED procesos
        /\ UNCHANGED <<pedidos, dudosos>> /\ UNCHANGED mov
    BY <1>2 DEF vars
  <2>3. TipoMemoria' /\ TipoProcesos' /\ TipoCuenta' /\ TipoMov' BY <2>1, <2>2, Partes, TiposIguales
  <2> QED BY <2>2, <2>3, BienSiTipos
<1> QED BY <1>1, <1>2

\* The types, the bound of the TLB, and what the socket between an interface and its
\* kernel thread can carry at each point of their dialogue, hold in every state.
THEOREM SiempreBien == Spec => []Bien
  BY BienInicial, BienPaso, PTL DEF Spec

\* Every variable keeps its type: the frames, the requests and what the sockets carry
\* are always well formed, for any number of processes, interfaces and frames.
THEOREM AccesoTipado == Spec => []TypeOK
<1>1. Bien => TypeOK BY DEF Bien
<1> QED BY <1>1, SiempreBien, PTL

\* The TLB (consultar_tlb, verificar_tamanio_tlb) never holds more entries than
\* MAX_TLB_ENTRY nor two of one process, whatever the size of the pages and the accesses.
THEOREM TlbSiempreAcotada == Spec => []TlbAcotada
<1>1. Bien => TlbAcotada BY DEF Bien
<1> QED BY <1>1, SiempreBien, PTL

-----------------------------------------------------------------------------
(* The requests of a process.                                              *)

Quien(i, n) == PedidoDe(i, n).pid

Unicos ==
    \A i, j \in Interfaces : \A n \in Lugares(i), m \in Lugares(j) :
       Quien(i, n) \in Pids /\ Quien(i, n) = Quien(j, m) => i = j /\ n = m

EnSuEstado(p) ==
    /\ estado[p] = "BLOCKED" => Pide(p) \/ Saliendo(p)
    /\ estado[p] = "EXIT" => (Pide(p) => p \in dudosos)
    /\ estado[p] \in {"READY", "EXEC"} => ~Pide(p)

LEMMA PartesDelPedido ==
    ASSUME TypeOK
    PROVE  PedidoUnico <=> Unicos /\ \A p \in Pids : EnSuEstado(p)
<1>1. \A p \in Pids : estado[p] \in Estados BY Partes DEF TipoProcesos
<1> QED BY <1>1 DEF PedidoUnico, Unicos, EnSuEstado, Quien, Estados

LEMMA PartesDelPedidoPrimo ==
    ASSUME TypeOK'
    PROVE  PedidoUnico' <=> Unicos' /\ \A p \in Pids : EnSuEstado(p)'
<1>1. \A p \in Pids : estado'[p] \in Estados BY PartesPrimas DEF TipoProcesos
<1> QED BY <1>1 DEF PedidoUnico, Unicos, EnSuEstado, Quien, Estados

LEMMA PideEs ==
    ASSUME NEW p PROVE Pide(p) <=> \E i \in Interfaces : \E n \in Lugares(i) : Quien(i, n) = p
  BY DEF Pide, Quien

LEMMA PideEsPrimo ==
    ASSUME NEW p
    PROVE  Pide(p)' <=> \E i \in Interfaces : \E n \in Lugares(i)' : Quien(i, n)' = p
  BY DEF Pide, Quien

LEMMA MismosPedidos ==
    ASSUME UNCHANGED <<mano, bloq>>
    PROVE  (Unicos' <=> Unicos) /\ \A p : Pide(p)' <=> Pide(p)
  BY DEF Unicos, Pide, Quien, PedidoDe, Lugares

\* Who has ended once has ended for ever.
SigueSaliendo == \A q \in Pids : Saliendo(q) => Saliendo(q)'

LEMMA SaleUnoMas ==
    ASSUME TypeOK, NEW p \in Pids, UNCHANGED lista, cola_exit' = cola_exit \/ AExit(p)
    PROVE  SigueSaliendo /\ (AExit(p) => Saliendo(p)')
<1>1. cola_exit \in Seq(Pids) BY Partes DEF TipoProcesos
<1>2. CASE cola_exit' = cola_exit BY <1>2, <1>1, Agregado DEF SigueSaliendo, Saliendo, AExit
<1>3. CASE AExit(p)
  <2>1. /\ \A n \in DOMAIN cola_exit : n \in DOMAIN cola_exit' /\ cola_exit'[n] = cola_exit[n]
        /\ Len(cola_exit) + 1 \in DOMAIN cola_exit' /\ cola_exit'[Len(cola_exit) + 1] = p
    BY <1>1, <1>3, Agregado DEF AExit
  <2> QED BY <2>1 DEF SigueSaliendo, Saliendo
<1> QED BY <1>2, <1>3

LEMMA SaleRetirado == ASSUME TypeOK, Retira PROVE SigueSaliendo
<1>1. /\ cola_exit \in Seq(Pids) /\ cola_exit # <<>> /\ cola_exit' = Tail(cola_exit)
      /\ lista' = lista \ {Head(cola_exit)}
  BY Partes DEF TipoProcesos, Retira
<1>2. ASSUME NEW q \in Pids, NEW n \in DOMAIN cola_exit, cola_exit[n] = q PROVE Saliendo(q)'
  <2>1. CASE n = 1
    <3>1. Head(cola_exit) = q BY <1>1, <1>2, <2>1
    <3> QED BY <1>1, <3>1 DEF Saliendo
  <2>2. CASE n # 1
    <3>1. n - 1 \in DOMAIN Tail(cola_exit) /\ Tail(cola_exit)[n - 1] = q BY <1>1, <1>2, <2>2
    <3> QED BY <1>1, <3>1 DEF Saliendo
  <2> QED BY <2>1, <2>2
<1> QED BY <1>1, <1>2 DEF SigueSaliendo, Saliendo

LEMMA SaleDeUnHilo ==
    ASSUME Bien, NEW i \in Interfaces, Atiende(i) \/ DelPrograma(i)
    PROVE  SigueSaliendo
<1>1. TypeOK /\ DialogoDe(i) BY DEF Bien, Dialogo
<1>2. CASE KRecibe(i)
  <2>1. mano[i].pid \in Pids BY <1>1, <1>2, DialogoRecibe
  <2>2. UNCHANGED lista /\ (cola_exit' = cola_exit \/ AExit(mano[i].pid))
    BY <1>2 DEF KRecibe, memoria
  <2> QED BY <1>1, <2>1, <2>2, SaleUnoMas
<1>3. CASE KVacia(i)
  <2>1. Head(bloq[i]).pid \in Pids BY <1>1, <1>3, DialogoVacia
  <2>2. UNCHANGED lista /\ AExit(Head(bloq[i]).pid) BY <1>3 DEF KVacia, memoria
  <2> QED BY <1>1, <2>1, <2>2, SaleUnoMas
<1>4. CASE KPregunta(i) \/ KConoce(i) \/ KMiraPlan(i) \/ KToma(i) \/ KRecibeNada(i) \/ KDevuelve(i)
           \/ KLibera(i) \/ DelPrograma(i)
  <2>1. UNCHANGED <<lista, cola_exit>>
    BY <1>4 DEF KPregunta, KConoce, KMiraPlan, KToma, KRecibeNada, KDevuelve, KLibera, DelPrograma,
                EnInterfaz, Escribe, Cierra, procesos, memoria
  <2> QED BY <2>1 DEF SigueSaliendo, Saliendo
<1> QED BY <1>2, <1>3, <1>4 DEF Atiende

LEMMA SaleParaSiempre == ASSUME Bien, [Next]_vars PROVE SigueSaliendo
<1>t. TypeOK BY DEF Bien
<1>1. CASE UNCHANGED <<lista, cola_exit>> BY <1>1 DEF SigueSaliendo, Saliendo
<1>2. ASSUME NEW p \in Pids, Despacha(p) \/ Desaloja(p) \/ Exit(p) \/ Mata(p) PROVE SigueSaliendo
  <2>1. UNCHANGED lista /\ (cola_exit' = cola_exit \/ AExit(p))
    BY <1>2, Matado DEF Despacha, Desaloja, Exit, memoria
  <2> QED BY <1>t, <2>1, SaleUnoMas
<1>3. ASSUME NEW p \in Pids, Amplia(p) \/ Recorta(p) \/ Suelta(p) PROVE SigueSaliendo
  BY <1>1, <1>3 DEF Amplia, Recorta, Suelta, procesos
<1>4. CASE Cae \/ MovPieza \/ Ordena BY <1>1, <1>4 DEF Cae, MovPieza, Ordena, procesos, memoria
<1>5. ASSUME NEW p \in Pids, NEW dir \in Nat, NEW tam \in Nat,
             Mov(p, dir, tam) \/ IoStdoutWrite(p, dir, tam)
      PROVE  SigueSaliendo
  <2>1. UNCHANGED lista /\ (cola_exit' = cola_exit \/ AExit(p))
    BY <1>5 DEF Mov, IoStdoutWrite, procesos, memoria
  <2> QED BY <1>t, <2>1, SaleUnoMas
<1>6. ASSUME NEW p \in Pids, NEW i \in Interfaces, NEW dir \in Nat, NEW tam \in Nat,
             IoStdinRead(p, i, dir, tam)
      PROVE  SigueSaliendo
  <2>1. UNCHANGED lista /\ (cola_exit' = cola_exit \/ AExit(p)) BY <1>6 DEF IoStdinRead, memoria
  <2> QED BY <1>t, <2>1, SaleUnoMas
<1>7. CASE Next
  <2>1. Paso BY <1>7, Clasifica
  <2> QED BY <1>t, <2>1, <1>2, <1>3, <1>4, <1>5, <1>6, SaleRetirado, SaleDeUnHilo DEF Paso
<1>8. CASE UNCHANGED vars BY <1>1, <1>8 DEF vars, procesos, memoria
<1> QED BY <1>7, <1>8

\* No process has a request that it had not.
NadiePideMas == \A q \in Pids : Pide(q)' => Pide(q)

LEMMA NadieMas == ASSUME UNCHANGED <<mano, bloq>> PROVE NadiePideMas
  BY MismosPedidos DEF NadiePideMas

\* Nobody asks for anything, and no state of a process with a request, changes.
LEMMA PedidoIgual ==
    ASSUME TypeOK, TypeOK', PedidoUnico, SigueSaliendo,
           UNCHANGED <<mano, bloq, estado>>, dudosos \subseteq dudosos'
    PROVE  PedidoUnico'
  BY PartesDelPedido, PartesDelPedidoPrimo, MismosPedidos DEF EnSuEstado, SigueSaliendo

LEMMA PedidoCambia ==
    ASSUME TypeOK, TypeOK', PedidoUnico, SigueSaliendo,
           UNCHANGED <<mano, bloq>>, dudosos \subseteq dudosos',
           NEW p \in Pids, NEW a \in {"READY", "EXEC", "EXIT"}, estado' = [estado EXCEPT ![p] = a],
           estado[p] \in {"READY", "EXEC"} \/ (a = "EXIT" /\ (Pide(p) => p \in dudosos'))
    PROVE  PedidoUnico'
<1>1. Unicos' BY PartesDelPedido, MismosPedidos
<1>2. ASSUME NEW q \in Pids PROVE EnSuEstado(q)'
  <2>1. EnSuEstado(q) /\ (Pide(q)' <=> Pide(q)) BY PartesDelPedido, MismosPedidos
  <2>2. estado \in [Pids -> Estados] BY Partes DEF TipoProcesos
  <2>3. CASE q = p BY <2>1, <2>2, <2>3 DEF EnSuEstado
  <2>4. CASE q # p BY <2>1, <2>2, <2>4 DEF EnSuEstado, SigueSaliendo
  <2> QED BY <2>3, <2>4
<1> QED BY <1>1, <1>2, PartesDelPedidoPrimo

\* IO_STDIN_READ: a place more, of a process that had none.
LEMMA PedidoNace ==
    ASSUME Bien, Bien', PedidoUnico, SigueSaliendo, NEW p \in Pids, NEW i \in Interfaces,
           NEW dir \in Nat, NEW tam \in Nat, IoStdinRead(p, i, dir, tam), Conectada(i)
    PROVE  PedidoUnico' /\ \A q \in Pids \ {p} : Pide(q)' => Pide(q)
<1>1. TypeOK /\ TypeOK' /\ TlbAcotada /\ Dialogo BY DEF Bien
<1> DEFINE r == PedidoNuevo(p, dir, tam)
<1>2. /\ r \in Pedido /\ r.pid = p /\ bloq'[i] = Append(bloq[i], r)
      /\ bloq[i] \in Seq(Pedido) /\ bloq' = [bloq EXCEPT ![i] = Append(@, r)]
      /\ estado' = [estado EXCEPT ![p] = "BLOCKED"]
  BY <1>1, ColasDespues
<1>3. estado[p] = "EXEC" /\ UNCHANGED <<mano, dudosos>> BY DEF IoStdinRead, Ejecuta
<1> HIDE DEF r
<1>4. \A j \in Interfaces : bloq[j] \in Seq(Pedido) /\ (j # i => bloq'[j] = bloq[j])
  BY <1>1, <1>2, Partes DEF TipoColas
<1>l. PICK l \in Nat : l = Len(bloq[i]) + 1 BY <1>2
<1>5. /\ Len(bloq'[i]) = l /\ l \in Nat /\ l > 0 /\ bloq'[i][l] = r
      /\ \A n \in 1..(l - 1) : bloq'[i][n] = bloq[i][n]
  BY <1>2, <1>l
<1>6. \A j \in Interfaces : Lugares(j)' = IF j = i THEN Lugares(j) \cup {l} ELSE Lugares(j)
  <2>1. 0..l = 0..(l - 1) \cup {l} OBVIOUS
  <2>2. Lugares(i)' = 0..l /\ Lugares(i) = 0..(l - 1) BY <1>2, <1>5, <1>l DEF Lugares
  <2>3. \A j \in Interfaces : j # i => Lugares(j)' = Lugares(j) BY <1>4 DEF Lugares
  <2> QED BY <2>1, <2>2, <2>3
<1>7. \A j \in Interfaces : \A m \in Lugares(j) : Quien(j, m)' = Quien(j, m)
  BY <1>3, <1>4, <1>5, <1>l DEF Lugares, Quien, PedidoDe
<1>8. Quien(i, l)' = p BY <1>2, <1>5 DEF Quien, PedidoDe
<1>9. Unicos /\ \A q \in Pids : EnSuEstado(q) BY <1>1, PartesDelPedido
<1>10. \A j \in Interfaces : \A m \in Lugares(j) : Quien(j, m) # p
  BY <1>3, <1>9, PideEs DEF EnSuEstado
<1>11. Unicos' BY <1>6, <1>7, <1>8, <1>9, <1>10 DEF Unicos
<1>i. ASSUME NEW q \in Pids, q # p PROVE Pide(q)' <=> Pide(q)
  BY <1>6, <1>7, <1>8, <1>i, PideEs, PideEsPrimo
<1>12. ASSUME NEW q \in Pids PROVE EnSuEstado(q)'
  <2>1. estado \in [Pids -> Estados] BY <1>1, Partes DEF TipoProcesos
  <2>2. CASE q = p
    <3>1. Pide(p)' BY <1>6, <1>8, PideEsPrimo
    <3>2. estado'[p] = "BLOCKED" BY <1>2, <2>1
    <3> QED BY <2>2, <3>1, <3>2 DEF EnSuEstado
  <2>3. CASE q # p
    <3>1. Pide(q)' <=> Pide(q) BY <1>i, <2>3
    <3>2. estado'[q] = estado[q] BY <1>2, <2>1, <2>3
    <3>3. EnSuEstado(q) BY <1>9
    <3> QED BY <1>3, <3>1, <3>2, <3>3 DEF EnSuEstado, SigueSaliendo
  <2> QED BY <2>2, <2>3
<1> QED BY <1>1, <1>i, <1>11, <1>12, PartesDelPedidoPrimo

\* KToma: the first of the list passes to the hand, which was empty.
LEMMA PedidoPasa ==
    ASSUME Bien, Bien', PedidoUnico, SigueSaliendo, NEW i \in Interfaces, KToma(i)
    PROVE  PedidoUnico' /\ NadiePideMas
<1>1. TypeOK /\ TypeOK' /\ DialogoDe(i) BY DEF Bien, Dialogo
<1>2. /\ pc_k[i] = "toma" /\ bloq[i] # <<>> /\ bloq' = [bloq EXCEPT ![i] = Tail(@)]
      /\ mano' = [mano EXCEPT ![i] = Head(bloq[i])] /\ UNCHANGED <<estado, dudosos>>
  BY DEF KToma, KManda, PasoK, procesos
<1>3. mano[i] = SinPedido BY <1>1, <1>2 DEF DialogoDe, SinNadaEnMano
<1>4. /\ bloq \in [Interfaces -> Seq(Pedido)] /\ mano \in [Interfaces -> Pedido]
  BY <1>1, Partes DEF TipoColas, TipoHilo
<1>5. /\ bloq'[i] = Tail(bloq[i]) /\ mano'[i] = bloq[i][1]
      /\ Len(bloq'[i]) = Len(bloq[i]) - 1 /\ Len(bloq[i]) \in Nat \ {0}
      /\ \A n \in 1..(Len(bloq[i]) - 1) : bloq'[i][n] = bloq[i][n + 1]
  BY <1>2, <1>4
<1>6. \A j \in Interfaces : j # i => bloq'[j] = bloq[j] /\ mano'[j] = mano[j] BY <1>2, <1>4
<1>7. ASSUME NEW j \in Interfaces, j # i
      PROVE  Lugares(j)' = Lugares(j) /\ \A n \in Lugares(j) : Quien(j, n)' = Quien(j, n)
  BY <1>6, <1>7 DEF Lugares, Quien, PedidoDe
<1>8. /\ \A n \in Lugares(i)' : n \in Int /\ n + 1 \in Lugares(i) /\ Quien(i, n)' = Quien(i, n + 1)
      /\ \A n \in Lugares(i) : n # 0 => /\ n - 1 \in Lugares(i)' /\ Quien(i, n - 1)' = Quien(i, n)
                                        /\ n \in Int
  <2>1. Lugares(i)' = 0..(Len(bloq[i]) - 1) /\ Lugares(i) = 0..Len(bloq[i]) BY <1>5 DEF Lugares
  <2>2. ASSUME NEW n \in 0..(Len(bloq[i]) - 1) PROVE Quien(i, n)' = Quien(i, n + 1)
    <3>1. CASE n = 0 BY <1>5, <3>1 DEF Quien, PedidoDe
    <3>2. CASE n # 0
      <4>1. n \in 1..(Len(bloq[i]) - 1) /\ n + 1 # 0 BY <1>5, <3>2
      <4> QED BY <1>5, <3>2, <4>1 DEF Quien, PedidoDe
    <3> QED BY <3>1, <3>2
  <2>3. ASSUME NEW n \in 1..Len(bloq[i]) PROVE n - 1 \in 0..(Len(bloq[i]) - 1) /\ (n - 1) + 1 = n
    BY <1>5
  <2>4. ASSUME NEW n \in 1..Len(bloq[i]) PROVE Quien(i, n - 1)' = Quien(i, n)
    <3>1. Quien(i, n - 1)' = Quien(i, (n - 1) + 1) BY <2>2, <2>3
    <3> QED BY <2>3, <3>1
  <2> QED BY <1>5, <2>1, <2>2, <2>3, <2>4
<1>9. Quien(i, 0) \notin Pids BY <1>3 DEF Quien, PedidoDe, SinPedido
<1>10. Unicos /\ \A q \in Pids : EnSuEstado(q) BY <1>1, PartesDelPedido
<1>11. Unicos'
  <2> SUFFICES ASSUME NEW j \in Interfaces, NEW k \in Interfaces,
                      NEW n \in Lugares(j)', NEW m \in Lugares(k)',
                      Quien(j, n)' \in Pids, Quien(j, n)' = Quien(k, m)'
               PROVE  j = k /\ n = m
    BY DEF Unicos
  <2>1. CASE j = i /\ k = i
    <3>1. n + 1 \in Lugares(i) /\ m + 1 \in Lugares(i) /\ Quien(i, n + 1) = Quien(i, m + 1)
          /\ Quien(i, n + 1) \in Pids /\ n \in Int /\ m \in Int
      BY <1>8, <2>1
    <3>2. n + 1 = m + 1 BY <1>10, <3>1 DEF Unicos
    <3> QED BY <2>1, <3>1, <3>2
  <2>2. CASE j = i /\ k # i
    <3>1. n + 1 \in Lugares(i) /\ m \in Lugares(k) /\ Quien(i, n + 1) = Quien(k, m)
          /\ Quien(i, n + 1) \in Pids
      BY <1>7, <1>8, <2>2
    <3> QED BY <1>10, <2>2, <3>1 DEF Unicos
  <2>3. CASE j # i /\ k = i
    <3>1. n \in Lugares(j) /\ m + 1 \in Lugares(i) /\ Quien(j, n) = Quien(i, m + 1)
          /\ Quien(j, n) \in Pids
      BY <1>7, <1>8, <2>3
    <3> QED BY <1>10, <2>3, <3>1 DEF Unicos
  <2>4. CASE j # i /\ k # i
    <3>1. n \in Lugares(j) /\ m \in Lugares(k) /\ Quien(j, n) = Quien(k, m) /\ Quien(j, n) \in Pids
      BY <1>7, <2>4
    <3> QED BY <1>10, <3>1 DEF Unicos
  <2> QED BY <2>1, <2>2, <2>3, <2>4
<1>12. ASSUME NEW q \in Pids PROVE Pide(q)' <=> Pide(q)
  <2>1. ASSUME Pide(q)' PROVE Pide(q)
    <3>1. PICK j \in Interfaces : \E n \in Lugares(j)' : Quien(j, n)' = q BY <2>1, PideEsPrimo
    <3>2. \E m \in Lugares(j) : Quien(j, m) = q
      <4>1. CASE j = i BY <1>8, <3>1, <4>1
      <4>2. CASE j # i BY <1>7, <3>1, <4>2
      <4> QED BY <4>1, <4>2
    <3> QED BY <3>2, PideEs
  <2>2. ASSUME Pide(q) PROVE Pide(q)'
    <3>1. PICK j \in Interfaces : \E n \in Lugares(j) : Quien(j, n) = q BY <2>2, PideEs
    <3>2. \E m \in Lugares(j)' : Quien(j, m)' = q
      <4>1. CASE j = i BY <1>8, <1>9, <3>1, <4>1
      <4>2. CASE j # i BY <1>7, <3>1, <4>2
      <4> QED BY <4>1, <4>2
    <3> QED BY <3>2, PideEsPrimo
  <2> QED BY <2>1, <2>2
<1>13. NadiePideMas BY <1>12 DEF NadiePideMas
<1> QED BY <1>1, <1>2, <1>10, <1>11, <1>12, <1>13, PartesDelPedidoPrimo DEF EnSuEstado, SigueSaliendo

\* KRecibe: the hand is empty again, and its process out of BLOCKED or on its way out.
LEMMA PedidoAcaba ==
    ASSUME Bien, Bien', PedidoUnico, SigueSaliendo, NEW i \in Interfaces, KRecibe(i),
           NEW p, p = mano[i].pid
    PROVE  PedidoUnico' /\ NadiePideMas /\ p \in Pids /\ Pide(p) /\ ~Pide(p)'
<1>1. TypeOK /\ TypeOK' /\ DialogoDe(i) BY DEF Bien, Dialogo
<1>2. p \in Pids /\ p = mano[i].pid BY <1>1, DialogoRecibe
<1>3. /\ mano' = [mano EXCEPT ![i] = SinPedido] /\ UNCHANGED <<bloq, dudosos>> /\ UNCHANGED lista
      /\ \/ estado' = [estado EXCEPT ![p] = "READY"]
         \/ UNCHANGED estado /\ AExit(p)
  BY <1>2 DEF KRecibe, memoria
<1>4. /\ mano \in [Interfaces -> Pedido] /\ estado \in [Pids -> Estados]
      /\ \A j \in Interfaces : bloq[j] \in Seq(Pedido)
  BY <1>1, Partes DEF TipoColas, TipoHilo, TipoProcesos
<1>5. \A j \in Interfaces : Lugares(j)' = Lugares(j) BY <1>3 DEF Lugares
<1>6. Quien(i, 0)' \notin Pids /\ Quien(i, 0) = p /\ 0 \in Lugares(i)
  <2>1. mano'[i] = SinPedido BY <1>3, <1>4
  <2>2. Len(bloq[i]) \in Nat BY <1>4
  <2> QED BY <1>2, <2>1, <2>2 DEF Quien, PedidoDe, SinPedido, Lugares
<1>7. ASSUME NEW j \in Interfaces, NEW n \in Lugares(j), j # i \/ n # 0
      PROVE  Quien(j, n)' = Quien(j, n)
  BY <1>3, <1>4, <1>7 DEF Quien, PedidoDe
<1>8. Unicos /\ \A q \in Pids : EnSuEstado(q) BY <1>1, PartesDelPedido
<1>9. Unicos' BY <1>5, <1>6, <1>7, <1>8 DEF Unicos
<1>10. ~Pide(p)'
  <2> SUFFICES ASSUME NEW j \in Interfaces, NEW n \in Lugares(j)', Quien(j, n)' = p PROVE FALSE
    BY PideEsPrimo
  <2>1. n \in Lugares(j) /\ (j # i \/ n # 0) BY <1>2, <1>5, <1>6
  <2>2. Quien(j, n) = Quien(i, 0) BY <1>6, <1>7, <2>1
  <2> QED BY <1>2, <1>6, <1>8, <2>1, <2>2 DEF Unicos
<1>11. ASSUME NEW q \in Pids, q # p PROVE Pide(q)' <=> Pide(q)
  BY <1>5, <1>6, <1>7, <1>11, PideEs, PideEsPrimo
<1>12. ASSUME NEW q \in Pids PROVE EnSuEstado(q)'
  <2>1. CASE q = p
    <3>1. CASE estado' = [estado EXCEPT ![p] = "READY"]
      <4>1. estado'[p] = "READY" BY <1>2, <1>4, <3>1
      <4> QED BY <1>10, <2>1, <4>1 DEF EnSuEstado
    <3>2. CASE UNCHANGED estado /\ AExit(p)
      <4>1. Saliendo(p)' BY <1>1, <1>2, <1>3, <3>2, SaleUnoMas
      <4> QED BY <1>10, <2>1, <4>1 DEF EnSuEstado
    <3> QED BY <1>3, <3>1, <3>2
  <2>2. CASE q # p
    <3>1. estado'[q] = estado[q] BY <1>3, <1>4, <2>2
    <3>2. EnSuEstado(q) BY <1>8
    <3> QED BY <1>3, <1>11, <2>2, <3>1, <3>2 DEF EnSuEstado, SigueSaliendo
  <2> QED BY <2>1, <2>2
<1>13. NadiePideMas BY <1>10, <1>11 DEF NadiePideMas
<1>14. Pide(p) BY <1>6, PideEs
<1> QED BY <1>1, <1>2, <1>9, <1>10, <1>12, <1>13, <1>14, PartesDelPedidoPrimo

\* The requests of an interface change places, and none is new.
LEMMA PedidosMudados ==
    ASSUME Unicos, NEW i \in Interfaces, NEW f,
           \A j \in Interfaces :
              j # i => Lugares(j)' = Lugares(j) /\ \A n \in Lugares(j) : Quien(j, n)' = Quien(j, n),
           \A n \in Lugares(i)' :
              Quien(i, n)' \in Pids => f[n] \in Lugares(i) /\ Quien(i, n)' = Quien(i, f[n]),
           \A n, m \in Lugares(i)' :
              Quien(i, n)' \in Pids /\ Quien(i, m)' \in Pids /\ f[n] = f[m] => n = m
    PROVE  Unicos' /\ NadiePideMas
<1>1. Unicos'
  <2> SUFFICES ASSUME NEW j \in Interfaces, NEW k \in Interfaces,
                      NEW n \in Lugares(j)', NEW m \in Lugares(k)',
                      Quien(j, n)' \in Pids, Quien(j, n)' = Quien(k, m)'
               PROVE  j = k /\ n = m
    BY DEF Unicos
  <2>1. CASE j = i /\ k = i
    <3>1. /\ f[n] \in Lugares(i) /\ f[m] \in Lugares(i) /\ Quien(i, f[n]) \in Pids
          /\ Quien(i, f[n]) = Quien(i, f[m])
      BY <2>1
    <3>2. f[n] = f[m] BY <3>1 DEF Unicos
    <3> QED BY <2>1, <3>2
  <2>2. CASE j = i /\ k # i
    <3>1. /\ f[n] \in Lugares(i) /\ m \in Lugares(k) /\ Quien(i, f[n]) \in Pids
          /\ Quien(i, f[n]) = Quien(k, m)
      BY <2>2
    <3> QED BY <2>2, <3>1 DEF Unicos
  <2>3. CASE j # i /\ k = i
    <3>1. /\ n \in Lugares(j) /\ f[m] \in Lugares(i) /\ Quien(j, n) \in Pids
          /\ Quien(j, n) = Quien(i, f[m])
      BY <2>3
    <3> QED BY <2>3, <3>1 DEF Unicos
  <2>4. CASE j # i /\ k # i
    <3>1. n \in Lugares(j) /\ m \in Lugares(k) /\ Quien(j, n) = Quien(k, m) /\ Quien(j, n) \in Pids
      BY <2>4
    <3> QED BY <3>1 DEF Unicos
  <2> QED BY <2>1, <2>2, <2>3, <2>4
<1>2. ASSUME NEW q \in Pids, Pide(q)' PROVE Pide(q)
  <2>j. PICK j \in Interfaces : \E n \in Lugares(j)' : Quien(j, n)' = q BY <1>2, PideEsPrimo
  <2>1. PICK n \in Lugares(j)' : Quien(j, n)' = q BY <2>j
  <2>2. \E m \in Lugares(j) : Quien(j, m) = q
    <3>1. CASE j = i BY <2>1, <3>1
    <3>2. CASE j # i BY <2>1, <3>2
    <3> QED BY <3>1, <3>2
  <2> QED BY <2>2, PideEs
<1> QED BY <1>1, <1>2 DEF NadiePideMas

\* KDevuelve: from the hand to the end of the list.
LEMMA PedidoVuelve ==
    ASSUME Bien, Bien', PedidoUnico, SigueSaliendo, NEW i \in Interfaces, KDevuelve(i)
    PROVE  PedidoUnico' /\ NadiePideMas
<1>1. TypeOK /\ TypeOK' BY DEF Bien
<1>2. /\ bloq' = [bloq EXCEPT ![i] = Append(@, mano[i])] /\ mano' = [mano EXCEPT ![i] = SinPedido]
      /\ UNCHANGED <<estado, dudosos>>
  BY DEF KDevuelve, procesos
<1>3. /\ bloq \in [Interfaces -> Seq(Pedido)] /\ mano \in [Interfaces -> Pedido]
  BY <1>1, Partes DEF TipoColas, TipoHilo
<1>l. PICK l \in Nat : l = Len(bloq[i]) + 1 BY <1>3
<1>4. /\ Len(bloq[i]) = l - 1 /\ l > 0 /\ Len(bloq'[i]) = l /\ bloq'[i][l] = mano[i]
      /\ \A n \in 1..(l - 1) : bloq'[i][n] = bloq[i][n]
      /\ mano'[i] = SinPedido
  BY <1>2, <1>3, <1>l
<1>5. ASSUME NEW j \in Interfaces, j # i
      PROVE  Lugares(j)' = Lugares(j) /\ \A n \in Lugares(j) : Quien(j, n)' = Quien(j, n)
  BY <1>2, <1>3, <1>5 DEF Lugares, Quien, PedidoDe
<1>6. /\ Lugares(i)' = 0..l /\ Lugares(i) = 0..(l - 1) /\ Quien(i, 0)' \notin Pids
      /\ Quien(i, l)' = Quien(i, 0) /\ \A n \in 1..(l - 1) : Quien(i, n)' = Quien(i, n)
  BY <1>4 DEF Lugares, Quien, PedidoDe, SinPedido
<1> DEFINE f == [n \in 0..l |-> IF n = l THEN 0 ELSE n]
<1>7. Unicos /\ \A q \in Pids : EnSuEstado(q) BY <1>1, PartesDelPedido
<1>8. \A n \in 0..l : f[n] = IF n = l THEN 0 ELSE n OBVIOUS
<1> HIDE DEF f
<1>9. \A n \in Lugares(i)' :
         Quien(i, n)' \in Pids => f[n] \in Lugares(i) /\ Quien(i, n)' = Quien(i, f[n])
  <2> SUFFICES ASSUME NEW n \in 0..l, Quien(i, n)' \in Pids
               PROVE  f[n] \in 0..(l - 1) /\ Quien(i, n)' = Quien(i, f[n])
    BY <1>6
  <2>1. n # 0 BY <1>6
  <2>2. CASE n = l BY <1>4, <1>6, <1>8, <2>2
  <2>3. CASE n # l
    <3>1. n \in 1..(l - 1) BY <2>1, <2>3
    <3> QED BY <1>6, <1>8, <2>3, <3>1
  <2> QED BY <2>2, <2>3
<1>10. \A n, m \in Lugares(i)' :
          Quien(i, n)' \in Pids /\ Quien(i, m)' \in Pids /\ f[n] = f[m] => n = m
  BY <1>6, <1>8
<1>11. Unicos' /\ NadiePideMas
  BY <1>5, <1>7, <1>9, <1>10, PedidosMudados
<1>12. ASSUME NEW q \in Pids, Pide(q) PROVE Pide(q)'
  <2>j. PICK j \in Interfaces : \E n \in Lugares(j) : Quien(j, n) = q BY <1>12, PideEs
  <2>1. PICK n \in Lugares(j) : Quien(j, n) = q BY <2>j
  <2>2. \E m \in Lugares(j)' : Quien(j, m)' = q
    <3>1. CASE j # i BY <1>5, <2>1, <3>1
    <3>2. CASE j = i /\ n = 0
      <4>1. l \in Lugares(i)' BY <1>6
      <4> QED BY <1>6, <2>1, <3>2, <4>1
    <3>3. CASE j = i /\ n # 0
      <4>1. n \in 1..(l - 1) /\ n \in Lugares(i)' BY <1>6, <2>1, <3>3
      <4> QED BY <1>6, <2>1, <3>3, <4>1
    <3> QED BY <3>1, <3>2, <3>3
  <2> QED BY <2>2, PideEsPrimo
<1> QED BY <1>1, <1>2, <1>7, <1>11, <1>12, PartesDelPedidoPrimo
        DEF EnSuEstado, SigueSaliendo, NadiePideMas

\* KVacia: the first of the list is taken out, and its process ends.
LEMMA PedidoVaciado ==
    ASSUME Bien, Bien', PedidoUnico, SigueSaliendo, NEW i \in Interfaces, KVacia(i),
           NEW p, p = Head(bloq[i]).pid
    PROVE  PedidoUnico' /\ NadiePideMas /\ p \in Pids /\ Pide(p) /\ ~Pide(p)'
<1>1. TypeOK /\ TypeOK' /\ DialogoDe(i) BY DEF Bien, Dialogo
<1>2. /\ pc_k[i] = "vacia" /\ bloq[i] # <<>> /\ bloq' = [bloq EXCEPT ![i] = Tail(@)]
      /\ UNCHANGED <<mano, dudosos>> /\ estado' = [estado EXCEPT ![p] = "EXIT"] /\ p \in Pids
  BY <1>1, DialogoVacia DEF KVacia, PasoK
<1>3. /\ bloq \in [Interfaces -> Seq(Pedido)] /\ estado \in [Pids -> Estados]
  BY <1>1, Partes DEF TipoColas, TipoProcesos
<1>4. mano[i] = SinPedido BY <1>1, <1>2 DEF DialogoDe, SinNadaEnMano
<1>l. PICK l \in Nat : l = Len(bloq[i]) - 1
  <2>1. Len(bloq[i]) \in Nat \ {0} BY <1>2, <1>3
  <2> QED BY <2>1
<1>5. /\ Len(bloq[i]) = l + 1 /\ Len(bloq'[i]) = l /\ bloq[i][1].pid = p
      /\ \A n \in 1..l : bloq'[i][n] = bloq[i][n + 1]
  BY <1>2, <1>3, <1>l
<1>6. ASSUME NEW j \in Interfaces, j # i
      PROVE  Lugares(j)' = Lugares(j) /\ \A n \in Lugares(j) : Quien(j, n)' = Quien(j, n)
  BY <1>2, <1>3, <1>6 DEF Lugares, Quien, PedidoDe
<1>7. /\ Lugares(i)' = 0..l /\ Lugares(i) = 0..(l + 1)
      /\ Quien(i, 0)' \notin Pids /\ Quien(i, 0) \notin Pids /\ Quien(i, 1) = p
  BY <1>2, <1>4, <1>5 DEF Lugares, Quien, PedidoDe, SinPedido
<1>8. ASSUME NEW n \in 1..l PROVE Quien(i, n)' = Quien(i, n + 1) /\ n + 1 \in 0..(l + 1)
  <2>1. n # 0 /\ n + 1 # 0 /\ n + 1 \in 0..(l + 1) OBVIOUS
  <2> QED BY <1>5, <2>1 DEF Quien, PedidoDe
<1>9. Unicos /\ \A q \in Pids : EnSuEstado(q) BY <1>1, PartesDelPedido
<1> DEFINE f == [n \in 0..l |-> n + 1]
<1>10. \A n \in 0..l : f[n] = n + 1 OBVIOUS
<1> HIDE DEF f
<1>11. \A n \in Lugares(i)' :
          Quien(i, n)' \in Pids => f[n] \in Lugares(i) /\ Quien(i, n)' = Quien(i, f[n])
  <2> SUFFICES ASSUME NEW n \in 0..l, Quien(i, n)' \in Pids
               PROVE  f[n] \in Lugares(i) /\ Quien(i, n)' = Quien(i, f[n])
    BY <1>7
  <2>1. n # 0 BY <1>7
  <2>2. n \in 1..l BY <2>1
  <2> QED BY <1>7, <1>8, <1>10, <2>2
<1>12. \A n, m \in Lugares(i)' :
          Quien(i, n)' \in Pids /\ Quien(i, m)' \in Pids /\ f[n] = f[m] => n = m
  BY <1>7, <1>10
<1>13. Unicos' /\ NadiePideMas
  BY <1>6, <1>9, <1>11, <1>12, PedidosMudados
<1>14. Pide(p)
  <2>1. 1 \in Lugares(i) BY <1>7
  <2> QED BY <1>7, <2>1, PideEs
<1>15. ~Pide(p)'
  <2> SUFFICES ASSUME NEW j \in Interfaces, NEW n \in Lugares(j)', Quien(j, n)' = p PROVE FALSE
    BY PideEsPrimo
  <2>1. 1 \in Lugares(i) BY <1>7
  <2>2. CASE j # i
    <3>1. n \in Lugares(j) /\ Quien(j, n) = Quien(i, 1) BY <1>6, <1>7, <2>2
    <3> QED BY <1>2, <1>7, <1>9, <2>1, <2>2, <3>1 DEF Unicos
  <2>3. CASE j = i
    <3>1. n # 0 BY <1>2, <1>7, <2>3
    <3>2. n \in 1..l BY <1>7, <2>3, <3>1
    <3>3. Quien(i, n + 1) = Quien(i, 1) /\ n + 1 \in Lugares(i) BY <1>7, <1>8, <2>3, <3>2
    <3>4. n + 1 = 1 BY <1>2, <1>7, <1>9, <2>1, <3>3 DEF Unicos
    <3> QED BY <3>2, <3>4
  <2> QED BY <2>2, <2>3
<1>16. ASSUME NEW q \in Pids, q # p, Pide(q) PROVE Pide(q)'
  <2>j. PICK j \in Interfaces : \E n \in Lugares(j) : Quien(j, n) = q BY <1>16, PideEs
  <2>1. PICK n \in Lugares(j) : Quien(j, n) = q BY <2>j
  <2>2. \E m \in Lugares(j)' : Quien(j, m)' = q
    <3>1. CASE j # i BY <1>6, <2>1, <3>1
    <3>2. CASE j = i
      <4>1. n # 0 /\ n # 1 BY <1>7, <1>16, <2>1, <3>2
      <4>2. n - 1 \in 1..l /\ (n - 1) + 1 = n BY <1>7, <2>1, <3>2, <4>1
      <4>3. Quien(i, n - 1)' = Quien(i, (n - 1) + 1) BY <1>8, <4>2
      <4>4. n - 1 \in Lugares(i)' BY <1>7, <4>2
      <4> QED BY <2>1, <3>2, <4>2, <4>3, <4>4
    <3> QED BY <3>1, <3>2
  <2> QED BY <2>2, PideEsPrimo
<1>17. ASSUME NEW q \in Pids PROVE EnSuEstado(q)'
  <2>1. CASE q = p
    <3>1. estado'[p] = "EXIT" BY <1>2, <1>3
    <3> QED BY <1>15, <2>1, <3>1 DEF EnSuEstado
  <2>2. CASE q # p
    <3>1. estado'[q] = estado[q] BY <1>2, <1>3, <2>2
    <3>2. EnSuEstado(q) /\ (Pide(q)' <=> Pide(q)) BY <1>9, <1>13, <1>16, <2>2 DEF NadiePideMas
    <3> QED BY <1>2, <3>1, <3>2 DEF EnSuEstado, SigueSaliendo
  <2> QED BY <2>1, <2>2
<1>18. PedidoUnico' BY <1>1, <1>13, <1>17, PartesDelPedidoPrimo
<1> QED BY <1>2, <1>13, <1>14, <1>15, <1>18

LEMMA PedidoInicial == ASSUME Init PROVE PedidoUnico
<1>1. TypeOK BY BienInicial DEF Bien
<1>2. \A i \in Interfaces : Lugares(i) = {0} /\ Quien(i, 0) = Nadie
  BY DEF Init, Lugares, Quien, PedidoDe, SinPedido
<1>3. \A p \in Pids : ~Pide(p) BY <1>2, PideEs
<1>4. Unicos BY <1>2 DEF Unicos
<1>5. \A p \in Pids : estado[p] = "READY"
  <2>1. estado = [p \in Pids |-> "READY"] BY DEF Init
  <2> QED BY <2>1
<1> QED BY <1>1, <1>3, <1>4, <1>5, PartesDelPedido DEF EnSuEstado

LEMMA PedidoPaso == ASSUME Bien, PedidoUnico, [Next]_vars PROVE PedidoUnico'
<1>t. Bien' /\ TypeOK /\ TypeOK' /\ SigueSaliendo
  <2>1. Bien' /\ SigueSaliendo BY BienPaso, SaleParaSiempre
  <2> QED BY <2>1 DEF Bien
<1>1. CASE UNCHANGED vars
  <2>1. UNCHANGED <<mano, bloq, estado>> /\ dudosos \subseteq dudosos' BY <1>1 DEF vars, kernel, procesos
  <2> QED BY <1>t, <2>1, PedidoIgual
<1>2. ASSUME NEW p \in Pids, Despacha(p) \/ Desaloja(p) \/ Exit(p) \/ Mata(p) PROVE PedidoUnico'
  <2>1. UNCHANGED <<mano, bloq>> /\ dudosos \subseteq dudosos'
    BY <1>2, Matado DEF Despacha, Desaloja, Exit, kernel
  <2>2. CASE ~Mata(p)
    <3>1. PICK a \in {"READY", "EXEC", "EXIT"} : estado' = [estado EXCEPT ![p] = a]
      BY <1>2, <2>2 DEF Despacha, Desaloja, Exit, Cambia
    <3>2. estado[p] \in {"READY", "EXEC"} BY <1>2, <2>2 DEF Despacha, Desaloja, Exit, Cambia
    <3> QED BY <1>t, <2>1, <3>1, <3>2, PedidoCambia
  <2>3. CASE Mata(p)
    <3>1. estado' = [estado EXCEPT ![p] = "EXIT"] BY <2>3, Matado
    <3>2. estado[p] \in {"READY", "EXEC"} \/ (Pide(p) => p \in dudosos') BY <2>3, Matado
    <3> QED BY <1>t, <2>1, <3>1, <3>2, PedidoCambia
  <2> QED BY <2>2, <2>3
<1>3. ASSUME NEW p \in Pids, Amplia(p) \/ Recorta(p) \/ Suelta(p) PROVE PedidoUnico'
  <2>1. UNCHANGED <<mano, bloq, estado>> /\ dudosos \subseteq dudosos'
    BY <1>3 DEF Amplia, Recorta, Suelta, kernel, procesos
  <2> QED BY <1>t, <2>1, PedidoIgual
<1>4. CASE Cae \/ Retira \/ MovPieza \/ Ordena
  <2>1. UNCHANGED <<mano, bloq, estado>> /\ dudosos \subseteq dudosos'
    BY <1>4 DEF Cae, Retira, MovPieza, Ordena, kernel, procesos
  <2> QED BY <1>t, <2>1, PedidoIgual
<1>5. ASSUME NEW p \in Pids, NEW dir \in Nat, NEW tam \in Nat, Mov(p, dir, tam) PROVE PedidoUnico'
  <2>1. UNCHANGED <<mano, bloq, estado>> /\ dudosos \subseteq dudosos'
    BY <1>5 DEF Mov, kernel, procesos
  <2> QED BY <1>t, <2>1, PedidoIgual
<1>6. ASSUME NEW p \in Pids, NEW dir \in Nat, NEW tam \in Nat, IoStdoutWrite(p, dir, tam)
      PROVE  PedidoUnico'
  <2>1. /\ UNCHANGED <<mano, bloq>> /\ dudosos \subseteq dudosos'
        /\ estado' = [estado EXCEPT ![p] = "EXIT"] /\ estado[p] = "EXEC"
    BY <1>6 DEF IoStdoutWrite, kernel, Cambia
  <2> QED BY <1>t, <2>1, PedidoCambia
<1>7. ASSUME NEW p \in Pids, NEW i \in Interfaces, NEW dir \in Nat, NEW tam \in Nat,
             IoStdinRead(p, i, dir, tam)
      PROVE  PedidoUnico'
  <2>1. CASE Conectada(i) BY <1>t, <1>7, <2>1, PedidoNace
  <2>2. CASE ~Conectada(i)
    <3>1. /\ UNCHANGED <<mano, bloq>> /\ dudosos \subseteq dudosos'
          /\ estado' = [estado EXCEPT ![p] = "EXIT"] /\ estado[p] = "EXEC"
      BY <1>7, <2>2 DEF IoStdinRead, Cambia
    <3> QED BY <1>t, <3>1, PedidoCambia
  <2> QED BY <2>1, <2>2
<1>8. ASSUME NEW i \in Interfaces, Atiende(i) \/ DelPrograma(i) PROVE PedidoUnico'
  <2>1. CASE \/ KPregunta(i) \/ KConoce(i) \/ KMiraPlan(i) \/ KRecibeNada(i) \/ KLibera(i)
             \/ DelPrograma(i)
    <3>1. UNCHANGED <<mano, bloq, estado>> /\ dudosos \subseteq dudosos'
      BY <2>1 DEF KPregunta, KConoce, KMiraPlan, KRecibeNada, KLibera, DelPrograma, EnInterfaz,
                  Escribe, Cierra, kernel, procesos
    <3> QED BY <1>t, <3>1, PedidoIgual
  <2>2. CASE KRecibe(i)
    <3>1. PICK p : p = mano[i].pid OBVIOUS
    <3> QED BY <1>t, <2>2, <3>1, PedidoAcaba
  <2>3. CASE KVacia(i)
    <3>1. PICK p : p = Head(bloq[i]).pid OBVIOUS
    <3> QED BY <1>t, <2>3, <3>1, PedidoVaciado
  <2> QED BY <1>t, <1>8, <2>1, <2>2, <2>3, PedidoPasa, PedidoVuelve DEF Atiende
<1>9. CASE Next
  <2>1. Paso BY <1>9, Clasifica
  <2> QED BY <2>1, <1>2, <1>3, <1>4, <1>5, <1>6, <1>7, <1>8 DEF Paso
<1> QED BY <1>1, <1>9

\* A process that is BLOCKED has a request on its way, or the end it was refused with; of
\* those that have ended only a killed one leaves a request behind; and nobody has two:
\* with any number of interfaces, processes and requests, while interfaces close and
\* the answer brings killed processes back to READY.
THEOREM PedidoSiempreUnico == Spec => []PedidoUnico
<1> DEFINE I == Bien /\ PedidoUnico
<1>1. Init => I BY BienInicial, PedidoInicial
<1>2. I /\ [Next]_vars => I' BY BienPaso, PedidoPaso
<1>3. I => PedidoUnico OBVIOUS
<1> QED BY <1>1, <1>2, <1>3, PTL DEF Spec

-----------------------------------------------------------------------------
(* The frames of the pieces.                                               *)

\* At most one process executes, and only it has pieces of a MOV to do.
UnoEjecuta ==
    /\ \A p, q \in Pids : estado[p] = "EXEC" /\ estado[q] = "EXEC" => p = q
    /\ mov # <<>> => \E p \in Pids : estado[p] = "EXEC"

\* Who is on the way out, or out of the memory, is not scheduled and asks for nothing: it
\* has the state EXIT, or is BLOCKED since its request was refused.
Vive ==
    \A p \in Pids \ dudosos :
       Saliendo(p) => estado[p] = "EXIT" \/ (estado[p] = "BLOCKED" /\ ~Pide(p))

\* An entry of the TLB is a frame of its process.
TlbPropia ==
    \A n \in DOMAIN tlb :
       tlb[n].pid \in lista \ dudosos => tlb[n].marco \in Tablas!Propios(tlb[n].pid)

\* PiezasPropias, by what it reads, and the hand of the thread: F are the frames of p.
Enteras(F, s) ==
    \A n \in DOMAIN s : s[n].marco \in F /\ s[n].desplazamiento + s[n].bytes <= TamPagina

\* A request or a message is not of p, or its pieces are in F; and so all those of a queue.
Suyo(F, p, r) == r.pid = p => Enteras(F, r.traducciones)
Suyos(F, p, s) == \A n \in DOMAIN s : Suyo(F, p, s[n])

EnLugar(F, p, h, b, k, t) ==
    /\ Suyo(F, p, h) /\ Suyos(F, p, b) /\ Suyos(F, p, k)
    /\ t.pid = p => Enteras(F, t.piezas)

MovPropio(p) == estado[p] = "EXEC" => Enteras(Tablas!Propios(p), mov)
LugarPropio(p, i) == EnLugar(Tablas!Propios(p), p, mano[i], bloq[i], de_kernel[i], tarea[i])

TodasPropias ==
    \A p \in Pids \ dudosos : MovPropio(p) /\ \A i \in Interfaces : LugarPropio(p, i)

LEMMA PiezasSon == ASSUME TodasPropias PROVE PiezasPropias
  BY DEF TodasPropias, PiezasPropias, MovPropio, LugarPropio, EnLugar, Suyo, Suyos, Enteras, TodasDe,
         EsDe

LEMMA MasMarcos ==
    ASSUME NEW F, NEW G, F \subseteq G
    PROVE  /\ \A s : Enteras(F, s) => Enteras(G, s)
           /\ \A p, h, b, k, t : EnLugar(F, p, h, b, k, t) => EnLugar(G, p, h, b, k, t)
<1>1. \A s : Enteras(F, s) => Enteras(G, s) BY DEF Enteras
<1> QED BY <1>1 DEF EnLugar, Suyo, Suyos

LEMMA EnterasCola ==
    ASSUME NEW F, NEW s \in Seq(Pieza), s # <<>>, Enteras(F, s) PROVE Enteras(F, Tail(s))
  BY Cola DEF Enteras

LEMMA SuyosMas ==
    ASSUME NEW F, NEW p, NEW S, NEW s \in Seq(S), NEW e \in S, Suyos(F, p, s), Suyo(F, p, e)
    PROVE  Suyos(F, p, Append(s, e))
<1>1. \A n \in DOMAIN Append(s, e) :
         (n \in DOMAIN s /\ Append(s, e)[n] = s[n]) \/ Append(s, e)[n] = e
  BY Agregado
<1> QED BY <1>1 DEF Suyos

LEMMA SuyosMenos ==
    ASSUME NEW F, NEW p, NEW S, NEW s \in Seq(S), s # <<>>, Suyos(F, p, s)
    PROVE  Suyo(F, p, Head(s)) /\ Suyos(F, p, Tail(s))
  BY Cola DEF Suyos

LEMMA NadaSuyo == ASSUME NEW F, NEW p \in Pids PROVE Suyo(F, p, SinPedido)
  BY DEF Suyo, SinPedido

\* Who has no request has nothing in the queues, the sockets or the interfaces.
LEMMA NadaEnCamino ==
    ASSUME TypeOK, Dialogo, NEW p \in Pids, ~Pide(p), NEW i \in Interfaces, NEW F
    PROVE  EnLugar(F, p, mano[i], bloq[i], de_kernel[i], tarea[i])
<1>1. DialogoDe(i) BY DEF Dialogo
<1>2. bloq[i] \in Seq(Pedido) /\ de_kernel[i] \in Seq(Mensaje) BY Partes DEF TipoColas, TipoInterfaces, TipoIda
<1>3. \A n \in Lugares(i) : Quien(i, n) # p BY PideEs
<1>4. mano[i].pid # p
  <2>1. 0 \in Lugares(i) BY <1>2 DEF Lugares
  <2>2. Quien(i, 0) = mano[i].pid BY DEF Quien, PedidoDe
  <2> QED BY <1>3, <2>1, <2>2
<1>5. \A n \in DOMAIN bloq[i] : bloq[i][n].pid # p BY <1>2, <1>3 DEF Lugares, Quien, PedidoDe
<1>6. pc_k[i] \in PcKernel BY Partes DEF TipoHilo
<1>7. \A n \in DOMAIN de_kernel[i] : de_kernel[i][n].pid # p
  <2>1. CASE de_kernel[i] = <<>> BY <2>1
  <2>2. CASE de_kernel[i] # <<>>
    <3>1. Len(de_kernel[i]) = 1 /\ (de_kernel[i][1].pid = Nadie \/ de_kernel[i][1].pid = mano[i].pid)
      BY <1>1, <1>6, <2>2 DEF DialogoDe, Callado, Informa, Atendido, PcKernel, SinNadaEnMano
    <3>2. DOMAIN de_kernel[i] = {1} BY <1>2, <3>1
    <3> QED BY <1>4, <3>1, <3>2
  <2> QED BY <2>1, <2>2
<1>8. tarea[i].pid # p
  <2>1. CASE ~Ocupada(i)
    <3>1. tarea[i] = SinTarea BY <1>1, <2>1 DEF DialogoDe
    <3>2. SinTarea.pid = Nadie BY DEF SinTarea
    <3> QED BY <3>1, <3>2
  <2>2. CASE Ocupada(i)
    <3>1. pc_k[i] \in SinNadaEnMano \cup {"espera_nombre", "espera_tipo", "recibe", "desconecta"}
      BY <1>6 DEF PcKernel, SinNadaEnMano
    <3>2. pc_k[i] = "recibe" BY <1>1, <2>2, <3>1 DEF DialogoDe, Callado, Informa
    <3>3. Atendido(i) BY <1>1, <3>2 DEF DialogoDe
    <3>4. tarea[i].pid = mano[i].pid BY <2>2, <3>3 DEF Atendido, Ocupada
    <3> QED BY <1>4, <3>4
  <2> QED BY <2>1, <2>2
<1> QED BY <1>4, <1>5, <1>7, <1>8 DEF EnLugar, Suyo, Suyos

Propias == UnoEjecuta /\ Vive /\ TlbPropia /\ TodasPropias

IInv == Bien /\ PedidoUnico /\ Propias

\* Who executes is in the memory, and its requests are over.
LEMMA QuienEjecuta ==
    ASSUME IInv, NEW p \in Pids, Ejecuta(p)
    PROVE  /\ p \notin dudosos => p \in lista /\ ~Saliendo(p)
           /\ ~Pide(p) /\ mov = <<>> /\ estado[p] = "EXEC"
<1>1. TypeOK /\ PedidoUnico /\ Vive BY DEF IInv, Bien, Propias
<1>2. estado[p] = "EXEC" /\ mov = <<>> BY DEF Ejecuta
<1>3. EnSuEstado(p) BY <1>1, PartesDelPedido
<1> QED BY <1>1, <1>2, <1>3 DEF EnSuEstado, Vive, Saliendo

-----------------------------------------------------------------------------
(* What a step leaves alone.                                               *)

LEMMA UnoIgual == ASSUME UnoEjecuta, UNCHANGED <<estado, mov>> PROVE UnoEjecuta'
  BY DEF UnoEjecuta

LEMMA ViveIgual ==
    ASSUME Vive, UNCHANGED <<lista, estado, cola_exit>>, dudosos \subseteq dudosos', NadiePideMas
    PROVE  Vive'
<1>1. \A q \in Pids : Saliendo(q)' <=> Saliendo(q) BY DEF Saliendo
<1> QED BY <1>1 DEF Vive, NadiePideMas

LEMMA TlbPropiaIgual ==
    ASSUME TlbPropia, UNCHANGED <<tabla, tlb>>, lista' \subseteq lista, dudosos \subseteq dudosos'
    PROVE  TlbPropia'
  BY DEF TlbPropia, Tablas!Propios

LEMMA LugarIgual ==
    ASSUME NEW p, NEW i, LugarPropio(p, i),
           UNCHANGED <<tabla, mano[i], bloq[i], de_kernel[i], tarea[i]>>
    PROVE  LugarPropio(p, i)'
  BY DEF LugarPropio, Tablas!Propios

LEMMA MovIgual ==
    ASSUME NEW p, MovPropio(p), UNCHANGED <<tabla, mov>>, estado'[p] = "EXEC" => estado[p] = "EXEC"
    PROVE  MovPropio(p)'
  BY DEF MovPropio, Tablas!Propios

LEMMA SaleSolo ==
    ASSUME TypeOK, NEW p \in Pids, UNCHANGED lista, cola_exit' = cola_exit \/ AExit(p),
           NEW q \in Pids, q # p, Saliendo(q)'
    PROVE  Saliendo(q)
<1>1. cola_exit \in Seq(Pids) BY Partes DEF TipoProcesos
<1>2. CASE cola_exit' = cola_exit BY <1>2 DEF Saliendo
<1>3. CASE AExit(p)
  <2>1. \A n \in DOMAIN cola_exit' :
           (n \in DOMAIN cola_exit /\ cola_exit'[n] = cola_exit[n]) \/ cola_exit'[n] = p
    BY <1>1, <1>3, Agregado DEF AExit
  <2> QED BY <2>1 DEF Saliendo
<1> QED BY <1>2, <1>3

\* One process leaves EXEC, or was not there.
LEMMA PropiasCambia ==
    ASSUME IInv, TypeOK, NEW p \in Pids, NEW a \in {"READY", "BLOCKED", "EXIT"},
           estado' = [estado EXCEPT ![p] = a],
           cola_exit' = cola_exit \/ (a = "EXIT" /\ AExit(p)),
           a = "EXIT" \/ p \in dudosos \/ ~Saliendo(p),
           estado[p] # "EXEC" \/ mov = <<>>,
           UNCHANGED <<tabla, lista, mov>>, dudosos \subseteq dudosos',
           \A q \in Pids \ {p} : Pide(q)' => Pide(q)
    PROVE  UnoEjecuta' /\ Vive' /\ \A q \in Pids \ dudosos' : MovPropio(q)'
<1>1. UnoEjecuta /\ Vive /\ TodasPropias BY DEF IInv, Propias
<1>2. estado \in [Pids -> Estados] /\ cola_exit \in Seq(Pids) BY Partes DEF TipoProcesos
<1>3. estado'[p] = a /\ a # "EXEC" /\ \A q \in Pids : q # p => estado'[q] = estado[q] BY <1>2
<1>4. UnoEjecuta' BY <1>1, <1>3 DEF UnoEjecuta
<1>5. ASSUME NEW q \in Pids \ dudosos', Saliendo(q)'
      PROVE  estado'[q] = "EXIT" \/ (estado'[q] = "BLOCKED" /\ ~Pide(q)')
  <2>1. CASE q = p
    <3>1. CASE a = "EXIT" BY <1>3, <2>1, <3>1
    <3>2. CASE a # "EXIT"
      <4>1. Saliendo(p) BY <1>5, <2>1, <3>2 DEF Saliendo
      <4> QED BY <1>5, <2>1, <3>2, <4>1
    <3> QED BY <3>1, <3>2
  <2>2. CASE q # p
    <3>1. Saliendo(q) BY <1>5, <2>2, SaleSolo
    <3> QED BY <1>1, <1>3, <1>5, <2>2, <3>1 DEF Vive
  <2> QED BY <2>1, <2>2
<1>6. Vive' BY <1>5 DEF Vive
<1>7. ASSUME NEW q \in Pids \ dudosos' PROVE MovPropio(q)'
  <2>1. MovPropio(q) BY <1>1 DEF TodasPropias
  <2>2. estado'[q] = "EXEC" => estado[q] = "EXEC" BY <1>3
  <2> QED BY <2>1, <2>2, MovIgual
<1> QED BY <1>4, <1>6, <1>7

\* A translation by the process that executes: its entries and its pieces are its own.
LEMMA TraducePropias ==
    ASSUME IInv, NEW p \in Pids, NEW dir \in Nat, NEW tam \in Nat, Ejecuta(p),
           Traduce(p, dir, tam), UNCHANGED <<tabla, lista, dudosos>>
    PROVE  /\ TlbPropia'
           /\ p \notin dudosos => Enteras(Tablas!Propios(p), ObtenerTraducciones(p, dir, tam))
<1>1. TypeOK /\ TlbAcotada /\ TlbPropia BY DEF IInv, Bien, Propias
<1>2. \A n \in DOMAIN tlb' :
         \/ \E k \in DOMAIN tlb : tlb'[n] = tlb[k]
         \/ tlb'[n].pid = p /\ tlb'[n].marco \in Tablas!Propios(p)
  BY <1>1, TlbTraducida
<1>3. \A q : Tablas!Propios(q)' = Tablas!Propios(q) BY DEF Tablas!Propios
<1>4. TlbPropia'
  <2> SUFFICES ASSUME NEW n \in DOMAIN tlb', NEW q, q = tlb'[n].pid, q \in lista \ dudosos
               PROVE  tlb'[n].marco \in Tablas!Propios(q)
    BY <1>3 DEF TlbPropia, Tablas!Propios
  <2> QED BY <1>1, <1>2 DEF TlbPropia
<1>5. ASSUME p \notin dudosos
      PROVE  Enteras(Tablas!Propios(p), ObtenerTraducciones(p, dir, tam))
  <2>1. p \in lista BY <1>5, QuienEjecuta
  <2>2. \A m : Conocido(p, m) => m \in Tablas!Propios(p)
    BY <1>1, <1>5, <2>1 DEF Conocido, Entradas, TlbPropia
  <2>3. ~PideMarcoQueNoHay(p, dir, tam) BY DEF Traduce
  <2>4. \A n \in DOMAIN ObtenerTraducciones(p, dir, tam) :
           EnteraDe(p, ObtenerTraducciones(p, dir, tam)[n])
    BY <1>1, <2>3, Traducidas
  <2> QED BY <2>2, <2>4 DEF Enteras, EnteraDe
<1> QED BY <1>4, <1>5

-----------------------------------------------------------------------------
(* Each step keeps the frames of the pieces.                               *)

\* The tables, the queues, the sockets and the interfaces stay as they are.
LEMMA LugaresIguales ==
    ASSUME IInv, UNCHANGED <<tabla, mano, bloq, de_kernel, tarea>>, dudosos \subseteq dudosos',
           \A p \in Pids \ dudosos' : MovPropio(p)'
    PROVE  TodasPropias'
<1> SUFFICES ASSUME NEW p \in Pids \ dudosos', NEW i \in Interfaces PROVE LugarPropio(p, i)'
  BY DEF TodasPropias
<1>1. LugarPropio(p, i) BY DEF IInv, Propias, TodasPropias
<1> QED BY <1>1, LugarIgual

LEMMA PropiasEstados ==
    ASSUME IInv, NEW p \in Pids, Despacha(p) \/ Desaloja(p) \/ Exit(p) \/ Mata(p)
    PROVE  Propias'
<1>1. TypeOK /\ UnoEjecuta /\ Vive /\ TlbPropia BY DEF IInv, Bien, Propias
<1>2. /\ UNCHANGED <<tabla, mano, bloq, de_kernel, tarea>> /\ dudosos \subseteq dudosos'
      /\ UNCHANGED <<tabla, lista, mov>> /\ UNCHANGED <<tabla, tlb>>
  BY Matado DEF Despacha, Desaloja, Exit, memoria, kernel, esvars
<1>n. NadiePideMas BY <1>2, NadieMas
<1>3. TlbPropia' BY <1>1, <1>2, TlbPropiaIgual
<1>4. estado \in [Pids -> Estados] BY <1>1, Partes DEF TipoProcesos
<1>5. CASE Despacha(p)
  <2>1. /\ \A q \in Pids : estado[q] # "EXEC" /\ estado[p] = "READY"
        /\ estado' = [estado EXCEPT ![p] = "EXEC"] /\ cola_exit' = cola_exit
        /\ dudosos' = dudosos
    BY <1>5 DEF Despacha, Cambia
  <2>2. mov = <<>> BY <1>1, <2>1 DEF UnoEjecuta
  <2>3. UnoEjecuta' BY <1>2, <1>4, <2>1, <2>2 DEF UnoEjecuta
  <2>4. Vive'
    <3>1. \A q \in Pids : Saliendo(q)' <=> Saliendo(q) BY <1>2, <2>1 DEF Saliendo
    <3> QED BY <1>1, <1>2, <1>4, <1>n, <2>1, <3>1 DEF Vive, NadiePideMas
  <2>5. \A q : MovPropio(q)' BY <1>2, <2>2 DEF MovPropio, Enteras
  <2> QED BY <1>2, <1>3, <2>3, <2>4, <2>5, LugaresIguales DEF Propias
<1>6. CASE ~Despacha(p)
  <2>1. PICK a \in {"READY", "EXIT"} :
          /\ estado' = [estado EXCEPT ![p] = a]
          /\ cola_exit' = cola_exit \/ (a = "EXIT" /\ AExit(p))
          /\ a = "EXIT" \/ estado[p] = "EXEC"
    BY <1>6, Matado DEF Desaloja, Exit, Cambia, Ejecuta
  <2>2. estado[p] # "EXEC" \/ mov = <<>> BY <1>6, Matado DEF Desaloja, Exit, Ejecuta
  <2>3. a = "EXIT" \/ p \in dudosos \/ ~Saliendo(p) BY <1>1, <2>1 DEF Vive
  <2>4. UnoEjecuta' /\ Vive' /\ \A q \in Pids \ dudosos' : MovPropio(q)'
    BY <1>1, <1>2, <1>n, <2>1, <2>2, <2>3, PropiasCambia DEF NadiePideMas
  <2> QED BY <1>2, <1>3, <2>4, LugaresIguales DEF Propias
<1> QED BY <1>5, <1>6

LEMMA PropiasMovPieza == ASSUME IInv, MovPieza PROVE Propias'
<1>1. TypeOK /\ UnoEjecuta /\ Vive /\ TlbPropia /\ TodasPropias BY DEF IInv, Bien, Propias
<1>2. /\ UNCHANGED <<tabla, mano, bloq, de_kernel, tarea>> /\ dudosos \subseteq dudosos'
      /\ UNCHANGED <<lista, estado, cola_exit>> /\ UNCHANGED <<tabla, tlb>>
      /\ dudosos' = dudosos /\ mov # <<>> /\ mov' = Tail(mov)
  BY DEF MovPieza, memoria, procesos, kernel, esvars
<1>3. mov \in Seq(Pieza) BY <1>1, Partes DEF TipoMov
<1>4. UnoEjecuta' BY <1>1, <1>2 DEF UnoEjecuta
<1>5. Vive' BY <1>1, <1>2, NadieMas, ViveIgual
<1>6. TlbPropia' BY <1>1, <1>2, TlbPropiaIgual
<1>7. ASSUME NEW p \in Pids \ dudosos' PROVE MovPropio(p)'
  <2>1. MovPropio(p) BY <1>1, <1>2 DEF TodasPropias
  <2>2. ASSUME estado[p] = "EXEC" PROVE Enteras(Tablas!Propios(p), Tail(mov))
    <3>1. Enteras(Tablas!Propios(p), mov) BY <2>1, <2>2 DEF MovPropio
    <3> QED BY <1>2, <1>3, <3>1, EnterasCola
  <2> QED BY <1>2, <2>2 DEF MovPropio, Tablas!Propios
<1> QED BY <1>2, <1>4, <1>5, <1>6, <1>7, LugaresIguales DEF Propias

LEMMA PropiasMov ==
    ASSUME IInv, NEW p \in Pids, NEW dir \in Nat, NEW tam \in Nat, Mov(p, dir, tam)
    PROVE  Propias'
<1>1. TypeOK /\ UnoEjecuta /\ Vive /\ TodasPropias BY DEF IInv, Bien, Propias
<1>2. /\ UNCHANGED <<tabla, mano, bloq, de_kernel, tarea>> /\ dudosos \subseteq dudosos'
      /\ UNCHANGED <<lista, estado, cola_exit>> /\ UNCHANGED <<tabla, lista, dudosos>>
      /\ Ejecuta(p) /\ Traduce(p, dir, tam) /\ mov' = ObtenerTraducciones(p, dir, tam)
  BY DEF Mov, memoria, procesos, kernel, esvars
<1>3. /\ TlbPropia'
      /\ p \notin dudosos => Enteras(Tablas!Propios(p), ObtenerTraducciones(p, dir, tam))
  BY <1>2, TraducePropias
<1>4. estado[p] = "EXEC" BY <1>2, QuienEjecuta
<1>5. UnoEjecuta' BY <1>1, <1>2, <1>4 DEF UnoEjecuta
<1>6. Vive' BY <1>1, <1>2, NadieMas, ViveIgual
<1>7. ASSUME NEW q \in Pids \ dudosos' PROVE MovPropio(q)'
  <2>1. CASE q = p BY <1>2, <1>3, <2>1 DEF MovPropio, Tablas!Propios
  <2>2. CASE q # p BY <1>1, <1>2, <1>4, <2>2 DEF MovPropio, UnoEjecuta
  <2> QED BY <2>1, <2>2
<1> QED BY <1>2, <1>3, <1>5, <1>6, <1>7, LugaresIguales DEF Propias

LEMMA PropiasIoStdoutWrite ==
    ASSUME IInv, NEW p \in Pids, NEW dir \in Nat, NEW tam \in Nat, IoStdoutWrite(p, dir, tam)
    PROVE  Propias'
<1>1. TypeOK BY DEF IInv, Bien
<1>2. /\ UNCHANGED <<tabla, mano, bloq, de_kernel, tarea>> /\ dudosos \subseteq dudosos'
      /\ UNCHANGED <<tabla, lista, mov>> /\ UNCHANGED <<tabla, lista, dudosos>>
      /\ Ejecuta(p) /\ Traduce(p, dir, tam)
      /\ estado' = [estado EXCEPT ![p] = "EXIT"] /\ AExit(p)
  BY DEF IoStdoutWrite, memoria, kernel, esvars, Cambia
<1>3. TlbPropia' BY <1>2, TraducePropias
<1>4. mov = <<>> BY <1>2, QuienEjecuta
<1>5. UnoEjecuta' /\ Vive' /\ \A q \in Pids \ dudosos' : MovPropio(q)'
  <2>1. NadiePideMas BY <1>2, NadieMas
  <2> QED BY <1>1, <1>2, <1>4, <2>1, PropiasCambia DEF NadiePideMas
<1> QED BY <1>2, <1>3, <1>5, LugaresIguales DEF Propias

LEMMA PropiasIoStdinRead ==
    ASSUME IInv, Bien', SigueSaliendo, NEW p \in Pids, NEW i \in Interfaces, NEW dir \in Nat,
           NEW tam \in Nat, IoStdinRead(p, i, dir, tam)
    PROVE  Propias'
<1>1. TypeOK /\ TlbAcotada /\ Dialogo /\ Vive /\ TodasPropias BY DEF IInv, Bien, Propias
<1>2. /\ UNCHANGED <<tabla, mano, de_kernel, tarea>> /\ dudosos \subseteq dudosos'
      /\ UNCHANGED <<tabla, lista, mov>> /\ UNCHANGED <<tabla, lista, dudosos>>
      /\ Ejecuta(p) /\ Traduce(p, dir, tam)
  BY DEF IoStdinRead, memoria, esvars
<1>3. /\ TlbPropia'
      /\ p \notin dudosos => Enteras(Tablas!Propios(p), ObtenerTraducciones(p, dir, tam))
  BY <1>2, TraducePropias
<1>4. mov = <<>> /\ (p \in dudosos \/ ~Saliendo(p)) BY <1>2, QuienEjecuta
<1>5. CASE ~Conectada(i)
  <2>1. UNCHANGED bloq /\ estado' = [estado EXCEPT ![p] = "EXIT"] /\ AExit(p)
    BY <1>5 DEF IoStdinRead, Cambia
  <2>n. NadiePideMas BY <1>2, <2>1, NadieMas
  <2>2. UnoEjecuta' /\ Vive' /\ \A q \in Pids \ dudosos' : MovPropio(q)'
    BY <1>1, <1>2, <1>4, <2>1, <2>n, PropiasCambia DEF NadiePideMas
  <2> QED BY <1>2, <1>3, <2>1, <2>2, LugaresIguales DEF Propias
<1>6. CASE Conectada(i)
  <2> DEFINE r == PedidoNuevo(p, dir, tam)
  <2>1. /\ r \in Pedido /\ r.pid = p /\ r.traducciones = ObtenerTraducciones(p, dir, tam)
        /\ bloq'[i] = Append(bloq[i], r) /\ bloq[i] \in Seq(Pedido)
        /\ bloq' = [bloq EXCEPT ![i] = Append(@, r)]
        /\ estado' = [estado EXCEPT ![p] = "BLOCKED"] /\ cola_exit' = cola_exit
    BY <1>1, <1>6, ColasDespues
  <2> HIDE DEF r
  <2>n. \A q \in Pids \ {p} : Pide(q)' => Pide(q) BY <1>1, <1>6, PedidoNace DEF IInv
  <2>2. UnoEjecuta' /\ Vive' /\ \A q \in Pids \ dudosos' : MovPropio(q)'
    BY <1>1, <1>2, <1>4, <2>1, <2>n, PropiasCambia
  <2>3. ASSUME NEW q \in Pids \ dudosos', NEW j \in Interfaces PROVE LugarPropio(q, j)'
    <3>1. LugarPropio(q, j) BY <1>1, <1>2 DEF TodasPropias
    <3>2. UNCHANGED <<tabla, mano[j], de_kernel[j], tarea[j]>> BY <1>2
    <3>3. CASE j # i
      <4>1. bloq'[j] = bloq[j] BY <1>1, <2>1, <3>3, Partes DEF TipoColas
      <4> QED BY <3>1, <3>2, <4>1, LugarIgual
    <3>4. CASE j = i
      <4>1. Suyo(Tablas!Propios(q), q, r) BY <1>2, <1>3, <2>1 DEF Suyo
      <4>2. EnLugar(Tablas!Propios(q), q, mano[i], bloq[i], de_kernel[i], tarea[i])
        BY <3>1, <3>4 DEF LugarPropio
      <4>3. EnLugar(Tablas!Propios(q), q, mano[i], bloq'[i], de_kernel[i], tarea[i])
        BY <2>1, <4>1, <4>2, SuyosMas DEF EnLugar
      <4> QED BY <3>2, <3>4, <4>3 DEF LugarPropio, Tablas!Propios
    <3> QED BY <3>3, <3>4
  <2>4. TodasPropias' BY <2>2, <2>3 DEF TodasPropias
  <2> QED BY <1>3, <2>2, <2>4 DEF Propias
<1> QED BY <1>5, <1>6

LEMMA PropiosDespues ==
    ASSUME TypeOK, NEW p \in Pids
    PROVE  /\ Tablas!Crece(p) => \A q \in Pids : Tablas!Propios(q) \subseteq Tablas!Propios(q)'
           /\ Tablas!Achica(p) \/ Tablas!Suelta(p) =>
                \A q \in Pids \ {p} : Tablas!Propios(q)' = Tablas!Propios(q)
           /\ Tablas!Achica(p) =>
                \A m \in Tablas!Propios(p) \ {tabla[p][Len(tabla[p])]} : m \in Tablas!Propios(p)'
<1>1. tabla \in [Pids -> Seq(Marcos)] /\ tabla[p] \in Seq(Marcos) BY DEF TypeOK
<1>2. ASSUME Tablas!Crece(p), NEW q \in Pids, NEW m \in Tablas!Propios(q)
      PROVE  m \in Tablas!Propios(q)'
  <2>1. PICK f \in Marcos : tabla' = [tabla EXCEPT ![p] = Append(@, f)]
    BY <1>2 DEF Tablas!Crece, Tablas!Libres
  <2>2. PICK n \in DOMAIN tabla[q] : m = tabla[q][n] BY <1>2 DEF Tablas!Propios
  <2>3. n \in DOMAIN tabla'[q] /\ tabla'[q][n] = tabla[q][n]
    <3>1. CASE q # p
      <4>1. tabla'[q] = tabla[q] BY <1>1, <2>1, <3>1
      <4> QED BY <2>2, <4>1
    <3>2. CASE q = p
      <4>1. tabla'[p] = Append(tabla[p], f) BY <1>1, <2>1
      <4> QED BY <1>1, <2>2, <3>2, <4>1, Agregado
    <3> QED BY <3>1, <3>2
  <2> QED BY <2>2, <2>3 DEF Tablas!Propios
<1>3. ASSUME Tablas!Achica(p) \/ Tablas!Suelta(p), NEW q \in Pids \ {p}
      PROVE  Tablas!Propios(q)' = Tablas!Propios(q)
  <2>1. tabla'[q] = tabla[q] BY <1>1, <1>3 DEF Tablas!Achica, Tablas!Suelta
  <2> QED BY <2>1 DEF Tablas!Propios
<1>4. ASSUME Tablas!Achica(p), NEW m \in Tablas!Propios(p), m # tabla[p][Len(tabla[p])]
      PROVE  m \in Tablas!Propios(p)'
  <2>1. tabla[p] # <<>> /\ tabla'[p] = SubSeq(tabla[p], 1, Len(tabla[p]) - 1)
    BY <1>1, <1>4 DEF Tablas!Achica
  <2>2. PICK n \in DOMAIN tabla[p] : m = tabla[p][n] BY <1>4 DEF Tablas!Propios
  <2>3. n \in 1..(Len(tabla[p]) - 1) BY <1>1, <1>4, <2>2
  <2>4. n \in DOMAIN tabla'[p] /\ tabla'[p][n] = tabla[p][n] BY <1>1, <2>1, <2>3
  <2> QED BY <2>2, <2>4 DEF Tablas!Propios
<1> QED BY <1>2, <1>3, <1>4

\* Whose table shrinks or is given back has no piece on its way.
LEMMA PropiasMemoria ==
    ASSUME IInv, NEW p \in Pids, Amplia(p) \/ Recorta(p) \/ Suelta(p)
    PROVE  Propias'
<1>1. TypeOK /\ Dialogo /\ UnoEjecuta /\ Vive /\ TlbPropia /\ TodasPropias /\ PedidoUnico
  BY DEF IInv, Bien, Propias
<1>2. /\ UNCHANGED <<mano, bloq, de_kernel, tarea, mov, estado, tlb>> /\ dudosos \subseteq dudosos'
      /\ UNCHANGED <<lista, estado, cola_exit>> /\ UNCHANGED <<estado, mov>>
  BY DEF Amplia, Recorta, Suelta, procesos, kernel, esvars
<1>3. UnoEjecuta' BY <1>1, <1>2, UnoIgual
<1>4. Vive' BY <1>1, <1>2, NadieMas, ViveIgual
<1>5. Amplia(p) => Tablas!Crece(p) BY DEF Amplia
<1>6. Recorta(p) => Tablas!Achica(p) BY DEF Recorta
<1>7. Suelta(p) => Tablas!Suelta(p) /\ p \notin lista BY DEF Suelta
<1>8. ASSUME NEW q \in Pids, q # p \/ Amplia(p)
      PROVE  Tablas!Propios(q) \subseteq Tablas!Propios(q)'
  BY <1>1, <1>5, <1>6, <1>7, <1>8, PropiosDespues
<1>9. TlbPropia'
  <2> SUFFICES ASSUME NEW n \in DOMAIN tlb', NEW q, q = tlb'[n].pid, q \in lista' \ dudosos'
               PROVE  tlb'[n].marco \in Tablas!Propios(q)'
    BY DEF TlbPropia, Tablas!Propios
  <2>0. /\ n \in DOMAIN tlb /\ q = tlb[n].pid /\ q \in lista \ dudosos' /\ q \in Pids
        /\ tlb'[n].marco = tlb[n].marco
    BY <1>1, <1>2 DEF TypeOK
  <2>1. tlb[n].marco \in Tablas!Propios(q) BY <1>1, <1>2, <2>0 DEF TlbPropia
  <2>2. CASE q # p \/ Amplia(p) BY <1>8, <2>0, <2>1, <2>2
  <2>3. CASE q = p /\ Recorta(p)
    <3>1. tlb[n].marco # tabla[p][Len(tabla[p])] BY <1>2, <2>0, <2>3 DEF Recorta, Entradas
    <3> QED BY <1>1, <1>6, <2>0, <2>1, <2>3, <3>1, PropiosDespues
  <2>4. CASE q = p /\ Suelta(p) BY <1>7, <2>0, <2>4
  <2> QED BY <2>2, <2>3, <2>4
<1>q. ASSUME NEW q \in Pids \ dudosos', q = p /\ ~Amplia(p)
      PROVE  ~Pide(p) /\ (estado[p] = "EXEC" => mov = <<>>)
  <2>1. CASE Recorta(p)
    <3>1. Ejecuta(p) BY <2>1 DEF Recorta
    <3> QED BY <3>1, QuienEjecuta
  <2>2. CASE Suelta(p)
    <3>1. Saliendo(p) /\ p \notin dudosos BY <1>2, <1>7, <1>q, <2>2 DEF Saliendo
    <3>2. estado[p] = "EXIT" \/ (estado[p] = "BLOCKED" /\ ~Pide(p)) BY <1>1, <3>1 DEF Vive
    <3>3. EnSuEstado(p) BY <1>1, PartesDelPedido
    <3> QED BY <3>1, <3>2, <3>3 DEF EnSuEstado
  <2> QED BY <1>q, <2>1, <2>2
<1>10. ASSUME NEW q \in Pids \ dudosos', NEW i \in Interfaces PROVE LugarPropio(q, i)'
  <2>1. PICK G : G = Tablas!Propios(q)' OBVIOUS
  <2>2. LugarPropio(q, i)' <=> EnLugar(G, q, mano[i], bloq[i], de_kernel[i], tarea[i])
    BY <1>2, <2>1 DEF LugarPropio
  <2>3. CASE q # p \/ Amplia(p)
    <3>1. LugarPropio(q, i) BY <1>1, <1>2 DEF TodasPropias
    <3>2. Tablas!Propios(q) \subseteq G BY <1>8, <2>1, <2>3
    <3> QED BY <2>2, <3>1, <3>2, MasMarcos DEF LugarPropio
  <2>4. CASE q = p /\ ~Amplia(p)
    <3>1. ~Pide(p) BY <1>q, <2>4
    <3>2. EnLugar(G, p, mano[i], bloq[i], de_kernel[i], tarea[i]) BY <1>1, <3>1, NadaEnCamino
    <3> QED BY <2>2, <2>4, <3>2
  <2> QED BY <2>3, <2>4
<1>11. ASSUME NEW q \in Pids \ dudosos' PROVE MovPropio(q)'
  <2>1. PICK G : G = Tablas!Propios(q)' OBVIOUS
  <2>2. MovPropio(q)' <=> (estado[q] = "EXEC" => Enteras(G, mov)) BY <1>2, <2>1 DEF MovPropio
  <2>3. CASE q # p \/ Amplia(p)
    <3>1. MovPropio(q) BY <1>1, <1>2 DEF TodasPropias
    <3>2. Tablas!Propios(q) \subseteq G BY <1>8, <2>1, <2>3
    <3> QED BY <2>2, <3>1, <3>2, MasMarcos DEF MovPropio
  <2>4. CASE q = p /\ ~Amplia(p)
    <3>1. estado[p] = "EXEC" => mov = <<>> BY <1>q, <2>4
    <3> QED BY <2>2, <2>4, <3>1 DEF Enteras
  <2> QED BY <2>3, <2>4
<1>12. TodasPropias' BY <1>10, <1>11 DEF TodasPropias
<1> QED BY <1>3, <1>4, <1>9, <1>12 DEF Propias

LEMMA PropiasRetira == ASSUME IInv, Retira PROVE Propias'
<1>1. TypeOK /\ UnoEjecuta /\ Vive /\ TlbPropia /\ TodasPropias BY DEF IInv, Bien, Propias
<1>2. /\ UNCHANGED <<tabla, mano, bloq, de_kernel, tarea>> /\ dudosos \subseteq dudosos'
      /\ UNCHANGED <<estado, mov>> /\ UNCHANGED <<tabla, tlb>> /\ dudosos' = dudosos
      /\ cola_exit # <<>> /\ cola_exit' = Tail(cola_exit) /\ lista' = lista \ {Head(cola_exit)}
  BY DEF Retira, kernel, esvars
<1>3. cola_exit \in Seq(Pids) BY <1>1, Partes DEF TipoProcesos
<1>4. UnoEjecuta' BY <1>1, <1>2, UnoIgual
<1>5. TlbPropia' BY <1>1, <1>2, TlbPropiaIgual
<1>6. ASSUME NEW p \in Pids, Saliendo(p)' PROVE Saliendo(p)
  <2>1. Head(cola_exit) = cola_exit[1] /\ 1 \in DOMAIN cola_exit BY <1>2, <1>3
  <2>2. \A n \in DOMAIN Tail(cola_exit) : n + 1 \in DOMAIN cola_exit /\ Tail(cola_exit)[n] = cola_exit[n + 1]
    BY <1>2, <1>3, Cola
  <2> QED BY <1>2, <1>6, <2>1, <2>2 DEF Saliendo
<1>7. Vive' BY <1>1, <1>2, <1>6, NadieMas DEF Vive, NadiePideMas
<1>8. ASSUME NEW q \in Pids \ dudosos' PROVE MovPropio(q)'
  <2>1. MovPropio(q) BY <1>1, <1>2 DEF TodasPropias
  <2> QED BY <1>2, <2>1, MovIgual
<1> QED BY <1>2, <1>4, <1>5, <1>7, <1>8, LugaresIguales DEF Propias

\* A step of one interface or of its thread.
LEMMA LugarSolo ==
    ASSUME IInv, NEW i \in Interfaces, Atiende(i) \/ DelPrograma(i),
           \A q \in Pids \ dudosos : MovPropio(q)',
           \A q \in Pids \ dudosos : LugarPropio(q, i) =>
              EnLugar(Tablas!Propios(q), q, mano'[i], bloq'[i], de_kernel'[i], tarea'[i])
    PROVE  TodasPropias'
<1>1. TypeOK /\ TodasPropias BY DEF IInv, Bien, Propias
<1>2. tabla' = tabla /\ dudosos' = dudosos
  BY DEF Atiende, KPregunta, KConoce, KMiraPlan, KToma, KRecibe, KRecibeNada, KDevuelve, KVacia,
         KLibera, DelPrograma, EnInterfaz, Escribe, Cierra, memoria
<1>3. ASSUME NEW q \in Pids \ dudosos', NEW j \in Interfaces PROVE LugarPropio(q, j)'
  <2>1. LugarPropio(q, j) BY <1>1, <1>2 DEF TodasPropias
  <2>2. CASE j = i
    <3>1. EnLugar(Tablas!Propios(q), q, mano'[i], bloq'[i], de_kernel'[i], tarea'[i])
      BY <1>2, <2>1, <2>2
    <3> QED BY <1>2, <2>2, <3>1 DEF LugarPropio, Tablas!Propios
  <2>3. CASE j # i
    <3>1. UNCHANGED <<tabla, mano[j], bloq[j], de_kernel[j], tarea[j]>>
      BY <1>1, <1>2, <2>3, DialogoAjeno DEF dialogo
    <3> QED BY <2>1, <3>1, LugarIgual
  <2> QED BY <2>2, <2>3
<1> QED BY <1>2, <1>3 DEF TodasPropias

\* What a thread or an interface sends, takes or gives back, and no process changes.
LEMMA PropiasSinEstado ==
    ASSUME IInv, NadiePideMas, NEW i \in Interfaces, Atiende(i) \/ DelPrograma(i),
           UNCHANGED <<estado, mov, lista, cola_exit, tabla, tlb, dudosos>>,
           \A q \in Pids \ dudosos : LugarPropio(q, i) =>
              EnLugar(Tablas!Propios(q), q, mano'[i], bloq'[i], de_kernel'[i], tarea'[i])
    PROVE  Propias'
<1>1. UnoEjecuta /\ Vive /\ TlbPropia /\ TodasPropias BY DEF IInv, Propias
<1>2. /\ UNCHANGED <<estado, mov>> /\ UNCHANGED <<lista, estado, cola_exit>>
      /\ UNCHANGED <<tabla, tlb>> /\ UNCHANGED <<tabla, mov>> /\ dudosos \subseteq dudosos'
  OBVIOUS
<1>3. UnoEjecuta' BY <1>1, <1>2, UnoIgual
<1>4. Vive' BY <1>1, <1>2, ViveIgual
<1>5. TlbPropia' BY <1>1, <1>2, TlbPropiaIgual
<1>6. ASSUME NEW q \in Pids \ dudosos PROVE MovPropio(q)'
  <2>1. MovPropio(q) BY <1>1 DEF TodasPropias
  <2> QED BY <1>2, <2>1, MovIgual
<1>7. TodasPropias' BY <1>6, LugarSolo
<1> QED BY <1>3, <1>4, <1>5, <1>7 DEF Propias

\* The steps of the thread that change no state of a process.
LEMMA PropiasAtiende ==
    ASSUME IInv, Bien', SigueSaliendo, NEW i \in Interfaces,
           \/ KPregunta(i) \/ KConoce(i) \/ KMiraPlan(i) \/ KToma(i) \/ KRecibeNada(i)
           \/ KDevuelve(i) \/ KLibera(i)
    PROVE  Propias'
<1>1. Bien /\ TypeOK /\ PedidoUnico /\ DialogoDe(i) BY DEF IInv, Bien, Dialogo
<1>2. UNCHANGED <<estado, mov, lista, cola_exit, tabla, tlb, dudosos>> /\ tarea' = tarea
  BY DEF KPregunta, KConoce, KMiraPlan, KToma, KRecibeNada, KDevuelve, KLibera, memoria, procesos,
         esvars
<1>3. Atiende(i) BY DEF Atiende
<1>4. /\ bloq \in [Interfaces -> Seq(Pedido)] /\ de_kernel \in [Interfaces -> Seq(Mensaje)]
      /\ mano \in [Interfaces -> Pedido]
  BY <1>1, Partes DEF TipoColas, TipoHilo, TipoInterfaces, TipoIda
<1>5. SUFFICES
        /\ NadiePideMas
        /\ \A q \in Pids \ dudosos : LugarPropio(q, i) =>
             EnLugar(Tablas!Propios(q), q, mano'[i], bloq'[i], de_kernel'[i], tarea'[i])
  BY <1>2, <1>3, PropiasSinEstado
<1>6. CASE KConoce(i) \/ KMiraPlan(i) \/ KRecibeNada(i) \/ KLibera(i)
  <2>1. UNCHANGED <<mano, bloq>> /\ de_kernel' = de_kernel
    BY <1>6 DEF KConoce, KMiraPlan, KRecibeNada, KLibera, esvars
  <2> QED BY <1>2, <2>1, NadieMas DEF LugarPropio
<1>7. CASE KPregunta(i)
  <2>1. PICK m \in Mensaje : m.pid = Nadie /\ de_kernel' = [de_kernel EXCEPT ![i] = Append(@, m)]
    <3>1. PICK op \in {"INFORMAR_NOMBRE", "INFORMAR_TIPO"} : KEnvia(i, op, Nadie, <<>>)
      BY <1>7 DEF KPregunta
    <3>2. <<>> \in Seq(Pieza) OBVIOUS
    <3>3. [op |-> op, pid |-> Nadie, traducciones |-> <<>>] \in Mensaje BY <3>2 DEF Mensaje
    <3> QED BY <3>1, <3>3 DEF KEnvia
  <2>2. UNCHANGED <<mano, bloq>> /\ de_kernel'[i] = Append(de_kernel[i], m)
    BY <1>4, <1>7, <2>1 DEF KPregunta
  <2>3. ASSUME NEW q \in Pids \ dudosos, LugarPropio(q, i)
        PROVE  EnLugar(Tablas!Propios(q), q, mano'[i], bloq'[i], de_kernel'[i], tarea'[i])
    <3>1. Suyo(Tablas!Propios(q), q, m) BY <2>1 DEF Suyo
    <3>2. EnLugar(Tablas!Propios(q), q, mano[i], bloq[i], de_kernel[i], tarea[i])
      BY <2>3 DEF LugarPropio
    <3>3. Suyos(Tablas!Propios(q), q, Append(de_kernel[i], m)) /\ de_kernel[i] \in Seq(Mensaje)
      BY <1>4, <3>1, <3>2, SuyosMas DEF EnLugar
    <3> QED BY <1>2, <2>2, <3>2, <3>3 DEF EnLugar
  <2> QED BY <2>2, <2>3, NadieMas
<1>8. CASE KToma(i)
  <2> DEFINE r == Head(bloq[i])
             m == [op |-> "INSTRUCCION", pid |-> r.pid, traducciones |-> r.traducciones]
  <2>1. /\ bloq[i] # <<>> /\ bloq' = [bloq EXCEPT ![i] = Tail(@)] /\ mano' = [mano EXCEPT ![i] = r]
        /\ \/ de_kernel' = [de_kernel EXCEPT ![i] = Append(@, m)]
           \/ de_kernel' = de_kernel
    BY <1>8 DEF KToma, KManda, KEnvia
  <2>2. r \in Pedido BY <1>4, <2>1, Cola
  <2>3. m \in Mensaje /\ m.pid = r.pid /\ m.traducciones = r.traducciones
    <3>1. r.pid \in Pids BY <1>1, <1>4, <2>1, Cola DEF DialogoDe
    <3>2. r.traducciones \in Seq(Pieza) BY <2>2 DEF Pedido
    <3> QED BY <3>1, <3>2 DEF Mensaje
  <2> HIDE DEF m, r
  <2>4. /\ bloq'[i] = Tail(bloq[i]) /\ mano'[i] = r
        /\ de_kernel'[i] = Append(de_kernel[i], m) \/ de_kernel'[i] = de_kernel[i]
    BY <1>4, <2>1
  <2>5. ASSUME NEW q \in Pids \ dudosos, LugarPropio(q, i)
        PROVE  EnLugar(Tablas!Propios(q), q, mano'[i], bloq'[i], de_kernel'[i], tarea'[i])
    <3> DEFINE F == Tablas!Propios(q)
    <3>1. EnLugar(F, q, mano[i], bloq[i], de_kernel[i], tarea[i]) BY <2>5 DEF LugarPropio
    <3> HIDE DEF F
    <3>2. Suyo(F, q, r) /\ Suyos(F, q, Tail(bloq[i])) BY <1>4, <2>1, <3>1, SuyosMenos DEF EnLugar, r
    <3>3. Suyo(F, q, m) BY <2>3, <3>2 DEF Suyo
    <3>4. Suyos(F, q, de_kernel'[i])
      <4>1. Suyos(F, q, de_kernel[i]) /\ de_kernel[i] \in Seq(Mensaje) BY <1>4, <3>1 DEF EnLugar
      <4>2. Suyos(F, q, Append(de_kernel[i], m)) BY <2>3, <3>3, <4>1, SuyosMas
      <4> QED BY <2>4, <4>1, <4>2
    <3>5. EnLugar(F, q, r, Tail(bloq[i]), de_kernel'[i], tarea[i]) BY <3>1, <3>2, <3>4 DEF EnLugar
    <3> QED BY <1>2, <2>4, <3>5 DEF F
  <2>6. NadiePideMas BY <1>1, <1>8, PedidoPasa
  <2> QED BY <2>5, <2>6
<1>9. CASE KDevuelve(i)
  <2>1. /\ bloq' = [bloq EXCEPT ![i] = Append(@, mano[i])]
        /\ mano' = [mano EXCEPT ![i] = SinPedido] /\ de_kernel' = de_kernel
    BY <1>9 DEF KDevuelve, esvars
  <2>2. bloq'[i] = Append(bloq[i], mano[i]) /\ mano'[i] = SinPedido /\ mano[i] \in Pedido
    BY <1>4, <2>1
  <2>3. ASSUME NEW q \in Pids \ dudosos, LugarPropio(q, i)
        PROVE  EnLugar(Tablas!Propios(q), q, mano'[i], bloq'[i], de_kernel'[i], tarea'[i])
    <3> DEFINE F == Tablas!Propios(q)
    <3>1. EnLugar(F, q, mano[i], bloq[i], de_kernel[i], tarea[i]) BY <2>3 DEF LugarPropio
    <3> HIDE DEF F
    <3>2. Suyos(F, q, Append(bloq[i], mano[i]))
      <4>1. Suyos(F, q, bloq[i]) /\ Suyo(F, q, mano[i]) /\ bloq[i] \in Seq(Pedido)
        BY <1>4, <3>1 DEF EnLugar
      <4> QED BY <2>2, <4>1, SuyosMas
    <3>3. Suyo(F, q, SinPedido) BY NadaSuyo
    <3>4. EnLugar(F, q, SinPedido, Append(bloq[i], mano[i]), de_kernel[i], tarea[i])
      BY <3>1, <3>2, <3>3 DEF EnLugar
    <3> QED BY <1>2, <2>1, <2>2, <3>4 DEF F
  <2>4. NadiePideMas BY <1>1, <1>9, PedidoVuelve
  <2> QED BY <2>3, <2>4
<1> QED BY <1>6, <1>7, <1>8, <1>9

\* The answer: the request is over.
LEMMA PropiasRecibe ==
    ASSUME IInv, Bien', SigueSaliendo, NEW i \in Interfaces, KRecibe(i)
    PROVE  Propias'
<1>1. Bien /\ TypeOK /\ UnoEjecuta /\ Vive /\ TlbPropia /\ TodasPropias /\ PedidoUnico
  BY DEF IInv, Bien, Propias
<1>p. PICK p : p = mano[i].pid OBVIOUS
<1>2. NadiePideMas /\ p \in Pids /\ Pide(p) /\ ~Pide(p)' BY <1>1, <1>p, PedidoAcaba
<1>3. /\ UNCHANGED <<tabla, lista, mov>> /\ UNCHANGED <<tabla, tlb>> /\ UNCHANGED <<tabla, mov>>
      /\ UNCHANGED <<bloq, de_kernel, tarea, dudosos>> /\ UNCHANGED lista
      /\ mano' = [mano EXCEPT ![i] = SinPedido]
      /\ \/ estado' = [estado EXCEPT ![p] = "READY"] /\ cola_exit' = cola_exit
         \/ AExit(p) /\ UNCHANGED estado
  BY <1>p DEF KRecibe, memoria
<1>4. EnSuEstado(p) BY <1>1, <1>2, PartesDelPedido
<1>5. p \notin dudosos => estado[p] = "BLOCKED" /\ ~Saliendo(p)
  <2>1. estado[p] \in Estados BY <1>1, <1>2, Partes DEF TipoProcesos
  <2>2. p \notin dudosos => estado[p] = "BLOCKED"
    BY <1>2, <1>4, <2>1 DEF EnSuEstado, Estados
  <2> QED BY <1>1, <1>2, <2>2 DEF Vive
<1>6. UnoEjecuta' /\ Vive' /\ \A q \in Pids \ dudosos' : MovPropio(q)'
  <2>1. CASE estado' = [estado EXCEPT ![p] = "READY"] /\ cola_exit' = cola_exit
    <3>1. estado[p] # "EXEC" BY <1>2, <1>4 DEF EnSuEstado
    <3>2. p \in dudosos \/ ~Saliendo(p) BY <1>5
    <3> QED BY <1>1, <1>2, <1>3, <2>1, <3>1, <3>2, PropiasCambia DEF NadiePideMas
  <2>2. CASE AExit(p) /\ UNCHANGED estado
    <3>1. UnoEjecuta' BY <1>1, <1>3, <2>2, UnoIgual
    <3>2. ASSUME NEW q \in Pids \ dudosos, Saliendo(q)'
          PROVE  estado[q] = "EXIT" \/ (estado[q] = "BLOCKED" /\ ~Pide(q)')
      <4>1. CASE q = p BY <1>2, <1>5, <4>1
      <4>2. CASE q # p
        <5>1. Saliendo(q) BY <1>1, <1>2, <1>3, <2>2, <3>2, <4>2, SaleSolo
        <5> QED BY <1>1, <1>2, <5>1 DEF Vive, NadiePideMas
      <4> QED BY <4>1, <4>2
    <3>3. Vive' BY <1>3, <2>2, <3>2 DEF Vive
    <3>4. ASSUME NEW q \in Pids \ dudosos PROVE MovPropio(q)'
      <4>1. MovPropio(q) BY <1>1 DEF TodasPropias
      <4> QED BY <1>3, <2>2, <4>1, MovIgual
    <3> QED BY <1>3, <3>1, <3>3, <3>4
  <2> QED BY <1>3, <2>1, <2>2
<1>7. TlbPropia' BY <1>1, <1>3, TlbPropiaIgual
<1>8. ASSUME NEW q \in Pids \ dudosos, LugarPropio(q, i)
      PROVE  EnLugar(Tablas!Propios(q), q, mano'[i], bloq'[i], de_kernel'[i], tarea'[i])
  <2>1. mano'[i] = SinPedido BY <1>1, <1>3, Partes DEF TipoHilo
  <2>2. Suyo(Tablas!Propios(q), q, SinPedido) BY NadaSuyo
  <2> QED BY <1>3, <1>8, <2>1, <2>2 DEF LugarPropio, EnLugar
<1>9. TodasPropias' BY <1>3, <1>6, <1>8, LugarSolo DEF Atiende
<1> QED BY <1>6, <1>7, <1>9 DEF Propias

\* The interface is gone: the processes of its list end.
LEMMA PropiasVacia ==
    ASSUME IInv, Bien', SigueSaliendo, NEW i \in Interfaces, KVacia(i)
    PROVE  Propias'
<1>1. Bien /\ TypeOK /\ TlbPropia /\ PedidoUnico BY DEF IInv, Bien, Propias
<1>p. PICK p : p = Head(bloq[i]).pid OBVIOUS
<1>2. NadiePideMas /\ p \in Pids /\ Pide(p) BY <1>1, <1>p, PedidoVaciado
<1>3. /\ UNCHANGED <<tabla, lista, mov>> /\ UNCHANGED <<tabla, tlb>>
      /\ UNCHANGED <<mano, de_kernel, tarea, dudosos>> /\ UNCHANGED lista
      /\ bloq[i] # <<>> /\ bloq' = [bloq EXCEPT ![i] = Tail(@)]
      /\ estado' = [estado EXCEPT ![p] = "EXIT"] /\ AExit(p)
  BY <1>p DEF KVacia, memoria, esvars
<1>4. estado[p] # "EXEC"
  <2>1. EnSuEstado(p) BY <1>1, <1>2, PartesDelPedido
  <2> QED BY <1>2, <2>1 DEF EnSuEstado
<1>5. UnoEjecuta' /\ Vive' /\ \A q \in Pids \ dudosos' : MovPropio(q)'
  BY <1>1, <1>2, <1>3, <1>4, PropiasCambia DEF NadiePideMas
<1>6. TlbPropia' BY <1>1, <1>3, TlbPropiaIgual
<1>7. ASSUME NEW q \in Pids \ dudosos, LugarPropio(q, i)
      PROVE  EnLugar(Tablas!Propios(q), q, mano'[i], bloq'[i], de_kernel'[i], tarea'[i])
  <2>1. bloq[i] \in Seq(Pedido) /\ bloq'[i] = Tail(bloq[i]) BY <1>1, <1>3, Partes DEF TipoColas
  <2>2. EnLugar(Tablas!Propios(q), q, mano[i], bloq[i], de_kernel[i], tarea[i])
    BY <1>7 DEF LugarPropio
  <2>3. Suyos(Tablas!Propios(q), q, Tail(bloq[i])) BY <1>3, <2>1, <2>2, SuyosMenos DEF EnLugar
  <2> QED BY <1>3, <2>1, <2>2, <2>3 DEF EnLugar
<1>8. TodasPropias' BY <1>3, <1>5, <1>7, LugarSolo DEF Atiende
<1> QED BY <1>5, <1>6, <1>8 DEF Propias

LEMMA PropiasPrograma ==
    ASSUME IInv, NEW i \in Interfaces, DelPrograma(i)
    PROVE  Propias'
<1>1. TypeOK BY DEF IInv, Bien
<1>2. /\ UNCHANGED <<estado, mov, lista, cola_exit, tabla, tlb, dudosos>>
      /\ UNCHANGED <<mano, bloq>>
      /\ Interfaz(i) \/ UsuarioEscribe(i) \/ EsCierra(i)
  BY DEF DelPrograma, EnInterfaz, Escribe, Cierra, memoria, procesos, kernel
<1>7. /\ de_kernel \in [Interfaces -> Seq(Mensaje)] /\ tarea \in [Interfaces -> Tarea]
  BY <1>1, Partes DEF TipoInterfaces, TipoIda, TipoTarea
<1>8. ASSUME NEW q \in Pids \ dudosos, LugarPropio(q, i)
      PROVE  EnLugar(Tablas!Propios(q), q, mano'[i], bloq'[i], de_kernel'[i], tarea'[i])
  <2> DEFINE F == Tablas!Propios(q)
  <2>1. EnLugar(F, q, mano[i], bloq[i], de_kernel[i], tarea[i]) BY <1>8 DEF LugarPropio
  <2> HIDE DEF F
  <2>l. ASSUME NEW op, EsLee(i, op)
        PROVE  /\ Head(de_kernel[i]) \in Mensaje
               /\ Suyo(F, q, Head(de_kernel[i])) /\ Suyos(F, q, de_kernel'[i])
    <3>1. de_kernel[i] # <<>> /\ de_kernel'[i] = Tail(de_kernel[i]) BY <1>7, <2>l DEF EsLee
    <3>2. Suyos(F, q, de_kernel[i]) /\ de_kernel[i] \in Seq(Mensaje) BY <1>7, <2>1 DEF EnLugar
    <3> QED BY <3>1, <3>2, Cola, SuyosMenos
  <2>n. SinTarea.pid = Nadie BY DEF SinTarea
  <2>2. CASE EsConecta(i) \/ UsuarioEscribe(i)
    BY <1>2, <2>1, <2>2 DEF EsConecta, UsuarioEscribe, F
  <2>3. CASE EsInforma(i)
    <3>1. PICK op : EsLee(i, op) BY <2>3 DEF EsInforma
    <3>2. tarea' = tarea BY <2>3 DEF EsInforma
    <3>3. EnLugar(F, q, mano[i], bloq[i], de_kernel'[i], tarea[i]) BY <2>1, <2>l, <3>1 DEF EnLugar
    <3> QED BY <1>2, <3>2, <3>3 DEF F
  <2>4. CASE EsInstruccion(i)
    <3>1. EsLee(i, "INSTRUCCION") BY <2>4 DEF EsInstruccion
    <3>2. Suyo(F, q, Head(de_kernel[i])) /\ Suyos(F, q, de_kernel'[i]) BY <2>l, <3>1
    <3>3. /\ tarea'[i].pid = Head(de_kernel[i]).pid
          /\ tarea'[i].piezas = Head(de_kernel[i]).traducciones
      BY <1>7, <2>4 DEF EsInstruccion
    <3>4. EnLugar(F, q, mano[i], bloq[i], de_kernel'[i], tarea'[i])
      BY <2>1, <3>2, <3>3 DEF EnLugar, Suyo
    <3> QED BY <1>2, <3>4 DEF F
  <2>5. CASE EsPieza(i)
    <3>1. /\ tarea[i].piezas # <<>> /\ de_kernel' = de_kernel
          /\ tarea'[i].pid = tarea[i].pid /\ tarea'[i].piezas = Tail(tarea[i].piezas)
      BY <1>7, <2>5 DEF EsPieza
    <3>2. tarea[i].piezas \in Seq(Pieza) BY <1>7 DEF Tarea
    <3>3. tarea[i].pid = q => Enteras(F, Tail(tarea[i].piezas))
      <4>1. tarea[i].pid = q => Enteras(F, tarea[i].piezas) BY <2>1 DEF EnLugar
      <4> QED BY <3>1, <3>2, <4>1, EnterasCola
    <3>4. EnLugar(F, q, mano[i], bloq[i], de_kernel[i], tarea'[i]) BY <2>1, <3>1, <3>3 DEF EnLugar
    <3> QED BY <1>2, <3>1, <3>4 DEF F
  <2>6. CASE EsAvisa(i)
    <3>1. de_kernel' = de_kernel /\ tarea'[i] = SinTarea BY <1>7, <2>6 DEF EsAvisa
    <3>2. EnLugar(F, q, mano[i], bloq[i], de_kernel[i], tarea'[i])
      BY <2>1, <2>n, <3>1 DEF EnLugar
    <3> QED BY <1>2, <3>1, <3>2 DEF F
  <2>7. CASE EsCierra(i)
    <3>1. de_kernel'[i] = <<>> /\ tarea'[i] = SinTarea BY <1>7, <2>7 DEF EsCierra
    <3>2. Suyos(F, q, <<>>) BY DEF Suyos
    <3>3. EnLugar(F, q, mano[i], bloq[i], de_kernel'[i], tarea'[i])
      BY <2>1, <2>n, <3>1, <3>2 DEF EnLugar
    <3> QED BY <1>2, <3>3 DEF F
  <2> QED BY <1>2, <2>2, <2>3, <2>4, <2>5, <2>6, <2>7 DEF Interfaz
<1>9. NadiePideMas BY <1>2, NadieMas
<1> QED BY <1>2, <1>8, <1>9, PropiasSinEstado

-----------------------------------------------------------------------------
LEMMA PropiasInicial == ASSUME Init PROVE Propias
<1>1. UnoEjecuta BY DEF Init, UnoEjecuta
<1>2. Vive BY DEF Init, Vive, Saliendo
<1>3. TlbPropia BY DEF Init, TlbPropia
<1>4. ASSUME NEW p \in Pids \ dudosos PROVE MovPropio(p) /\ \A i \in Interfaces : LugarPropio(p, i)
  <2>1. MovPropio(p) BY DEF Init, MovPropio
  <2>2. TypeOK /\ Dialogo /\ PedidoUnico BY BienInicial, PedidoInicial DEF Bien
  <2>3. ~Pide(p)
    <3>1. EnSuEstado(p) /\ estado[p] = "READY" BY <2>2, PartesDelPedido DEF Init
    <3> QED BY <3>1 DEF EnSuEstado
  <2> QED BY <2>1, <2>2, <2>3, NadaEnCamino DEF LugarPropio
<1>5. TodasPropias BY <1>4 DEF TodasPropias
<1> QED BY <1>1, <1>2, <1>3, <1>5 DEF Propias

LEMMA PropiasPaso == ASSUME IInv, [Next]_vars PROVE Propias'
<1>t. Bien' /\ SigueSaliendo BY BienPaso, SaleParaSiempre DEF IInv
<1>1. CASE UNCHANGED vars \/ Cae \/ Ordena
  <2>1. /\ UNCHANGED <<estado, mov>> /\ UNCHANGED <<lista, estado, cola_exit>>
        /\ UNCHANGED <<tabla, tlb>> /\ dudosos' = dudosos /\ UNCHANGED <<tabla, mov>>
        /\ UNCHANGED <<tabla, mano, bloq, de_kernel, tarea>>
    BY <1>1 DEF vars, Cae, Ordena, memoria, procesos, kernel, esvars
  <2>2. UnoEjecuta' /\ Vive' /\ TlbPropia'
    BY <2>1, UnoIgual, NadieMas, ViveIgual, TlbPropiaIgual DEF IInv, Propias
  <2>3. ASSUME NEW q \in Pids \ dudosos' PROVE MovPropio(q)'
    <3>1. MovPropio(q) BY <2>1 DEF IInv, Propias, TodasPropias
    <3> QED BY <2>1, <3>1, MovIgual
  <2> QED BY <2>1, <2>2, <2>3, LugaresIguales DEF Propias
<1>2. CASE Next
  <2>1. Paso BY <1>2, Clasifica
  <2> QED BY <1>t, <1>1, <2>1, PropiasEstados, PropiasMemoria, PropiasRetira, PropiasMovPieza,
             PropiasMov, PropiasIoStdoutWrite, PropiasIoStdinRead, PropiasAtiende,
             PropiasRecibe, PropiasVacia, PropiasPrograma DEF Paso, Atiende
<1> QED BY <1>1, <1>2

\* What the CPU, the queues of the kernel, the sockets and the interfaces have still to
\* read or write lies in frames of the process that asked for it, with any number of
\* processes, frames, interfaces and requests, and with a TLB of any size: unless the
\* process was killed with its request pending or shrunk with an entry in the TLB.
THEOREM PiezasSiemprePropias == Spec => []PiezasPropias
<1>1. Init => IInv BY BienInicial, PedidoInicial, PropiasInicial DEF IInv
<1>2. IInv /\ [Next]_vars => IInv' BY BienPaso, PedidoPaso, PropiasPaso DEF IInv
<1>3. IInv => PiezasPropias BY PiezasSon DEF IInv, Propias
<1> QED BY <1>1, <1>2, <1>3, PTL DEF Spec

-----------------------------------------------------------------------------
(* The bytes of an access, in order.                                       *)

\* The least of a set of numbers: induction on the pieces is by the first that fails.
LEMMA Menor ==
    ASSUME NEW T, T \subseteq Nat, T # {}
    PROVE  \E x \in T : \A y \in T : x <= y
<1> DEFINE R == OpToRel(<, Nat)
<1>1. IsWellFoundedOn(R, Nat) BY NatLessThanWellFounded
<1>2. PICK x \in T : \A y \in T : <<y, x>> \notin R
  <2> HIDE DEF R
  <2> QED BY <1>1, WFMin
<1>3. \A y \in T : x <= y
  <2> SUFFICES ASSUME NEW y \in T, y < x PROVE FALSE OBVIOUS
  <2>1. <<y, x>> \in R BY DEF OpToRel
  <2> QED BY <1>2, <2>1
<1> QED BY <1>3

\* g adds up the bytes of the pieces, one by one.
Suma(t, g) == g = [n \in 0..Len(t) |-> IF n = 0 THEN 0 ELSE g[n - 1] + t[n].bytes]

\* A function that adds up is the one that Antes gives.
LEMMA AntesEs ==
    ASSUME NEW t, Len(t) \in Nat, NEW g, Suma(t, g)
    PROVE  Antes(t) = g
<1> DEFINE a == Antes(t)
<1>1. Suma(t, a) BY DEF Suma, Antes
<1> HIDE DEF a
<1>2. DOMAIN a = 0..Len(t) /\ a[0] = 0 /\ \A n \in 1..Len(t) : a[n] = a[n - 1] + t[n].bytes
  BY <1>1 DEF Suma
<1>3. DOMAIN g = 0..Len(t) /\ g[0] = 0 /\ \A n \in 1..Len(t) : g[n] = g[n - 1] + t[n].bytes
  BY DEF Suma
<1>4. \A n \in 0..Len(t) : a[n] = g[n]
  <2> DEFINE T == {n \in 0..Len(t) : a[n] # g[n]}
  <2> SUFFICES ASSUME T # {} PROVE FALSE OBVIOUS
  <2>1. PICK x \in T : \A y \in T : x <= y
    <3>1. T \subseteq Nat OBVIOUS
    <3> HIDE DEF T
    <3> QED BY <3>1, Menor
  <2>2. x \in 1..Len(t) /\ x - 1 \in 0..Len(t) BY <1>2, <1>3
  <2>3. a[x - 1] = g[x - 1] BY <2>1, <2>2
  <2> QED BY <1>2, <1>3, <2>2, <2>3
<1>5. a = g BY <1>1, <1>2, <1>3, <1>4 DEF Suma
<1> QED BY <1>5 DEF a

\* A multiple of the page, and a number by its page and its offset.
LEMMA Multiplo == ASSUME NEW k \in Int PROVE (TamPagina * k) % TamPagina = 0
  BY SMT

LEMMA PorPagina ==
    ASSUME NEW d \in Nat
    PROVE  /\ d = TamPagina * PaginaDe(d) + (d % TamPagina)
           /\ d % TamPagina \in 0..(TamPagina - 1)
  BY SMT DEF PaginaDe

\* How many pieces an access has, and the bytes of the first n of them: all but the last
\* end their pages.
Piezas(dir, tam) == PaginaDe(Final(dir, tam)) - PaginaDe(dir) + 1
Hasta(dir, tam, n) ==
    CASE n = 0 -> 0
      [] n # 0 /\ n # 1 /\ n = Piezas(dir, tam) -> tam
      [] OTHER -> TamPagina * n - (dir % TamPagina)

LEMMA PiezasHay ==
    ASSUME NEW dir \in Nat, NEW tam \in Nat \ {0}
    PROVE  /\ Piezas(dir, tam) \in Nat \ {0}
           /\ PaginaDe(dir) \in Nat /\ PaginaDe(Final(dir, tam)) \in Nat
           /\ TamPagina * Piezas(dir, tam) - (dir % TamPagina)
                = tam + TamPagina - 1 - (Final(dir, tam) % TamPagina)
<1> DEFINE a == PaginaDe(dir)
           b == PaginaDe(Final(dir, tam))
           r == dir % TamPagina
           s == Final(dir, tam) % TamPagina
<1>1. Final(dir, tam) \in Nat /\ Final(dir, tam) = dir + tam - 1 BY DEF Final
<1>2. dir = TamPagina * a + r /\ r \in 0..(TamPagina - 1) BY PorPagina
<1>3. dir + tam - 1 = TamPagina * b + s /\ s \in 0..(TamPagina - 1) BY <1>1, PorPagina
<1>4. a \in Nat /\ b \in Nat BY <1>1, PaginaNatural
<1>5. Piezas(dir, tam) = b - a + 1 BY DEF Piezas
<1> HIDE DEF a, b, r, s
<1>6. b >= a
  <2> SUFFICES ASSUME b + 1 <= a PROVE FALSE BY <1>4
  <2>1. TamPagina * (b + 1) <= TamPagina * a BY <1>4
  <2>2. TamPagina * (b + 1) = TamPagina * b + TamPagina BY <1>4
  <2> QED BY <1>2, <1>3, <1>4, <2>1, <2>2
<1>7. TamPagina * (b - a + 1) = TamPagina * b - TamPagina * a + TamPagina BY <1>4
<1>8. TamPagina * (b - a + 1) - r = tam + TamPagina - 1 - s
  <2> DEFINE x == TamPagina * a
             y == TamPagina * b
             z == TamPagina * (b - a + 1)
  <2>1. x \in Nat /\ y \in Nat /\ z = y - x + TamPagina BY <1>4, <1>7
  <2>2. dir = x + r /\ dir + tam - 1 = y + s BY <1>2, <1>3
  <2> HIDE DEF x, y, z
  <2>3. z - r = tam + TamPagina - 1 - s BY <1>2, <1>3, <2>1, <2>2
  <2> QED BY <2>3 DEF z
<1> QED BY <1>4, <1>5, <1>6, <1>8 DEF a, b, r, s

\* An access of no bytes has the piece of the byte before it, or none.
LEMMA PiezasDeNada == ASSUME NEW dir \in Nat PROVE Piezas(dir, 0) \in 0..1
<1>1. Final(dir, 0) = dir - 1 BY DEF Final
<1>2. CASE dir = 0
  <2>1. PaginaDe(dir) = 0 BY <1>2, SMT DEF PaginaDe
  <2>2. PaginaDe(Final(dir, 0)) = 0 BY <1>1, <1>2 DEF PaginaDe
  <2> QED BY <2>1, <2>2 DEF Piezas
<1>3. CASE dir # 0
  <2> DEFINE a == PaginaDe(dir)
             b == PaginaDe(dir - 1)
             r == dir % TamPagina
             s == (dir - 1) % TamPagina
  <2>1. dir - 1 \in Nat BY <1>3
  <2>2. dir = TamPagina * a + r /\ r \in 0..(TamPagina - 1) BY PorPagina
  <2>3. dir - 1 = TamPagina * b + s /\ s \in 0..(TamPagina - 1) BY <2>1, PorPagina
  <2>4. a \in Nat /\ b \in Nat BY <2>1, PaginaNatural
  <2> HIDE DEF a, b, r, s
  <2>5. ~(b > a)
    <3> SUFFICES ASSUME a + 1 <= b PROVE FALSE BY <2>4
    <3>1. TamPagina * (a + 1) <= TamPagina * b /\ TamPagina * (a + 1) = TamPagina * a + TamPagina
      BY <2>4
    <3> QED BY <2>2, <2>3, <2>4, <3>1
  <2>6. ~(b < a - 1)
    <3> SUFFICES ASSUME b + 2 <= a PROVE FALSE BY <2>4
    <3>1. TamPagina * (b + 2) <= TamPagina * a
          /\ TamPagina * (b + 2) = TamPagina * b + TamPagina + TamPagina
      BY <2>4
    <3> QED BY <2>2, <2>3, <2>4, <3>1
  <2>7. Piezas(dir, 0) = b - a + 1 BY <1>1 DEF Piezas, a, b
  <2> QED BY <2>4, <2>5, <2>6, <2>7
<1> QED BY <1>2, <1>3

LEMMA PiezasNatural ==
    ASSUME NEW dir \in Nat, NEW tam \in Nat
    PROVE  /\ Piezas(dir, tam) \in Nat /\ (tam = 0 => Piezas(dir, tam) <= 1)
           /\ PaginaDe(dir) \in Nat /\ PaginaDe(Final(dir, tam)) \in Nat
<1>1. PaginaDe(dir) \in Nat /\ PaginaDe(Final(dir, tam)) \in Nat BY PaginaNatural DEF Final
<1>2. CASE tam = 0 BY <1>1, <1>2, PiezasDeNada
<1>3. CASE tam # 0 BY <1>1, <1>3, PiezasHay
<1> QED BY <1>2, <1>3

\* Antes, of the pieces that obtener_traducciones makes.
LEMMA AntesDeTraducciones ==
    ASSUME NEW p \in Pids, NEW dir \in Nat, NEW tam \in Nat
    PROVE  /\ Len(ObtenerTraducciones(p, dir, tam)) = Piezas(dir, tam)
           /\ DOMAIN ObtenerTraducciones(p, dir, tam) = 1..Piezas(dir, tam)
           /\ Antes(ObtenerTraducciones(p, dir, tam))
                = [n \in 0..Piezas(dir, tam) |-> Hasta(dir, tam, n)]
<1> DEFINE t == ObtenerTraducciones(p, dir, tam)
           N == Piezas(dir, tam)
           g == [n \in 0..N |-> Hasta(dir, tam, n)]
<1>1. N \in Nat /\ PaginaDe(dir) \in Nat /\ (tam = 0 => N <= 1) BY PiezasNatural
<1>2. DOMAIN t = 1..N /\ \A n \in 1..N : t[n].bytes = Bytes(dir, tam, PaginaDe(dir) + n - 1)
  BY DEF ObtenerTraducciones, Piezas
<1>3. Len(t) = N
  <2>1. t = [n \in 1..N |-> t[n]] BY DEF ObtenerTraducciones, Piezas
  <2> HIDE DEF t, N
  <2> QED BY <1>1, <2>1
<1>4. ASSUME NEW n \in 1..N
      PROVE  Hasta(dir, tam, n) = Hasta(dir, tam, n - 1) + Bytes(dir, tam, PaginaDe(dir) + n - 1)
  <2> DEFINE r == dir % TamPagina
             s == Final(dir, tam) % TamPagina
             q == PaginaDe(dir) + n - 1
  <2>1. /\ N = PaginaDe(Final(dir, tam)) - PaginaDe(dir) + 1
        /\ PaginaDe(Final(dir, tam)) \in Nat
    BY PiezasNatural DEF Piezas
  <2>2. /\ n = 1 <=> q = PaginaDe(dir)
        /\ n = N <=> q = PaginaDe(Final(dir, tam))
    BY <1>1, <1>4, <2>1
  <2>3. r \in 0..(TamPagina - 1) BY PorPagina
  <2>4. n # 1 => /\ TamPagina * N - r = tam + TamPagina - 1 - s
                 /\ s \in 0..(TamPagina - 1)
    <3> SUFFICES ASSUME n # 1
                 PROVE  /\ TamPagina * N - r = tam + TamPagina - 1 - s
                        /\ s \in 0..(TamPagina - 1)
      OBVIOUS
    <3>1. tam \in Nat \ {0} BY <1>1, <1>4
    <3>2. Final(dir, tam) \in Nat BY <3>1 DEF Final
    <3> QED BY <3>1, <3>2, PorPagina, PiezasHay
  <2>5. TamPagina * (n - 1) = TamPagina * n - TamPagina /\ TamPagina * n \in Nat BY <1>1, <1>4
  <2> HIDE DEF N, r, s, q
  <2>6. CASE n = 1
    <3>1. Hasta(dir, tam, n) = TamPagina - r /\ Hasta(dir, tam, n - 1) = 0
      BY <2>3, <2>6 DEF Hasta, r
    <3>2. Bytes(dir, tam, q) = TamPagina - r BY <2>2, <2>6 DEF Bytes, r
    <3> QED BY <2>3, <3>1, <3>2 DEF q
  <2>7. CASE n # 1
    <3>1. Hasta(dir, tam, n - 1) = TamPagina * (n - 1) - r
      BY <1>1, <1>4, <2>7 DEF Hasta, r, N
    <3>2. CASE n = N
      <4>1. Hasta(dir, tam, n) = tam BY <1>1, <1>4, <2>7, <3>2 DEF Hasta, N
      <4>2. Bytes(dir, tam, q) = s + 1 BY <2>2, <2>7, <3>2 DEF Bytes, s
      <4> QED BY <2>3, <2>4, <2>5, <2>7, <3>1, <3>2, <4>1, <4>2 DEF q
    <3>3. CASE n # N
      <4>1. Hasta(dir, tam, n) = TamPagina * n - r
        BY <1>1, <1>4, <2>7, <3>3 DEF Hasta, r, N
      <4>2. Bytes(dir, tam, q) = TamPagina BY <2>2, <2>7, <3>3 DEF Bytes
      <4> QED BY <2>3, <2>5, <3>1, <4>1, <4>2 DEF q
    <3> QED BY <3>2, <3>3
  <2> QED BY <2>6, <2>7
<1>5. Suma(t, g)
  <2> HIDE DEF t, N
  <2>1. Hasta(dir, tam, 0) = 0 BY DEF Hasta
  <2>2. \A n \in 1..N : g[n] = g[n - 1] + t[n].bytes
    <3> SUFFICES ASSUME NEW n \in 1..N PROVE g[n] = g[n - 1] + t[n].bytes OBVIOUS
    <3>1. n \in 0..N /\ n - 1 \in 0..N BY <1>1
    <3> QED BY <1>2, <1>4, <3>1
  <2>3. \A n \in 0..N : g[n] = IF n = 0 THEN 0 ELSE g[n - 1] + t[n].bytes
    <3>1. \A n \in 0..N : n # 0 => n \in 1..N BY <1>1
    <3> QED BY <2>1, <2>2, <3>1
  <2>4. g = [n \in 0..N |-> IF n = 0 THEN 0 ELSE g[n - 1] + t[n].bytes]
    <3>1. g = [n \in 0..N |-> g[n]] OBVIOUS
    <3> HIDE DEF g
    <3> QED BY <2>3, <3>1
  <2> QED BY <1>3, <2>4 DEF Suma
<1>6. Antes(t) = g
  <2> HIDE DEF t, g, N
  <2> QED BY <1>1, <1>3, <1>5, AntesEs
<1> QED BY <1>2, <1>3, <1>6

\* What obtener_traducciones makes covers the bytes that were asked, each in its offset.
Ordenado(dir, tam, t) ==
    /\ Antes(t)[Len(t)] >= tam
    /\ \A n \in DOMAIN t : (t[n].desplazamiento - dir - Antes(t)[n - 1]) % TamPagina = 0

LEMMA TraduccionesOrdenadas ==
    ASSUME NEW p \in Pids, NEW dir \in Nat, NEW tam \in Nat \ {0}
    PROVE  Ordenado(dir, tam, ObtenerTraducciones(p, dir, tam))
<1> DEFINE t == ObtenerTraducciones(p, dir, tam)
           N == Piezas(dir, tam)
           r == dir % TamPagina
<1>1. N \in Nat \ {0} BY PiezasHay
<1>2. Len(t) = N /\ DOMAIN t = 1..N /\ Antes(t) = [n \in 0..N |-> Hasta(dir, tam, n)]
  BY AntesDeTraducciones
<1>3. dir = TamPagina * PaginaDe(dir) + r /\ r \in 0..(TamPagina - 1) BY PorPagina
<1>4. PaginaDe(dir) \in Nat BY PiezasHay
<1>5. \A n \in 1..N : t[n].desplazamiento = IF n = 1 THEN r ELSE 0
  BY DEF ObtenerTraducciones, Piezas
<1>6. Hasta(dir, tam, N) >= tam
  <2>1. CASE N # 1
    <3>1. Hasta(dir, tam, N) = tam BY <1>1, <2>1 DEF Hasta
    <3> QED BY <3>1
  <2>2. CASE N = 1
    <3>1. Hasta(dir, tam, N) = TamPagina - r BY <1>3, <2>2 DEF Hasta
    <3>2. TamPagina * N - r = tam + TamPagina - 1 - (Final(dir, tam) % TamPagina) BY PiezasHay
    <3>3. Final(dir, tam) % TamPagina \in 0..(TamPagina - 1)
      <4>1. Final(dir, tam) \in Nat BY DEF Final
      <4> QED BY <4>1, PorPagina
    <3> HIDE DEF N, r
    <3> QED BY <1>3, <2>2, <3>1, <3>2, <3>3
  <2> QED BY <2>1, <2>2
<1>7. ASSUME NEW n \in 1..N
      PROVE  (t[n].desplazamiento - dir - Hasta(dir, tam, n - 1)) % TamPagina = 0
  <2>1. PICK k \in Int : t[n].desplazamiento - dir - Hasta(dir, tam, n - 1) = TamPagina * k
    <3> HIDE DEF t
    <3>1. CASE n = 1
      <4>1. Hasta(dir, tam, n - 1) = 0 BY <3>1 DEF Hasta
      <4>2. t[n].desplazamiento - dir - 0 = TamPagina * (0 - PaginaDe(dir))
        BY <1>3, <1>4, <1>5, <3>1
      <4> QED BY <1>4, <4>1, <4>2
    <3>2. CASE n # 1
      <4>1. Hasta(dir, tam, n - 1) = TamPagina * (n - 1) - r
        BY <1>1, <1>7, <3>2 DEF Hasta
      <4>2. t[n].desplazamiento = 0 BY <1>5, <1>7, <3>2
      <4>3. TamPagina * (0 - PaginaDe(dir) - (n - 1))
              = 0 - TamPagina * PaginaDe(dir) - TamPagina * (n - 1)
        BY <1>1, <1>4, <1>7
      <4> DEFINE x == TamPagina * PaginaDe(dir)
                 y == TamPagina * (n - 1)
                 k == 0 - PaginaDe(dir) - (n - 1)
                 z == TamPagina * k
      <4>4. x \in Int /\ y \in Int /\ k \in Int BY <1>1, <1>4, <1>7
      <4>5. z = 0 - x - y /\ dir = x + r /\ Hasta(dir, tam, n - 1) = y - r BY <1>3, <4>1, <4>3
      <4> HIDE DEF r, x, y, z
      <4>6. t[n].desplazamiento - dir - Hasta(dir, tam, n - 1) = z BY <1>3, <4>2, <4>4, <4>5
      <4> HIDE DEF k
      <4> QED BY <4>4, <4>6 DEF z
    <3> QED BY <3>1, <3>2
  <2> QED BY <2>1, Multiplo
<1>8. \A n \in 1..N : n - 1 \in 0..N BY <1>1
<1>9. \A n \in 0..N : Antes(t)[n] = Hasta(dir, tam, n) BY <1>2
<1> HIDE DEF t, N
<1>10. N \in 0..N BY <1>1
<1> QED BY <1>2, <1>6, <1>7, <1>8, <1>9, <1>10 DEF Ordenado, t

\* A request r that the thread for j knew of: in its hand or in its list.
Sabido(j, r) == r = SinPedido \/ r = mano[j] \/ \E m \in DOMAIN bloq[j] : r = bloq[j][m]

\* Only IO_STDIN_READ brings a request that was nowhere.
LEMMA PedidosSabidos ==
    ASSUME TypeOK, Paso, NEW j \in Interfaces,
           ~\E p \in Pids : \E i \in Interfaces : \E dir, tam \in Nat :
               IoStdinRead(p, i, dir, tam) /\ Conectada(i)
    PROVE  Sabido(j, mano'[j]) /\ \A m \in DOMAIN bloq'[j] : Sabido(j, bloq'[j][m])
<1>1. bloq \in [Interfaces -> Seq(Pedido)] /\ mano \in [Interfaces -> Pedido]
  BY Partes DEF TipoColas, TipoHilo
<1>2. CASE UNCHANGED <<mano, bloq>> BY <1>2 DEF Sabido
<1>3. ASSUME NEW i \in Interfaces, bloq[i] # <<>>, bloq' = [bloq EXCEPT ![i] = Tail(@)],
             mano' = mano \/ mano' = [mano EXCEPT ![i] = Head(bloq[i])]
      PROVE  Sabido(j, mano'[j]) /\ \A m \in DOMAIN bloq'[j] : Sabido(j, bloq'[j][m])
  <2>1. \A m \in DOMAIN bloq'[j] : \E k \in DOMAIN bloq[j] : bloq'[j][m] = bloq[j][k]
    BY <1>1, <1>3, Cola
  <2>2. mano'[j] = mano[j] \/ (j = i /\ mano'[j] = bloq[i][1] /\ 1 \in DOMAIN bloq[i])
    BY <1>1, <1>3, Cola
  <2> QED BY <2>1, <2>2 DEF Sabido
<1>4. ASSUME NEW i \in Interfaces, mano' = [mano EXCEPT ![i] = SinPedido],
             bloq' = bloq \/ bloq' = [bloq EXCEPT ![i] = Append(@, mano[i])]
      PROVE  Sabido(j, mano'[j]) /\ \A m \in DOMAIN bloq'[j] : Sabido(j, bloq'[j][m])
  <2>1. mano'[j] = mano[j] \/ mano'[j] = SinPedido BY <1>1, <1>4
  <2>2. \A m \in DOMAIN bloq'[j] :
          bloq'[j][m] = mano[j] \/ \E k \in DOMAIN bloq[j] : bloq'[j][m] = bloq[j][k]
    <3>1. bloq'[j] = bloq[j] \/ bloq'[j] = Append(bloq[j], mano[j]) BY <1>1, <1>4
    <3>2. \A m \in DOMAIN Append(bloq[j], mano[j]) :
            \/ m \in DOMAIN bloq[j] /\ Append(bloq[j], mano[j])[m] = bloq[j][m]
            \/ Append(bloq[j], mano[j])[m] = mano[j]
      BY <1>1, Agregado
    <3> QED BY <3>1, <3>2
  <2> QED BY <2>1, <2>2 DEF Sabido
<1>5. \/ UNCHANGED <<mano, bloq>>
      \/ \E i \in Interfaces : KToma(i) \/ KRecibe(i) \/ KDevuelve(i) \/ KVacia(i)
  BY Matado DEF Paso, Despacha, Desaloja, Exit, Amplia, Recorta, Suelta, Cae, Retira, MovPieza,
     Ordena, Mov, IoStdoutWrite, IoStdinRead, Atiende, KPregunta, KConoce, KMiraPlan, KRecibeNada,
     KLibera, DelPrograma, EnInterfaz, Escribe, Cierra, kernel
<1>6. ASSUME NEW i \in Interfaces, KToma(i) \/ KVacia(i)
      PROVE  /\ bloq[i] # <<>> /\ bloq' = [bloq EXCEPT ![i] = Tail(@)]
             /\ mano' = mano \/ mano' = [mano EXCEPT ![i] = Head(bloq[i])]
  BY <1>6 DEF KToma, KVacia
<1>7. ASSUME NEW i \in Interfaces, KRecibe(i) \/ KDevuelve(i)
      PROVE  /\ mano' = [mano EXCEPT ![i] = SinPedido]
             /\ bloq' = bloq \/ bloq' = [bloq EXCEPT ![i] = Append(@, mano[i])]
  BY <1>7 DEF KRecibe, KDevuelve
<1> QED BY <1>2, <1>3, <1>4, <1>5, <1>6, <1>7

\* BytesEnOrden, and the same of the request in the hand, which goes back to the list when
\* its send fails.
EnOrden(r) == r.tam > 0 => Ordenado(r.dir, r.tam, r.traducciones)
OrdenDe(i) == EnOrden(mano[i]) /\ \A m \in DOMAIN bloq[i] : EnOrden(bloq[i][m])
Orden == \A i \in Interfaces : OrdenDe(i)

LEMMA OrdenDa == ASSUME Orden PROVE BytesEnOrden
  BY DEF BytesEnOrden, Orden, OrdenDe, EnOrden, Ordenado

LEMMA OrdenPrimas ==
    ASSUME NEW j, EnOrden(mano'[j]), \A m \in DOMAIN bloq'[j] : EnOrden(bloq'[j][m])
    PROVE  OrdenDe(j)'
  BY DEF OrdenDe, EnOrden, Ordenado, Antes

LEMMA SabidoEnOrden ==
    ASSUME NEW j \in Interfaces, OrdenDe(j), NEW r, Sabido(j, r) PROVE EnOrden(r)
  BY DEF OrdenDe, Sabido, EnOrden, SinPedido

LEMMA OrdenPaso == ASSUME Bien, Orden, [Next]_vars PROVE Orden'
<1>a. TypeOK /\ TlbAcotada /\ Dialogo /\ TipoColas BY Partes DEF Bien
<1> SUFFICES ASSUME NEW j \in Interfaces PROVE OrdenDe(j)'
  BY DEF Orden
<1>b. OrdenDe(j) BY DEF Orden
<1>1. CASE UNCHANGED vars
  <2>1. mano' = mano /\ bloq' = bloq BY <1>1 DEF vars, kernel
  <2> QED BY <1>b, <2>1, OrdenPrimas DEF OrdenDe
<1>2. ASSUME NEW p \in Pids, NEW i \in Interfaces, NEW dir \in Nat, NEW tam \in Nat,
             IoStdinRead(p, i, dir, tam), Conectada(i)
      PROVE  OrdenDe(j)'
  <2> DEFINE r == PedidoNuevo(p, dir, tam)
  <2>1. /\ bloq'[i] = Append(bloq[i], r) /\ bloq' = [bloq EXCEPT ![i] = Append(@, r)]
        /\ bloq[i] \in Seq(Pedido) /\ r \in Pedido
    BY <1>a, <1>2, ColasDespues
  <2>2. EnOrden(r)
    <3>1. r.dir = dir /\ r.tam = tam /\ r.traducciones = ObtenerTraducciones(p, dir, tam)
      BY DEF PedidoNuevo
    <3>2. tam > 0 => Ordenado(dir, tam, ObtenerTraducciones(p, dir, tam)) BY TraduccionesOrdenadas
    <3> HIDE DEF r
    <3> QED BY <3>1, <3>2 DEF EnOrden
  <2>3. mano' = mano BY <1>2 DEF IoStdinRead
  <2> HIDE DEF r
  <2>4. ASSUME NEW m \in DOMAIN bloq'[j] PROVE EnOrden(bloq'[j][m])
    <3>1. CASE j = i
      <4>1. \/ m \in DOMAIN bloq[i] /\ bloq'[i][m] = bloq[i][m]
            \/ bloq'[i][m] = r
        BY <2>1, <2>4, <3>1, Agregado
      <4> QED BY <1>b, <2>2, <3>1, <4>1 DEF OrdenDe
    <3>2. CASE j # i
      <4>1. bloq'[j] = bloq[j] BY <1>a, <2>1, <3>2 DEF TipoColas
      <4> QED BY <1>b, <2>4, <4>1 DEF OrdenDe
    <3> QED BY <3>1, <3>2
  <2> QED BY <1>b, <2>3, <2>4, OrdenPrimas DEF OrdenDe
<1>3. CASE Next
  <2>1. Paso BY <1>3, Clasifica
  <2>2. CASE \E p \in Pids : \E i \in Interfaces : \E dir, tam \in Nat :
               IoStdinRead(p, i, dir, tam) /\ Conectada(i)
    BY <1>2, <2>2
  <2>3. CASE ~\E p \in Pids : \E i \in Interfaces : \E dir, tam \in Nat :
                IoStdinRead(p, i, dir, tam) /\ Conectada(i)
    <3>1. Sabido(j, mano'[j]) /\ \A m \in DOMAIN bloq'[j] : Sabido(j, bloq'[j][m])
      BY <1>a, <2>1, <2>3, PedidosSabidos
    <3> QED BY <1>b, <3>1, SabidoEnOrden, OrdenPrimas
  <2> QED BY <2>2, <2>3
<1> QED BY <1>1, <1>3

\* Every request that waits for an interface has its bytes in order and none left out, for
\* any page size, address and size: the pieces of obtener_traducciones (cpu.c 707-762), the
\* first from the offset of the address, whole pages after it, the last up to the last byte.
THEOREM BytesSiempreEnOrden == Spec => []BytesEnOrden
<1> DEFINE I == Bien /\ Orden
<1>1. Init => I
  <2>1. Init => Orden BY DEF Init, Orden, OrdenDe, EnOrden, SinPedido
  <2> QED BY <2>1, BienInicial
<1>2. I /\ [Next]_vars => I' BY BienPaso, OrdenPaso
<1>3. I => BytesEnOrden BY OrdenDa
<1> QED BY <1>1, <1>2, <1>3, PTL DEF Spec

-----------------------------------------------------------------------------
(* Without a TLB, every byte is looked for in the frame of its page.       *)

\* The pieces t of an access to dir are in the frames that the table T has for its pages,
\* and T has those pages.
Fieles(T, dir, t) ==
    \A n \in DOMAIN t :
       LET pagina == PaginaDe(dir + Antes(t)[n - 1]) IN
       pagina + 1 \in DOMAIN T /\ t[n].marco = T[pagina + 1]

FielPedido(T, p, r) == r.pid = p => Fieles(T, r.dir, r.traducciones)
FielEn(T, p, h, b) == FielPedido(T, p, h) /\ \A m \in DOMAIN b : FielPedido(T, p, b[m])

\* TraduccionFiel, with the pages in the table, and the same of the request in the hand.
FielDe(p, i) == FielEn(tabla[p], p, mano[i], bloq[i])
Fiel == \A p \in Pids \ dudosos : \A i \in Interfaces : FielDe(p, i)

LEMMA FielPrimas ==
    ASSUME \A p \in Pids \ dudosos' : \A i \in Interfaces : FielEn(tabla'[p], p, mano'[i], bloq'[i])
    PROVE  Fiel'
  BY DEF Fiel, FielDe, FielEn, FielPedido, Fieles, Antes

LEMMA FielSi == ASSUME Bien, Fiel PROVE TraduccionFiel
<1> SUFFICES ASSUME NEW i \in Interfaces, NEW m \in DOMAIN bloq[i], bloq[i][m].pid \notin dudosos,
                    NEW n \in DOMAIN bloq[i][m].traducciones
             PROVE  LET r == bloq[i][m]
                        g == PaginaDe(r.dir + Antes(r.traducciones)[n - 1])
                    IN  r.traducciones[n].marco = tabla[r.pid][g + 1]
  BY DEF TraduccionFiel
<1>1. bloq[i][m].pid \in Pids \ dudosos BY DEF Bien, Dialogo, DialogoDe
<1> QED BY <1>1 DEF Fiel, FielDe, FielEn, FielPedido, Fieles

\* The page of the address where a page starts.
LEMMA PaginaEmpieza == ASSUME NEW b \in Nat PROVE PaginaDe(TamPagina * b) = b
<1> DEFINE d == TamPagina * b
           c == PaginaDe(d)
           u == d % TamPagina
<1>1. d \in Nat OBVIOUS
<1>2. TamPagina * b = TamPagina * c + u /\ u \in 0..(TamPagina - 1) BY <1>1, PorPagina
<1>3. c \in Nat BY <1>1, PaginaNatural
<1> HIDE DEF c, u
<1>4. ~(c > b)
  <2> SUFFICES ASSUME b + 1 <= c PROVE FALSE BY <1>3
  <2>1. TamPagina * (b + 1) <= TamPagina * c /\ TamPagina * (b + 1) = TamPagina * b + TamPagina
    BY <1>3
  <2> QED BY <1>2, <1>3, <2>1
<1>5. ~(c < b)
  <2> SUFFICES ASSUME c + 1 <= b PROVE FALSE BY <1>3
  <2>1. TamPagina * (c + 1) <= TamPagina * b /\ TamPagina * (c + 1) = TamPagina * c + TamPagina
    BY <1>3
  <2> QED BY <1>2, <1>3, <2>1
<1>6. c = b BY <1>3, <1>4, <1>5
<1> QED BY <1>6 DEF c, d

LEMMA TraduceFiel ==
    ASSUME TypeOK, MaxTlb = 0, NEW p \in Pids, NEW dir \in Nat, NEW tam \in Nat,
           ~PideMarcoQueNoHay(p, dir, tam)
    PROVE  Fieles(tabla[p], dir, ObtenerTraducciones(p, dir, tam))
<1> DEFINE t == ObtenerTraducciones(p, dir, tam)
           N == Piezas(dir, tam)
           a == PaginaDe(dir)
           r == dir % TamPagina
<1>1. /\ N \in Nat /\ (tam = 0 => N <= 1) /\ a \in Nat /\ PaginaDe(Final(dir, tam)) \in Nat
      /\ N = PaginaDe(Final(dir, tam)) - a + 1
  BY PiezasNatural DEF Piezas
<1>2. DOMAIN t = 1..N /\ Antes(t) = [n \in 0..N |-> Hasta(dir, tam, n)] BY AntesDeTraducciones
<1>3. dir = TamPagina * a + r /\ r \in 0..(TamPagina - 1) BY PorPagina
<1>4. \A n \in 1..N : t[n].marco = tabla[p][a + n - 1 + 1]
  BY DEF ObtenerTraducciones, Piezas, MarcoDe
<1>5. \A n \in 1..N : a + n - 1 + 1 \in DOMAIN tabla[p]
  <2> SUFFICES ASSUME NEW n \in 1..N PROVE a + n - 1 + 1 \in DOMAIN tabla[p] OBVIOUS
  <2>1. a + n - 1 \in Recorridas(dir, tam)
    <3> HIDE DEF N
    <3> QED BY <1>1 DEF Recorridas
  <2>2. a + n - 1 \in Pedidas(p, dir, tam) BY <2>1 DEF Pedidas
  <2> QED BY <2>2 DEF PideMarcoQueNoHay, EnTabla
<1>6. ASSUME NEW n \in 1..N PROVE PaginaDe(dir + Antes(t)[n - 1]) = a + n - 1
  <2> HIDE DEF t
  <2>1. n \in Nat \ {0} /\ n - 1 \in 0..N BY <1>1
  <2>2. Antes(t)[n - 1] = Hasta(dir, tam, n - 1) BY <1>2, <2>1
  <2>3. CASE n = 1
    <3>1. Hasta(dir, tam, n - 1) = 0 BY <2>3 DEF Hasta
    <3> QED BY <1>1, <2>2, <2>3, <3>1
  <2>4. CASE n # 1
    <3>1. Hasta(dir, tam, n - 1) = TamPagina * (n - 1) - r
      <4>1. n - 1 # 0 /\ n - 1 # N BY <1>1, <2>1, <2>4
      <4> QED BY <4>1 DEF Hasta
    <3> DEFINE k == n - 1
               x == TamPagina * a
               y == TamPagina * k
               z == TamPagina * (a + k)
    <3>2. k \in Nat BY <2>1
    <3>3. z = x + y /\ x \in Nat /\ y \in Nat /\ z \in Nat BY <1>1, <3>2
    <3>4. dir = x + r /\ Hasta(dir, tam, n - 1) = y - r BY <1>3, <3>1
    <3>5. PaginaDe(z) = a + k
      <4>1. a + k \in Nat BY <1>1, <3>2
      <4> QED BY <4>1, PaginaEmpieza
    <3>6. a + k = a + n - 1 BY <1>1, <2>1
    <3> HIDE DEF k, x, y, z, a, r
    <3>7. dir + Hasta(dir, tam, n - 1) = z BY <1>3, <3>3, <3>4
    <3> QED BY <2>2, <3>5, <3>6, <3>7
  <2> QED BY <2>3, <2>4
<1> HIDE DEF t, N, a, r
<1> QED BY <1>2, <1>4, <1>5, <1>6 DEF Fieles, t

\* Whose table shrinks or is given back has no request, so the pages of those that have
\* one stay where they were.
LEMMA FielMemoria ==
    ASSUME IInv, Fiel, NEW p \in Pids, Amplia(p) \/ Recorta(p) \/ Suelta(p)
    PROVE  Fiel'
<1>1. TypeOK /\ Dialogo /\ Vive /\ PedidoUnico BY DEF IInv, Bien, Propias
<1>2. bloq' = bloq /\ mano' = mano /\ dudosos \subseteq dudosos'
  BY DEF Amplia, Recorta, Suelta, kernel
<1>3. tabla \in [Pids -> Seq(Marcos)] BY <1>1 DEF TypeOK
<1> SUFFICES ASSUME NEW q \in Pids \ dudosos', NEW i \in Interfaces
             PROVE  FielEn(tabla'[q], q, mano[i], bloq[i])
  BY <1>2, FielPrimas
<1>4. FielEn(tabla[q], q, mano[i], bloq[i]) BY <1>2 DEF Fiel, FielDe
<1>5. CASE q # p
  <2>1. tabla'[q] = tabla[q]
    BY <1>3, <1>5 DEF Amplia, Recorta, Suelta, Tablas!Crece, Tablas!Achica, Tablas!Suelta
  <2> QED BY <1>4, <2>1
<1>6. CASE q = p /\ Amplia(p)
  <2>1. PICK f \in Marcos : tabla'[p] = Append(tabla[p], f)
    BY <1>3, <1>6 DEF Amplia, Tablas!Crece, Tablas!Libres
  <2>2. \A n \in DOMAIN tabla[p] : n \in DOMAIN tabla'[p] /\ tabla'[p][n] = tabla[p][n]
    BY <1>3, <2>1, Agregado
  <2>3. \A r : FielPedido(tabla[p], p, r) => FielPedido(tabla'[p], p, r)
    BY <2>2 DEF FielPedido, Fieles
  <2> QED BY <1>4, <1>6, <2>3 DEF FielEn
<1>7. CASE q = p /\ ~Amplia(p)
  <2>1. ~Pide(p)
    <3>1. CASE Recorta(p)
      <4>1. Ejecuta(p) BY <3>1 DEF Recorta
      <4> QED BY <4>1, QuienEjecuta
    <3>2. CASE Suelta(p)
      <4>1. p \notin dudosos /\ Saliendo(p) BY <1>2, <1>7, <3>2 DEF Suelta, Saliendo
      <4>2. EnSuEstado(p) BY <1>1, PartesDelPedido
      <4> QED BY <1>1, <4>1, <4>2 DEF EnSuEstado, Vive
    <3> QED BY <1>7, <3>1, <3>2
  <2>2. bloq[i] \in Seq(Pedido) BY <1>1, Partes DEF TipoColas
  <2>3. \A n \in Lugares(i) : PedidoDe(i, n).pid # p BY <2>1 DEF Pide
  <2>4. mano[i].pid # p
    <3>1. 0 \in Lugares(i) BY <2>2 DEF Lugares
    <3>2. PedidoDe(i, 0) = mano[i] BY DEF PedidoDe
    <3> QED BY <2>3, <3>1, <3>2
  <2>5. \A m \in DOMAIN bloq[i] : bloq[i][m].pid # p
    <3> SUFFICES ASSUME NEW m \in DOMAIN bloq[i] PROVE bloq[i][m].pid # p OBVIOUS
    <3>1. m \in Lugares(i) /\ m # 0 BY <2>2 DEF Lugares
    <3> QED BY <2>3, <3>1 DEF PedidoDe
  <2> QED BY <1>7, <2>4, <2>5 DEF FielEn, FielPedido
<1> QED BY <1>5, <1>6, <1>7

LEMMA FielIoStdinRead ==
    ASSUME IInv, Fiel, MaxTlb = 0, NEW p \in Pids, NEW i \in Interfaces, NEW dir \in Nat,
           NEW tam \in Nat, IoStdinRead(p, i, dir, tam), Conectada(i)
    PROVE  Fiel'
<1> DEFINE r == PedidoNuevo(p, dir, tam)
<1>1. TypeOK /\ TlbAcotada /\ Dialogo BY DEF IInv, Bien
<1>2. /\ bloq' = [bloq EXCEPT ![i] = Append(@, r)] /\ bloq'[i] = Append(bloq[i], r)
      /\ bloq[i] \in Seq(Pedido) /\ r \in Pedido
  BY <1>1, ColasDespues
<1>3. /\ tabla' = tabla /\ dudosos' = dudosos /\ mano' = mano
      /\ ~PideMarcoQueNoHay(p, dir, tam)
  BY DEF IoStdinRead, Traduce, memoria
<1>4. FielPedido(tabla[p], p, r) BY <1>1, <1>3, TraduceFiel DEF PedidoNuevo, FielPedido
<1>5. r.pid = p BY DEF PedidoNuevo
<1> HIDE DEF r
<1> SUFFICES ASSUME NEW q \in Pids \ dudosos, NEW j \in Interfaces
             PROVE  FielEn(tabla[q], q, mano[j], bloq'[j])
  BY <1>3, FielPrimas
<1>6. FielEn(tabla[q], q, mano[j], bloq[j]) BY DEF Fiel, FielDe
<1>7. FielPedido(tabla[q], q, r) BY <1>4, <1>5 DEF FielPedido
<1>8. CASE j # i
  <2>1. bloq'[j] = bloq[j] BY <1>1, <1>2, <1>8, Partes DEF TipoColas
  <2> QED BY <1>6, <2>1
<1>9. CASE j = i
  <2>1. \A m \in DOMAIN bloq'[i] : \/ m \in DOMAIN bloq[i] /\ bloq'[i][m] = bloq[i][m]
                                   \/ bloq'[i][m] = r
    BY <1>2, Agregado
  <2> QED BY <1>6, <1>7, <1>9, <2>1 DEF FielEn
<1> QED BY <1>8, <1>9

LEMMA FielPaso == ASSUME IInv, Fiel, MaxTlb = 0, [Next]_vars PROVE Fiel'
<1>a. TypeOK BY DEF IInv, Bien
<1>1. ASSUME UNCHANGED tabla, dudosos \subseteq dudosos',
             \A j \in Interfaces :
                Sabido(j, mano'[j]) /\ \A m \in DOMAIN bloq'[j] : Sabido(j, bloq'[j][m])
      PROVE  Fiel'
  <2> SUFFICES ASSUME NEW q \in Pids \ dudosos', NEW j \in Interfaces
               PROVE  FielEn(tabla[q], q, mano'[j], bloq'[j])
    BY <1>1, FielPrimas
  <2>1. FielEn(tabla[q], q, mano[j], bloq[j]) BY <1>1 DEF Fiel, FielDe
  <2>2. SinPedido.pid # q BY DEF SinPedido
  <2>3. \A r : Sabido(j, r) => FielPedido(tabla[q], q, r)
    BY <2>1, <2>2 DEF Sabido, FielEn, FielPedido
  <2> QED BY <1>1, <2>3 DEF FielEn
<1>2. CASE UNCHANGED vars BY <1>1, <1>2 DEF vars, kernel, memoria, Sabido
<1>3. ASSUME Paso
      PROVE  \/ UNCHANGED tabla /\ dudosos \subseteq dudosos'
             \/ \E p \in Pids : Amplia(p) \/ Recorta(p) \/ Suelta(p)
  BY <1>3, Matado DEF Paso, Despacha, Desaloja, Exit, Cae, Retira, MovPieza, Ordena, Mov,
     IoStdoutWrite, IoStdinRead, Atiende, KPregunta, KConoce, KMiraPlan, KToma, KRecibe,
     KRecibeNada, KDevuelve, KVacia, KLibera, DelPrograma, EnInterfaz, Escribe, Cierra, memoria
<1>4. CASE Next
  <2>1. Paso BY <1>4, Clasifica
  <2>2. CASE \E p \in Pids : \E i \in Interfaces : \E dir, tam \in Nat :
               IoStdinRead(p, i, dir, tam) /\ Conectada(i)
    BY <2>2, FielIoStdinRead
  <2>3. CASE ~\E p \in Pids : \E i \in Interfaces : \E dir, tam \in Nat :
                IoStdinRead(p, i, dir, tam) /\ Conectada(i)
    <3>1. \A j \in Interfaces :
            Sabido(j, mano'[j]) /\ \A m \in DOMAIN bloq'[j] : Sabido(j, bloq'[j][m])
      BY <1>a, <2>1, <2>3, PedidosSabidos
    <3> QED BY <1>1, <1>3, <2>1, <3>1, FielMemoria
  <2> QED BY <2>2, <2>3
<1> QED BY <1>2, <1>4

\* Without a TLB each byte that waits to be read or written is in the frame that the table
\* has for its page, until it is taken: what the comment of cpu.c 226-231 says of an access.
\* That it fails with one (run acceso_tlb) is the search by process alone (846-849).
THEOREM SinTlbEsFiel == ASSUME MaxTlb = 0 PROVE Spec => []TraduccionFiel
<1>1. Init => IInv /\ Fiel
  <2>1. Init => Fiel BY DEF Init, Fiel, FielDe, FielEn, FielPedido, SinPedido
  <2> QED BY <2>1, BienInicial, PedidoInicial, PropiasInicial DEF IInv
<1>2. IInv /\ Fiel /\ [Next]_vars => (IInv /\ Fiel)'
  BY BienPaso, PedidoPaso, PropiasPaso, FielPaso DEF IInv
<1>3. IInv /\ Fiel => TraduccionFiel BY FielSi DEF IInv
<1> QED BY <1>1, <1>2, <1>3, PTL DEF Spec
=============================================================================
