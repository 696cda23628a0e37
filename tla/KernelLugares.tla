---------------------------- MODULE KernelLugares ----------------------------
(***************************************************************************)
(* Where the processes of the kernel are. A process is a PID and its PCB   *)
(* an object that changes (EnviarPCB), so what is followed through the     *)
(* queues, the hands of the threads and the dispatch socket is how many    *)
(* times each PID is found in each place. Every step of the kernel either  *)
(* leaves those numbers alone or takes one PID from one place to another;  *)
(* that no process is twice anywhere, that none is lost, and that the      *)
(* slots add up, follow from it.                                           *)
(***************************************************************************)
EXTENDS KernelPruebas, FiniteSetTheorems

-----------------------------------------------------------------------------
(* How many elements of a sequence of objects have a PID.                  *)

Cuantos(P, p, s) == Cardinality({n \in DOMAIN s : P[s[n]] = p})

LEMMA DominioFinito == ASSUME NEW S, NEW s \in Seq(S) PROVE IsFiniteSet(DOMAIN s)
<1>1. DOMAIN s = 1..Len(s) /\ Len(s) \in Int OBVIOUS
<1>2. IsFiniteSet(1..Len(s)) BY <1>1, FS_Interval
<1> QED BY <1>1, <1>2

LEMMA CuantosNatural ==
    ASSUME NEW S, NEW s \in Seq(S), NEW P, NEW p
    PROVE  /\ Cuantos(P, p, s) \in Nat
           /\ Cuantos(P, p, s) = 0 <=> \A n \in DOMAIN s : P[s[n]] # p
<1> DEFINE D == {n \in DOMAIN s : P[s[n]] = p}
<1>1. IsFiniteSet(DOMAIN s) BY DominioFinito
<1>2. IsFiniteSet(D) BY <1>1, FS_Subset
<1>3. Cardinality(D) \in Nat BY <1>2, FS_CardinalityType
<1>4. Cardinality(D) = 0 <=> D = {} BY <1>2, FS_EmptySet
<1> QED BY <1>3, <1>4 DEF Cuantos

LEMMA CuantosNada == ASSUME NEW P, NEW p PROVE Cuantos(P, p, <<>>) = 0
<1>1. {n \in DOMAIN <<>> : P[<<>>[n]] = p} = {} OBVIOUS
<1> QED BY <1>1, FS_EmptySet DEF Cuantos

LEMMA CuantosUno ==
    ASSUME NEW P, NEW p, NEW o PROVE Cuantos(P, p, <<o>>) = Contar(P[o] = p)
<1>1. CASE P[o] = p
  <2>1. {n \in DOMAIN <<o>> : P[<<o>>[n]] = p} = {1} BY <1>1
  <2> QED BY <1>1, <2>1, FS_Singleton DEF Cuantos, Contar
<1>2. CASE P[o] # p
  <2>1. {n \in DOMAIN <<o>> : P[<<o>>[n]] = p} = {} BY <1>2
  <2> QED BY <1>2, <2>1, FS_EmptySet DEF Cuantos, Contar
<1> QED BY <1>1, <1>2

\* What is put at the end counts once more.
LEMMA CuantosAgrega ==
    ASSUME NEW S, NEW s \in Seq(S), NEW o \in S, NEW P, NEW p
    PROVE  Cuantos(P, p, Append(s, o)) = Cuantos(P, p, s) + Contar(P[o] = p)
<1> DEFINE D == {n \in DOMAIN s : P[s[n]] = p}
           m == Len(s) + 1
           E == {n \in DOMAIN Append(s, o) : P[Append(s, o)[n]] = p}
<1>1. Len(s) \in Nat /\ DOMAIN s = 1..Len(s) OBVIOUS
<1>2. IsFiniteSet(D) /\ m \notin D
  <2>1. IsFiniteSet(DOMAIN s) BY DominioFinito
  <2> QED BY <1>1, <2>1, FS_Subset
<1>3. /\ DOMAIN Append(s, o) = 1..m /\ Append(s, o)[m] = o
      /\ \A n \in DOMAIN s : Append(s, o)[n] = s[n]
  BY <1>1
<1>4. CASE P[o] = p
  <2>1. E = D \cup {m} BY <1>1, <1>3, <1>4
  <2>2. Cardinality(D \cup {m}) = Cardinality(D) + 1 BY <1>2, FS_AddElement
  <2> QED BY <1>4, <2>1, <2>2 DEF Cuantos, Contar
<1>5. CASE P[o] # p
  <2>1. E = D BY <1>1, <1>3, <1>5
  <2>2. Cardinality(D) \in Nat BY <1>2, FS_CardinalityType
  <2>3. Cuantos(P, p, Append(s, o)) = Cuantos(P, p, s) /\ Cuantos(P, p, s) \in Nat
    BY <2>1, <2>2 DEF Cuantos
  <2> QED BY <1>5, <2>3 DEF Contar
<1> QED BY <1>4, <1>5

\* The elements of a concatenation are those of both.
LEMMA CuantosJunta ==
    ASSUME NEW S, NEW s \in Seq(S), NEW t \in Seq(S), NEW P, NEW p
    PROVE  Cuantos(P, p, s \o t) = Cuantos(P, p, s) + Cuantos(P, p, t)
<1> DEFINE l == Len(s)
           D == {n \in DOMAIN s : P[s[n]] = p}
           F == {n \in DOMAIN t : P[t[n]] = p}
           G == {n \in DOMAIN (s \o t) : P[(s \o t)[n]] = p}
           H == {n \in (l + 1)..(l + Len(t)) : P[t[n - l]] = p}
           f == [n \in F |-> n + l]
<1>1. /\ l \in Nat /\ Len(t) \in Nat /\ DOMAIN s = 1..l /\ DOMAIN t = 1..Len(t)
      /\ DOMAIN (s \o t) = 1..(l + Len(t))
      /\ \A n \in 1..(l + Len(t)) : (s \o t)[n] = IF n <= l THEN s[n] ELSE t[n - l]
  OBVIOUS
<1>2. IsFiniteSet(D) /\ IsFiniteSet(F)
  <2>1. IsFiniteSet(DOMAIN s) BY DominioFinito
  <2>2. IsFiniteSet(DOMAIN t) BY DominioFinito
  <2> QED BY <2>1, <2>2, FS_Subset
<1>3. IsFiniteSet(H)
  <2>1. l + 1 \in Int /\ l + Len(t) \in Int BY <1>1
  <2>2. IsFiniteSet((l + 1)..(l + Len(t))) BY <2>1, FS_Interval
  <2> QED BY <2>2, FS_Subset
<1>4. G = D \cup H /\ D \cap H = {} BY <1>1
<1>5. f \in Bijection(F, H)
  <2>1. f \in [F -> H] BY <1>1
  <2>2. \A a, b \in F : f[a] = f[b] => a = b BY <1>1
  <2>3. \A b \in H : \E a \in F : f[a] = b
    <3> SUFFICES ASSUME NEW b \in H PROVE \E a \in F : f[a] = b OBVIOUS
    <3>1. b - l \in F /\ (b - l) + l = b BY <1>1
    <3> QED BY <3>1
  <2> QED BY <2>1, <2>2, <2>3 DEF Bijection, Injection, Surjection, IsInjective
<1>6. Cardinality(H) = Cardinality(F) BY <1>2, <1>5, FS_Bijection DEF ExistsBijection
<1>7. Cardinality(D \cup H) = Cardinality(D) + Cardinality(H)
  <2>1. Cardinality(D \cup H) = Cardinality(D) + Cardinality(H) - Cardinality(D \cap H)
    BY <1>2, <1>3, FS_Union
  <2>2. Cardinality(D) \in Nat /\ Cardinality(H) \in Nat BY <1>2, <1>3, FS_CardinalityType
  <2>3. Cardinality(D \cap H) = 0 BY <1>4, FS_EmptySet
  <2> QED BY <2>1, <2>2, <2>3
<1> QED BY <1>4, <1>6, <1>7 DEF Cuantos

\* What is taken from the front counts once less.
LEMMA CuantosSaca ==
    ASSUME NEW S, NEW s \in Seq(S), s # <<>>, NEW P, NEW p
    PROVE  Cuantos(P, p, s) = Contar(P[Head(s)] = p) + Cuantos(P, p, Tail(s))
<1>1. s = <<Head(s)>> \o Tail(s) /\ Head(s) \in S /\ Tail(s) \in Seq(S) OBVIOUS
<1>2. <<Head(s)>> \in Seq(S) BY <1>1
<1>3. Cuantos(P, p, <<Head(s)>> \o Tail(s)) = Cuantos(P, p, <<Head(s)>>) + Cuantos(P, p, Tail(s))
  BY <1>1, <1>2, CuantosJunta
<1>4. Cuantos(P, p, <<Head(s)>>) = Contar(P[Head(s)] = p) BY CuantosUno
<1> QED BY <1>1, <1>3, <1>4

\* A PCB allocated where there was none is in no sequence of PCBs that have a PID.
LEMMA CuantosEscribe ==
    ASSUME NEW S, NEW s \in Seq(S), NEW P, NEW Q, NEW l, NEW p, NEW v,
           P[l] = v, Cuantos(P, v, s) = 0, \A o \in S \ {l} : Q[o] = P[o]
    PROVE  Cuantos(Q, p, s) = Cuantos(P, p, s)
<1>1. \A n \in DOMAIN s : s[n] \in S /\ P[s[n]] # v BY CuantosNatural
<1>2. \A n \in DOMAIN s : Q[s[n]] = P[s[n]] BY <1>1
<1>3. {n \in DOMAIN s : Q[s[n]] = p} = {n \in DOMAIN s : P[s[n]] = p} BY <1>2
<1> QED BY <1>3 DEF Cuantos

\* The PCBs of a sequence of answers of the CPU or of requests to an interface.
Quienes(s) == [n \in DOMAIN s |-> s[n].o]

LEMMA QuienesTipo ==
    ASSUME NEW S, NEW s \in Seq(S), \A e \in S : e.o \in Objs
    PROVE  Quienes(s) \in Seq(Objs) /\ Len(Quienes(s)) = Len(s)
<1>1. DOMAIN s = 1..Len(s) /\ Len(s) \in Nat /\ \A n \in 1..Len(s) : s[n] \in S OBVIOUS
<1>2. Quienes(s) \in [1..Len(s) -> Objs] BY <1>1 DEF Quienes
<1> QED BY <1>1, <1>2

LEMMA QuienesAgrega ==
    ASSUME NEW S, NEW s \in Seq(S), NEW e \in S, \A d \in S : d.o \in Objs
    PROVE  Quienes(Append(s, e)) = Append(Quienes(s), e.o)
<1> DEFINE t == Append(Quienes(s), e.o)
<1>1. Quienes(s) \in Seq(Objs) /\ Len(Quienes(s)) = Len(s) BY QuienesTipo
<1>2. DOMAIN t = 1..(Len(s) + 1) /\ t = [n \in DOMAIN t |-> t[n]] BY <1>1
<1>3. DOMAIN Append(s, e) = 1..(Len(s) + 1) /\ Len(s) \in Nat OBVIOUS
<1>4. \A n \in 1..(Len(s) + 1) : Append(s, e)[n].o = t[n] BY <1>1 DEF Quienes
<1>5. [n \in 1..(Len(s) + 1) |-> Append(s, e)[n].o] = [n \in 1..(Len(s) + 1) |-> t[n]] BY <1>4
<1> QED BY <1>2, <1>3, <1>5 DEF Quienes

LEMMA QuienesSaca ==
    ASSUME NEW S, NEW s \in Seq(S), s # <<>>, \A e \in S : e.o \in Objs
    PROVE  /\ Quienes(s) # <<>> /\ Head(Quienes(s)) = Head(s).o
           /\ Quienes(Tail(s)) = Tail(Quienes(s))
<1> DEFINE m == Len(s) - 1
           t == Tail(Quienes(s))
<1>1. Quienes(s) \in Seq(Objs) /\ Len(Quienes(s)) = Len(s) BY QuienesTipo
<1>2. DOMAIN s = 1..Len(s) /\ Len(s) \in Nat \ {0} OBVIOUS
<1>3. Quienes(s) # <<>> /\ Head(Quienes(s)) = Head(s).o BY <1>1, <1>2 DEF Quienes
<1>4. DOMAIN Tail(s) = 1..m /\ \A n \in 1..m : Tail(s)[n] = s[n + 1] BY <1>2
<1>5. DOMAIN t = 1..m /\ t = [n \in DOMAIN t |-> t[n]]
  <2>1. t \in Seq(Objs) /\ Len(t) = m BY <1>1, <1>3
  <2> HIDE DEF t
  <2> QED BY <2>1
<1>6. \A n \in 1..m : t[n] = s[n + 1].o BY <1>1, <1>2, <1>3 DEF Quienes
<1>7. [n \in 1..m |-> Tail(s)[n].o] = [n \in 1..m |-> t[n]] BY <1>4, <1>6
<1> QED BY <1>3, <1>4, <1>5, <1>7 DEF Quienes

-----------------------------------------------------------------------------
(* The places and how many times a PID is in each.                         *)

PidDe == [o \in Objs |-> pcb[o].pid]
DeLaCpu == Quienes(de_cpu)
BloqDe(i) == Quienes(bloq[i])
Marcando == IF pc["despachador"] = "marca_exec" THEN EnMano("despachador") ELSE <<>>
Enviando == IF pc["despachador"] \in {"a_exec", "envia"} THEN EnMano("despachador") ELSE <<>>

V(p, s) == Cuantos(PidDe, p, s)

\* A place of the kernel, named after the phase of a process that is in it, with the
\* queue of the resource for BLOCKED, or the list and the request in hand of an interface.
Zonas == {"NEW", "READY", "EXEC", "BLOCKED", "EXIT", "LIBERANDO", "FIN"}
EnZona(z, p) ==
    CASE z = "NEW" -> V(p, EnMano("consola")) + V(p, cola["new"]) + V(p, EnMano("largo"))
      [] z = "READY" -> V(p, cola["ready"]) + V(p, cola["ready_aux"]) + V(p, Marcando)
      [] z = "EXEC" -> V(p, Enviando) + V(p, a_cpu) + V(p, DeLaCpu) + V(p, EnMano("vuelta"))
      [] z = "BLOCKED" -> V(p, cola["recurso"]) + V(p, Uno(segundo["salida"]))
                            + V(p, Uno(segundo["vuelta"]))
      [] z = "EXIT" -> V(p, cola["exit"])
      [] z = "LIBERANDO" -> V(p, EnMano("salida"))
      [] OTHER -> V(p, cola["liberados"])
EnIO(i, p) == V(p, BloqDe(i)) + V(p, Uno(mano_io[i].o))

Zona(z) == <<"zona", z>>
DeIO(i) == <<"io", i>>
Sitios == {Zona(z) : z \in Zonas} \cup {DeIO(i) : i \in Interfaces}
En(s, p) == IF s[1] = "io" THEN EnIO(s[2], p) ELSE EnZona(s[2], p)
FaseDelSitio(s) == IF s[1] = "io" THEN "BLOCKED" ELSE s[2]

\* The PIDs and 0, which a PCB that was not allocated yet has.
Numeros == 0..(MaxProc + 1)

EstaSolo(s, p) == En(s, p) = 1 /\ \A t \in Sitios \ {s} : En(t, p) = 0
NoEsta(p) == \A s \in Sitios : En(s, p) = 0

\* No PID is in two places or twice in one; none is anywhere before it is created.
Repartidos ==
    /\ \A p \in Numeros : NoEsta(p) \/ \E s \in Sitios : EstaSolo(s, p)
    /\ \A p \in Numeros \ 2..generador_pid : NoEsta(p)
Presentes == \A p \in 2..generador_pid : \E s \in Sitios : EstaSolo(s, p)

\* The threads let go of what they put somewhere: an idle hand is empty.
Ociosos ==
    /\ pc["consola"] \in {"lee", "sube", "baja", "busca", "quita"} => mano["consola"] = Nulo
    /\ pc["largo"] \in {"sin_crear", "espera_new"} => mano["largo"] = Nulo
    /\ pc["salida"] \in {"sin_crear", "tope", "espera_exit"} => mano["salida"] = Nulo
    /\ pc["salida"] # "desbloquea" => segundo["salida"] = Nulo
    /\ ~VueltaTiene => mano["vuelta"] = Nulo
    /\ pc["vuelta"] # "desbloquea" => segundo["vuelta"] = Nulo
    /\ \A i \in Interfaces : pc_io[i] \notin {"envia", "recibe", "vuelve", "finaliza", "desconecta"}
                               => mano_io[i] = SinBloque

SinAsignar == \A o \in Objs : o >= libre => pcb[o].pid = 0

\* While the operator kills no process, the console never removes one from a list.
NadieMata == pc["consola"] \notin {"busca", "quita", "decide", "a_exit"}

-----------------------------------------------------------------------------
(* What a step does to the places.                                         *)

\* The queues that are emptied by who pushes to them (cola_exec and cola_block are not).
ColasVivas == Colas \ {"exec", "block"}

\* The sequences of PCB objects that the places are made of.
Puestos == {EnMano("consola"), EnMano("largo"), EnMano("salida"), EnMano("vuelta"), Marcando,
            Enviando, a_cpu, DeLaCpu, Uno(segundo["salida"]), Uno(segundo["vuelta"])}
             \cup {cola[q] : q \in ColasVivas}
             \cup {BloqDe(i) : i \in Interfaces} \cup {Uno(mano_io[i].o) : i \in Interfaces}

\* No PID is counted otherwise in a sequence that does not change.
Conserva == \A s \in Puestos : \A p \in Numeros : Cuantos(PidDe', p, s) = V(p, s)

Igual(z) == \A p \in Numeros : EnZona(z, p)' = EnZona(z, p)
Gana(z, x) == \A p \in Numeros : EnZona(z, p)' = EnZona(z, p) + Contar(p = x)
Cede(z, x) == \A p \in Numeros : EnZona(z, p)' = EnZona(z, p) - Contar(p = x)
IgualIO(i) == \A p \in Numeros : EnIO(i, p)' = EnIO(i, p)
Ajenas(Z, I) == (\A z \in Zonas \ Z : Igual(z)) /\ (\A i \in Interfaces \ I : IgualIO(i))

SoloHilo(h) == \A g \in Hilos \ {h} : pc'[g] = pc[g] /\ mano'[g] = mano[g]
OtrasColas(Q) == \A q \in Colas \ Q : cola'[q] = cola[q]

LEMMA UnoTipo == ASSUME NEW o \in Punteros PROVE Uno(o) \in Seq(Objs)
  BY DEF Uno, Punteros

LEMMA PuestosTipo == ASSUME Tipado PROVE Puestos \subseteq Seq(Objs)
<1>a. TypeHilos /\ TypeColas /\ TypeCPU /\ TypeIO BY DEF Tipado, TypeOK
<1>1. \A h \in Hilos : EnMano(h) \in Seq(Objs) BY <1>a, UnoTipo DEF EnMano, Uno, TypeHilos
<1>2. Marcando \in Seq(Objs) /\ Enviando \in Seq(Objs)
  BY <1>1 DEF Marcando, Enviando, Hilos
<1>3. a_cpu \in Seq(Objs) /\ DeLaCpu \in Seq(Objs)
  <2> DEFINE R == [o: Objs, r: Retorno]
  <2>1. de_cpu \in Seq(R) /\ a_cpu \in Seq(Objs) BY <1>a DEF TypeCPU
  <2>2. \A e \in R : e.o \in Objs OBVIOUS
  <2> HIDE DEF R
  <2> QED BY <2>1, <2>2, QuienesTipo DEF DeLaCpu
<1>4. \A h \in {"salida", "vuelta"} : Uno(segundo[h]) \in Seq(Objs)
  BY <1>a, UnoTipo DEF TypeHilos
<1>5. \A q \in ColasVivas : cola[q] \in Seq(Objs) BY <1>a DEF TypeColas, ColasVivas
<1>6. \A i \in Interfaces : BloqDe(i) \in Seq(Objs)
  <2>1. \A i \in Interfaces : bloq[i] \in Seq(Bloque) BY <1>a DEF TypeIO
  <2>2. \A e \in Bloque : e.o \in Objs BY DEF Bloque
  <2> QED BY <2>1, <2>2, QuienesTipo DEF BloqDe
<1>7. \A i \in Interfaces : Uno(mano_io[i].o) \in Seq(Objs)
  <2> SUFFICES ASSUME NEW i \in Interfaces PROVE mano_io[i].o \in Punteros BY UnoTipo
  <2> QED BY <1>a DEF TypeIO, Bloque, SinBloque, Punteros
<1> QED BY <1>1, <1>2, <1>3, <1>4, <1>5, <1>6, <1>7 DEF Puestos, Hilos

LEMMA SitiosSon ==
    ASSUME NEW p
    PROVE  /\ \A z \in Zonas : Zona(z) \in Sitios /\ En(Zona(z), p) = EnZona(z, p)
           /\ \A i \in Interfaces : DeIO(i) \in Sitios /\ En(DeIO(i), p) = EnIO(i, p)
<1>1. \A z \in Zonas : Zona(z)[1] = "zona" /\ Zona(z)[2] = z BY DEF Zona
<1>2. \A i \in Interfaces : DeIO(i)[1] = "io" /\ DeIO(i)[2] = i BY DEF DeIO
<1> QED BY <1>1, <1>2 DEF Sitios, En

\* Changing the state of a PCB does not change whose it is.
LEMMA MismosPid ==
    ASSUME TypeProcesos, NEW o
    PROVE  \A e : CambiarEstado(o, e) => UNCHANGED PidDe
  BY DEF TypeProcesos, PCB, CambiarEstado, PidDe

\* The PCB that comes back is of the process that was sent.
LEMMA PidDeEnviado ==
    ASSUME Tipado, NEW o \in Objs, EnviarPCB(o)
    PROVE  PidDe'[libre] = PidDe[o] /\ \A a \in Objs \ {libre} : PidDe'[a] = PidDe[a]
<1>1. pcb' = [pcb EXCEPT ![libre] = pcb[o]] /\ libre \in Objs BY DEF EnviarPCB
<1>2. pcb \in [Objs -> PCB] BY DEF Tipado, TypeOK, TypeProcesos
<1>3. pcb'[libre] = pcb[o] /\ \A a \in Objs \ {libre} : pcb'[a] = pcb[a] BY <1>1, <1>2
<1> QED BY <1>1, <1>3 DEF PidDe

\* Each place counts a natural number of times.
LEMMA CuentasNaturales ==
    ASSUME Tipado, NEW p
    PROVE  /\ \A s \in Puestos : V(p, s) \in Nat
           /\ \A z \in Zonas : EnZona(z, p) \in Nat
           /\ \A i \in Interfaces : EnIO(i, p) \in Nat
           /\ \A s \in Sitios : En(s, p) \in Nat
<1>1. \A s \in Puestos : V(p, s) \in Nat BY PuestosTipo, CuantosNatural DEF V
<1>2. EnZona("NEW", p) \in Nat /\ EnZona("READY", p) \in Nat
  BY <1>1 DEF EnZona, Puestos, ColasVivas, Colas
<1>3. EnZona("EXEC", p) \in Nat BY <1>1 DEF EnZona, Puestos
<1>4. EnZona("BLOCKED", p) \in Nat BY <1>1 DEF EnZona, Puestos, ColasVivas, Colas
<1>5. EnZona("EXIT", p) \in Nat /\ EnZona("LIBERANDO", p) \in Nat /\ EnZona("FIN", p) \in Nat
  BY <1>1 DEF EnZona, Puestos, ColasVivas, Colas
<1>6. \A i \in Interfaces : EnIO(i, p) \in Nat BY <1>1 DEF EnIO, Puestos
<1>7. \A z \in Zonas : EnZona(z, p) \in Nat BY <1>2, <1>3, <1>4, <1>5 DEF Zonas
<1> QED BY <1>1, <1>6, <1>7, SitiosSon DEF Sitios

\* Where a place counts none, no sequence of it does.
LEMMA VaciosSi ==
    ASSUME Tipado, NEW p, NoEsta(p) PROVE \A s \in Puestos : V(p, s) = 0
<1>1. \A s \in Puestos : V(p, s) \in Nat BY CuentasNaturales
<1>2. /\ \A z \in Zonas : EnZona(z, p) = 0
      /\ \A i \in Interfaces : EnIO(i, p) = 0
  BY SitiosSon DEF NoEsta
<1>3. V(p, EnMano("consola")) = 0 /\ V(p, cola["new"]) = 0 /\ V(p, EnMano("largo")) = 0
  <2>1. EnZona("NEW", p) = 0 BY <1>2 DEF Zonas
  <2> QED BY <1>1, <2>1 DEF Puestos, ColasVivas, Colas, EnZona
<1>4. V(p, cola["ready"]) = 0 /\ V(p, cola["ready_aux"]) = 0 /\ V(p, Marcando) = 0
  <2>1. EnZona("READY", p) = 0 BY <1>2 DEF Zonas
  <2> QED BY <1>1, <2>1 DEF Puestos, ColasVivas, Colas, EnZona
<1>5. V(p, Enviando) = 0 /\ V(p, a_cpu) = 0 /\ V(p, DeLaCpu) = 0 /\ V(p, EnMano("vuelta")) = 0
  <2>1. EnZona("EXEC", p) = 0 BY <1>2 DEF Zonas
  <2> QED BY <1>1, <2>1 DEF Puestos, EnZona
<1>6. /\ V(p, cola["recurso"]) = 0 /\ V(p, Uno(segundo["salida"])) = 0
      /\ V(p, Uno(segundo["vuelta"])) = 0
  <2>1. EnZona("BLOCKED", p) = 0 BY <1>2 DEF Zonas
  <2> QED BY <1>1, <2>1 DEF Puestos, ColasVivas, Colas, EnZona
<1>7. V(p, cola["exit"]) = 0 /\ V(p, EnMano("salida")) = 0 /\ V(p, cola["liberados"]) = 0
  <2>1. EnZona("EXIT", p) = 0 /\ EnZona("LIBERANDO", p) = 0 /\ EnZona("FIN", p) = 0
    BY <1>2 DEF Zonas
  <2> QED BY <2>1 DEF EnZona
<1>8. \A i \in Interfaces : V(p, BloqDe(i)) = 0 /\ V(p, Uno(mano_io[i].o)) = 0
  <2> SUFFICES ASSUME NEW i \in Interfaces
               PROVE  V(p, BloqDe(i)) = 0 /\ V(p, Uno(mano_io[i].o)) = 0
    OBVIOUS
  <2>1. EnIO(i, p) = 0 BY <1>2
  <2>2. BloqDe(i) \in Puestos /\ Uno(mano_io[i].o) \in Puestos BY DEF Puestos
  <2> QED BY <1>1, <2>1, <2>2 DEF EnIO
<1> QED BY <1>3, <1>4, <1>5, <1>6, <1>7, <1>8 DEF Puestos, ColasVivas, Colas

\* Without a new PCB the PIDs stay; a new one is written where no sequence points to.
LEMMA ConservaSi ==
    ASSUME Tipado, UNCHANGED PidDe \/ (/\ NoEsta(0) /\ SinAsignar /\ libre \in Objs
                                       /\ \A o \in Objs \ {libre} : PidDe'[o] = PidDe[o])
    PROVE  Conserva
<1>1. CASE UNCHANGED PidDe BY <1>1 DEF Conserva, V
<1>2. CASE /\ NoEsta(0) /\ SinAsignar /\ libre \in Objs
           /\ \A o \in Objs \ {libre} : PidDe'[o] = PidDe[o]
  <2>1. PidDe[libre] = 0 BY <1>2 DEF SinAsignar, PidDe, Objs
  <2>2. ASSUME NEW s \in Seq(Objs), V(0, s) = 0, NEW p PROVE Cuantos(PidDe', p, s) = V(p, s)
    BY <1>2, <2>1, <2>2, CuantosEscribe DEF V
  <2>3. \A s \in Puestos : s \in Seq(Objs) /\ V(0, s) = 0 BY <1>2, PuestosTipo, VaciosSi
  <2> QED BY <2>2, <2>3 DEF Conserva
<1> QED BY <1>1, <1>2

\* A step leaves alone the places of the threads and the queues it does not touch.
LEMMA Deja ==
    ASSUME Tipado, Conserva, NEW h \in Hilos, SoloHilo(h), NEW Q, OtrasColas(Q)
    PROVE  /\ \A g \in Hilos \ {h} : UNCHANGED EnMano(g)
           /\ h \notin {"consola", "largo"} /\ "new" \notin Q => Igual("NEW")
           /\ h # "despachador" /\ "ready" \notin Q /\ "ready_aux" \notin Q => Igual("READY")
           /\ h \notin {"despachador", "vuelta"} /\ UNCHANGED <<a_cpu, de_cpu>> => Igual("EXEC")
           /\ "recurso" \notin Q /\ UNCHANGED segundo => Igual("BLOCKED")
           /\ "exit" \notin Q => Igual("EXIT")
           /\ h # "salida" => Igual("LIBERANDO")
           /\ "liberados" \notin Q => Igual("FIN")
           /\ \A i \in Interfaces : bloq'[i] = bloq[i] /\ mano_io'[i] = mano_io[i] => IgualIO(i)
<1>1. \A g \in Hilos \ {h} : UNCHANGED EnMano(g) BY DEF SoloHilo, EnMano, YaEncolado
<1>2. \A q \in ColasVivas \ Q : UNCHANGED cola[q] BY DEF OtrasColas, ColasVivas
<1>3. h # "despachador" => UNCHANGED <<Marcando, Enviando>>
  BY <1>1 DEF SoloHilo, Marcando, Enviando, Hilos
<1>4. \A s \in Puestos : \A p \in Numeros : Cuantos(PidDe', p, s) = Cuantos(PidDe, p, s)
  BY DEF Conserva, V
<1>5. h \notin {"consola", "largo"} /\ "new" \notin Q => Igual("NEW")
  BY <1>1, <1>2, <1>4 DEF Igual, EnZona, V, Puestos, ColasVivas, Colas, Hilos
<1>6. h # "despachador" /\ "ready" \notin Q /\ "ready_aux" \notin Q => Igual("READY")
  BY <1>2, <1>3, <1>4 DEF Igual, EnZona, V, Puestos, ColasVivas, Colas, Hilos
<1>7. h \notin {"despachador", "vuelta"} /\ UNCHANGED <<a_cpu, de_cpu>> => Igual("EXEC")
  BY <1>1, <1>3, <1>4 DEF Igual, EnZona, V, Puestos, DeLaCpu, Hilos
<1>8. "recurso" \notin Q /\ UNCHANGED segundo => Igual("BLOCKED")
  <2> SUFFICES ASSUME "recurso" \notin Q, UNCHANGED segundo PROVE Igual("BLOCKED") OBVIOUS
  <2>1. UNCHANGED <<cola["recurso"], Uno(segundo["salida"]), Uno(segundo["vuelta"])>>
    BY <1>2 DEF ColasVivas, Colas, Uno
  <2> QED BY <2>1, <1>4 DEF Igual, EnZona, V, Puestos, ColasVivas, Colas
<1>9. "exit" \notin Q => Igual("EXIT")
  BY <1>2, <1>4 DEF Igual, EnZona, V, Puestos, ColasVivas, Colas
<1>10. h # "salida" => Igual("LIBERANDO")
  BY <1>1, <1>4 DEF Igual, EnZona, V, Puestos, Hilos
<1>11. "liberados" \notin Q => Igual("FIN")
  BY <1>2, <1>4 DEF Igual, EnZona, V, Puestos, ColasVivas, Colas
<1>12. \A i \in Interfaces : bloq'[i] = bloq[i] /\ mano_io'[i] = mano_io[i] => IgualIO(i)
  <2> SUFFICES ASSUME NEW i \in Interfaces, bloq'[i] = bloq[i], mano_io'[i] = mano_io[i]
               PROVE  IgualIO(i)
    OBVIOUS
  <2>1. UNCHANGED <<BloqDe(i), Uno(mano_io[i].o)>> BY DEF BloqDe, Uno
  <2>2. BloqDe(i) \in Puestos /\ Uno(mano_io[i].o) \in Puestos BY DEF Puestos
  <2> QED BY <2>1, <2>2, <1>4 DEF IgualIO, EnIO, V
<1> QED BY <1>1, <1>5, <1>6, <1>7, <1>8, <1>9, <1>10, <1>11, <1>12

\* What a step does to a PID: nothing, take it from one place to another, or lose it.
Reposa == \A s \in Sitios : \A p \in Numeros : En(s, p)' = En(s, p)
Pasa(a, b, x) ==
    \A p \in Numeros : /\ En(a, p)' = En(a, p) - Contar(p = x)
                       /\ En(b, p)' = En(b, p) + Contar(p = x)
                       /\ \A s \in Sitios \ {a, b} : En(s, p)' = En(s, p)
Nace(a, x) ==
    \A p \in Numeros : /\ En(a, p)' = En(a, p) + Contar(p = x)
                       /\ \A s \in Sitios \ {a} : En(s, p)' = En(s, p)
Pierde == \A s \in Sitios : \A p \in Numeros : En(s, p)' <= En(s, p)

\* The same said of the zones and the interfaces.
LEMMA SitiosLuego ==
    ASSUME NEW p
    PROVE  /\ \A z \in Zonas : En(Zona(z), p)' = EnZona(z, p)'
           /\ \A i \in Interfaces : En(DeIO(i), p)' = EnIO(i, p)'
<1>1. \A z \in Zonas : Zona(z)[1] = "zona" /\ Zona(z)[2] = z BY DEF Zona
<1>2. \A i \in Interfaces : DeIO(i)[1] = "io" /\ DeIO(i)[2] = i BY DEF DeIO
<1> QED BY <1>1, <1>2 DEF En

LEMMA SitiosDistintos ==
    /\ \A a, b \in Zonas : a # b => Zona(a) # Zona(b)
    /\ \A i, j \in Interfaces : i # j => DeIO(i) # DeIO(j)
    /\ \A a \in Zonas, i \in Interfaces : Zona(a) # DeIO(i)
<1>1. \A z \in Zonas : Zona(z)[1] = "zona" /\ Zona(z)[2] = z BY DEF Zona
<1>2. \A i \in Interfaces : DeIO(i)[1] = "io" /\ DeIO(i)[2] = i BY DEF DeIO
<1> QED BY <1>1, <1>2

LEMMA PorZonas ==
    /\ Ajenas({}, {}) => Reposa
    /\ \A a, b \in Zonas : \A x : a # b /\ Cede(a, x) /\ Gana(b, x) /\ Ajenas({a, b}, {})
                                => Pasa(Zona(a), Zona(b), x)
    /\ \A b \in Zonas : \A x : Gana(b, x) /\ Ajenas({b}, {}) => Nace(Zona(b), x)
<1>1. ASSUME NEW p
      PROVE  /\ \A z \in Zonas : En(Zona(z), p)' = EnZona(z, p)' /\ En(Zona(z), p) = EnZona(z, p)
             /\ \A i \in Interfaces : En(DeIO(i), p)' = EnIO(i, p)' /\ En(DeIO(i), p) = EnIO(i, p)
  BY SitiosSon, SitiosLuego
<1>2. Ajenas({}, {}) => Reposa BY <1>1 DEF Ajenas, Reposa, Igual, IgualIO, Sitios
<1>3. ASSUME NEW a \in Zonas, NEW b \in Zonas, NEW x, Cede(a, x), Gana(b, x), Ajenas({a, b}, {})
      PROVE  Pasa(Zona(a), Zona(b), x)
  BY <1>1, <1>3 DEF Ajenas, Pasa, Cede, Gana, Igual, IgualIO, Sitios
<1>4. ASSUME NEW b \in Zonas, NEW x, Gana(b, x), Ajenas({b}, {}) PROVE Nace(Zona(b), x)
  BY <1>1, <1>4 DEF Ajenas, Nace, Gana, Igual, IgualIO, Sitios
<1> QED BY <1>2, <1>3, <1>4

LEMMA PorInterfaces ==
    ASSUME NEW z \in Zonas, NEW i \in Interfaces, NEW x, Ajenas({z}, {i})
    PROVE  /\ Cede(z, x) /\ (\A p \in Numeros : EnIO(i, p)' = EnIO(i, p) + Contar(p = x))
                => Pasa(Zona(z), DeIO(i), x)
           /\ Gana(z, x) /\ (\A p \in Numeros : EnIO(i, p)' = EnIO(i, p) - Contar(p = x))
                => Pasa(DeIO(i), Zona(z), x)
<1>1. ASSUME NEW p
      PROVE  /\ \A y \in Zonas : En(Zona(y), p)' = EnZona(y, p)' /\ En(Zona(y), p) = EnZona(y, p)
             /\ \A j \in Interfaces : En(DeIO(j), p)' = EnIO(j, p)' /\ En(DeIO(j), p) = EnIO(j, p)
  BY SitiosSon, SitiosLuego
<1>2. \A s \in Sitios \ {Zona(z), DeIO(i)} : \A p \in Numeros : En(s, p)' = En(s, p)
  BY <1>1 DEF Ajenas, Igual, IgualIO, Sitios
<1> QED BY <1>1, <1>2 DEF Pasa, Cede, Gana

-----------------------------------------------------------------------------
(* What each thread does to the places.                                    *)

USE DEF hilos, plan, procesos, cpu, quantum, memoria, recursos, io, consola

MismosCupos == UNCHANGED <<generador_pid, sem["multiprogramacion"], grado>>
Queda == MismosCupos /\ Reposa
Mueve(a, b) == MismosCupos /\ \E x \in Numeros : Pasa(a, b, x)
Admite == /\ sem["multiprogramacion"] > 0
          /\ sem'["multiprogramacion"] = sem["multiprogramacion"] - 1
          /\ UNCHANGED <<generador_pid, grado>>
          /\ \E x \in Numeros : Pasa(Zona("NEW"), Zona("READY"), x)
Retira == /\ sem'["multiprogramacion"] = sem["multiprogramacion"] + 1
          /\ UNCHANGED <<generador_pid, grado>>
          /\ \E x \in Numeros : Pasa(Zona("EXIT"), Zona("LIBERANDO"), x)
CambiaGrado == /\ Reposa /\ UNCHANGED generador_pid
               /\ \/ /\ grado' = grado + 1
                     /\ sem'["multiprogramacion"] = sem["multiprogramacion"] + 1
                  \/ /\ sem["multiprogramacion"] > 0 /\ grado' = grado - 1
                     /\ sem'["multiprogramacion"] = sem["multiprogramacion"] - 1
Crea == /\ generador_pid' = generador_pid + 1
        /\ UNCHANGED <<sem["multiprogramacion"], grado>>
        /\ Nace(Zona("NEW"), generador_pid + 1)

LEMMA CuantosResto ==
    ASSUME NEW s \in Seq(Objs), NEW P, NEW p
    PROVE  /\ Cuantos(P, p, s) = Cuantos(P, p, Uno(Primero(s))) + Cuantos(P, p, Resto(s))
           /\ Cuantos(P, p, Uno(Primero(s))) \in Nat /\ Cuantos(P, p, Resto(s)) \in Nat
<1>1. Primero(s) \in Punteros /\ Resto(s) \in Seq(Objs) BY DEF Primero, Resto, Punteros
<1>2. Cuantos(P, p, Uno(Primero(s))) \in Nat /\ Cuantos(P, p, Resto(s)) \in Nat
  BY <1>1, UnoTipo, CuantosNatural
<1>3. CASE s = <<>> BY <1>2, <1>3, CuantosNada DEF Primero, Resto, Uno
<1>4. CASE s # <<>>
  <2>1. Head(s) \in Objs BY <1>4
  <2>2. Primero(s) = Head(s) /\ Resto(s) = Tail(s) /\ Uno(Head(s)) = <<Head(s)>>
    BY <1>4, <2>1 DEF Primero, Resto, Uno, Objs, Nulo
  <2>3. Cuantos(P, p, s) = Contar(P[Head(s)] = p) + Cuantos(P, p, Tail(s)) BY <1>4, CuantosSaca
  <2>4. Cuantos(P, p, <<Head(s)>>) = Contar(P[Head(s)] = p) BY CuantosUno
  <2> QED BY <1>2, <2>2, <2>3, <2>4
<1> QED BY <1>2, <1>3, <1>4

LEMMA EnUno ==
    ASSUME NEW o \in Objs, NEW P, NEW p PROVE Cuantos(P, p, Uno(o)) = Contar(P[o] = p)
<1>1. Uno(o) = <<o>> BY DEF Uno, Objs, Nulo
<1> QED BY <1>1, CuantosUno

LEMMA Agrega ==
    ASSUME NEW s \in Seq(Objs), NEW o \in Objs, NEW P, NEW p
    PROVE  /\ Cuantos(P, p, Append(s, o)) = Cuantos(P, p, s) + Contar(P[o] = p)
           /\ Cuantos(P, p, s) \in Nat /\ Cuantos(P, p, Uno(o)) = Contar(P[o] = p)
<1>1. Cuantos(P, p, Append(s, o)) = Cuantos(P, p, s) + Contar(P[o] = p) BY CuantosAgrega
<1>2. Cuantos(P, p, s) \in Nat BY CuantosNatural
<1>3. Uno(o) = <<o>> BY DEF Uno, Objs, Nulo
<1> QED BY <1>1, <1>2, <1>3, CuantosUno

\* Nothing moves when every hand and every queue stays as it is.
MismasManos == (\A h \in Hilos : UNCHANGED EnMano(h)) /\ UNCHANGED <<Marcando, Enviando>>
LEMMA Quietos ==
    ASSUME MismasManos, OtrasColas({"exec", "block"}),
           UNCHANGED <<PidDe, segundo, a_cpu, de_cpu, bloq, mano_io>>
    PROVE  Reposa
<1>1. \A q \in ColasVivas : cola'[q] = cola[q] BY DEF OtrasColas, ColasVivas
<1>2. UNCHANGED <<DeLaCpu, Uno(segundo["salida"]), Uno(segundo["vuelta"])>> BY DEF DeLaCpu, Uno
<1>3. \A z \in Zonas : Igual(z)
  BY <1>1, <1>2 DEF MismasManos, Igual, EnZona, V, Zonas, ColasVivas, Colas, Hilos
<1>4. \A i \in Interfaces : IgualIO(i)
  <2> SUFFICES ASSUME NEW i \in Interfaces PROVE IgualIO(i) OBVIOUS
  <2>1. UNCHANGED <<BloqDe(i), Uno(mano_io[i].o)>> BY DEF BloqDe, Uno
  <2> QED BY <2>1 DEF IgualIO, EnIO, V
<1> QED BY <1>3, <1>4, PorZonas DEF Ajenas

\* A fault moves nothing either.
LEMMA CaidaQueda == ASSUME Cae \/ UNCHANGED vars PROVE Queda
<1>1. UNCHANGED <<hilos, procesos, cola, sem, grado, cpu, io>> BY DEF Cae, vars
<1>2. MismasManos
  BY <1>1 DEF MismasManos, EnMano, Uno, YaEncolado, Marcando, Enviando
<1>3. OtrasColas({"exec", "block"}) /\ UNCHANGED PidDe BY <1>1 DEF OtrasColas, PidDe
<1> QED BY <1>1, <1>2, <1>3, Quietos DEF Queda, MismosCupos

\* What is pushed to a list is in its place; what a thread lets go of is not in its hand.
LEMMA EntraEnReady ==
    ASSUME Tipado, UNCHANGED <<PidDe, Marcando>>, NEW o \in Objs,
           NEW q \in {"ready", "ready_aux"}, OtrasColas({q}), cola'[q] = Append(cola[q], o)
    PROVE  Gana("READY", PidDe[o])
<1> SUFFICES ASSUME NEW p \in Numeros
             PROVE  EnZona("READY", p)' = EnZona("READY", p) + Contar(p = PidDe[o])
  BY DEF Gana
<1>1. V(p, cola["ready_aux"]) \in Nat /\ V(p, Marcando) \in Nat /\ V(p, cola["ready"]) \in Nat
  BY CuentasNaturales DEF Puestos, ColasVivas, Colas
<1>2. cola[q] \in Seq(Objs) BY DEF Tipado, TypeOK, TypeColas, Colas
<1>3. Cuantos(PidDe, p, cola'[q]) = Cuantos(PidDe, p, cola[q]) + Contar(PidDe[o] = p)
  BY <1>2, Agrega
<1>4. V(p, Marcando)' = V(p, Marcando) BY DEF V
<1>5. CASE q = "ready"
  <2>1. V(p, cola["ready"])' = V(p, cola["ready"]) + Contar(PidDe[o] = p) BY <1>3, <1>5 DEF V
  <2>2. V(p, cola["ready_aux"])' = V(p, cola["ready_aux"]) BY <1>5 DEF V, OtrasColas, Colas
  <2> QED BY <1>1, <1>4, <2>1, <2>2 DEF EnZona, Contar
<1>6. CASE q = "ready_aux"
  <2>1. V(p, cola["ready_aux"])' = V(p, cola["ready_aux"]) + Contar(PidDe[o] = p)
    BY <1>3, <1>6 DEF V
  <2>2. V(p, cola["ready"])' = V(p, cola["ready"]) BY <1>6 DEF V, OtrasColas, Colas
  <2> QED BY <1>1, <1>4, <2>1, <2>2 DEF EnZona, Contar
<1> QED BY <1>5, <1>6

LEMMA EntraEnExit ==
    ASSUME Tipado, UNCHANGED PidDe, NEW o \in Objs, cola'["exit"] = Append(cola["exit"], o)
    PROVE  Gana("EXIT", PidDe[o])
<1> SUFFICES ASSUME NEW p \in Numeros
             PROVE  EnZona("EXIT", p)' = EnZona("EXIT", p) + Contar(p = PidDe[o])
  BY DEF Gana
<1>1. cola["exit"] \in Seq(Objs) BY DEF Tipado, TypeOK, TypeColas, Colas
<1>2. V(p, cola["exit"])' = V(p, cola["exit"]) + Contar(PidDe[o] = p) BY <1>1, Agrega DEF V
<1> QED BY <1>2 DEF EnZona, Contar

LEMMA VueltaSuelta ==
    ASSUME Tipado, UNCHANGED <<PidDe, a_cpu, de_cpu, Enviando>>, NEW o \in Objs,
           EnMano("vuelta") = Uno(o), EnMano("vuelta")' = <<>>
    PROVE  Cede("EXEC", PidDe[o])
<1> SUFFICES ASSUME NEW p \in Numeros
             PROVE  EnZona("EXEC", p)' = EnZona("EXEC", p) - Contar(p = PidDe[o])
  BY DEF Cede
<1>1. V(p, Enviando) \in Nat /\ V(p, a_cpu) \in Nat /\ V(p, DeLaCpu) \in Nat
  BY CuentasNaturales DEF Puestos
<1>3. V(p, EnMano("vuelta")) = Contar(PidDe[o] = p) BY EnUno DEF V
<1>4. V(p, EnMano("vuelta"))' = 0 BY CuantosNada DEF V
<1>5. /\ V(p, Enviando)' = V(p, Enviando) /\ V(p, a_cpu)' = V(p, a_cpu)
      /\ V(p, DeLaCpu)' = V(p, DeLaCpu)
  BY DEF V, DeLaCpu
<1> QED BY <1>1, <1>3, <1>4, <1>5 DEF EnZona, Contar

\* What is taken out of the queue of a resource waits in the hand of the thread that took it.
LEMMA SaleDelRecurso ==
    ASSUME Tipado, UNCHANGED PidDe, NEW h \in {"salida", "vuelta"},
           cola["recurso"] # <<>>, cola'["recurso"] = Tail(cola["recurso"]),
           segundo[h] = Nulo, segundo'[h] = Head(cola["recurso"]),
           \A g \in {"salida", "vuelta"} \ {h} : segundo'[g] = segundo[g]
    PROVE  Igual("BLOCKED")
<1> DEFINE s == cola["recurso"]
<1> SUFFICES ASSUME NEW p \in Numeros PROVE EnZona("BLOCKED", p)' = EnZona("BLOCKED", p)
  BY DEF Igual
<1>1. s \in Seq(Objs) BY DEF Tipado, TypeOK, TypeColas, Colas
<1>2. Head(s) \in Objs /\ Tail(s) \in Seq(Objs) BY <1>1
<1>3. V(p, s) = Contar(PidDe[Head(s)] = p) + Cuantos(PidDe, p, Tail(s))
  BY <1>1, CuantosSaca DEF V
<1>4. Cuantos(PidDe, p, Tail(s)) \in Nat BY <1>2, CuantosNatural
<1>5. V(p, cola["recurso"])' = Cuantos(PidDe, p, Tail(s)) BY DEF V
<1>6. Cuantos(PidDe, p, Uno(segundo[h])) = 0 BY CuantosNada DEF Uno
<1>7. Cuantos(PidDe, p, Uno(segundo'[h])) = Contar(PidDe[Head(s)] = p) BY <1>2, EnUno
<1>8. V(p, Uno(segundo["salida"])) \in Nat /\ V(p, Uno(segundo["vuelta"])) \in Nat
  BY CuentasNaturales DEF Puestos
<1>9. CASE h = "salida"
  <2>1. V(p, Uno(segundo["salida"])) = 0 BY <1>6, <1>9 DEF V
  <2>2. V(p, Uno(segundo["salida"]))' = Contar(PidDe[Head(s)] = p) BY <1>7, <1>9 DEF V, Uno
  <2>3. V(p, Uno(segundo["vuelta"]))' = V(p, Uno(segundo["vuelta"])) BY <1>9 DEF V, Uno
  <2> QED BY <1>3, <1>4, <1>5, <1>8, <2>1, <2>2, <2>3 DEF EnZona, Contar
<1>10. CASE h = "vuelta"
  <2>1. V(p, Uno(segundo["vuelta"])) = 0 BY <1>6, <1>10 DEF V
  <2>2. V(p, Uno(segundo["vuelta"]))' = Contar(PidDe[Head(s)] = p) BY <1>7, <1>10 DEF V, Uno
  <2>3. V(p, Uno(segundo["salida"]))' = V(p, Uno(segundo["salida"])) BY <1>10 DEF V, Uno
  <2> QED BY <1>3, <1>4, <1>5, <1>8, <2>1, <2>2, <2>3 DEF EnZona, Contar
<1> QED BY <1>9, <1>10

\* The thread that has it in hand puts it back in READY.
LEMMA DejaElRecurso ==
    ASSUME Tipado, UNCHANGED <<PidDe, cola["recurso"]>>, NEW h \in {"salida", "vuelta"},
           NEW o \in Objs, segundo[h] = o, segundo'[h] = Nulo,
           \A g \in {"salida", "vuelta"} \ {h} : segundo'[g] = segundo[g]
    PROVE  Cede("BLOCKED", PidDe[o])
<1> SUFFICES ASSUME NEW p \in Numeros
             PROVE  EnZona("BLOCKED", p)' = EnZona("BLOCKED", p) - Contar(p = PidDe[o])
  BY DEF Cede
<1>1. V(p, cola["recurso"]) \in Nat BY CuentasNaturales DEF Puestos, ColasVivas, Colas
<1>2. V(p, cola["recurso"])' = V(p, cola["recurso"]) BY DEF V
<1>3. Cuantos(PidDe, p, Uno(segundo[h])) = Contar(PidDe[o] = p) BY EnUno
<1>4. Cuantos(PidDe, p, Uno(segundo'[h])) = 0 BY CuantosNada DEF Uno
<1>5. V(p, Uno(segundo["salida"])) \in Nat /\ V(p, Uno(segundo["vuelta"])) \in Nat
  BY CuentasNaturales DEF Puestos
<1>6. CASE h = "salida"
  <2>1. V(p, Uno(segundo["salida"])) = Contar(PidDe[o] = p) BY <1>3, <1>6 DEF V
  <2>2. V(p, Uno(segundo["salida"]))' = 0 BY <1>4, <1>6 DEF V, Uno
  <2>3. V(p, Uno(segundo["vuelta"]))' = V(p, Uno(segundo["vuelta"])) BY <1>6 DEF V, Uno
  <2> QED BY <1>1, <1>2, <1>5, <2>1, <2>2, <2>3 DEF EnZona, Contar
<1>7. CASE h = "vuelta"
  <2>1. V(p, Uno(segundo["vuelta"])) = Contar(PidDe[o] = p) BY <1>3, <1>7 DEF V
  <2>2. V(p, Uno(segundo["vuelta"]))' = 0 BY <1>4, <1>7 DEF V, Uno
  <2>3. V(p, Uno(segundo["salida"]))' = V(p, Uno(segundo["salida"])) BY <1>7 DEF V, Uno
  <2> QED BY <1>1, <1>2, <1>5, <2>1, <2>2, <2>3 DEF EnZona, Contar
<1> QED BY <1>6, <1>7

LEMMA VuelveAReady == \A tipo, o : \A v \in Vuelve(tipo, o) : v.cola \in {"ready", "ready_aux"}
<1> SUFFICES ASSUME NEW tipo, NEW o, NEW v \in Vuelve(tipo, o)
             PROVE  v.cola \in {"ready", "ready_aux"}
  OBVIOUS
<1>1. CASE Algoritmo # "VRR" BY <1>1 DEF Vuelve
<1>2. CASE Algoritmo = "VRR" /\ tipo = "GENERICA" BY <1>2 DEF Vuelve
<1>3. CASE Algoritmo = "VRR" /\ tipo # "GENERICA" BY <1>3 DEF Vuelve
<1> QED BY <1>1, <1>2, <1>3

\* planificacion_procesos_ready: the process in hand gets a slot and a place in READY.
LEMMA LargoMueve ==
    ASSUME Tipado, Ociosos, Largo PROVE Queda \/ Admite
<1>a. TypeHilos /\ TypeSem /\ TypeColas /\ TypeProcesos /\ ManoLargo
  BY DEF Tipado, TypeOK, ManosOK
<1>b. cola["new"] \in Seq(Objs) /\ cola["ready"] \in Seq(Objs) BY <1>a DEF TypeColas, Colas
<1>1. CASE TomaDeNew
  <2>1. /\ SoloHilo("largo") /\ OtrasColas({"new"}) /\ UNCHANGED <<PidDe, segundo, a_cpu, de_cpu, bloq, mano_io>>
        /\ MismosCupos
    BY <1>a, <1>1 DEF TomaDeNew, Paso, Toma, Sacar, Wait, SoloHilo, OtrasColas, MismosCupos, PidDe,
       TypeHilos, TypeSem, Semaforos, TypeColas, Colas
  <2>2. Conserva BY <2>1, ConservaSi
  <2>3. /\ EnMano("largo") = <<>> /\ EnMano("largo")' = Uno(Primero(cola["new"]))
        /\ cola'["new"] = Resto(cola["new"])
    BY <1>a, <1>1 DEF TomaDeNew, Paso, Toma, Sacar, Ociosos, EnMano, YaEncolado, Uno, TypeHilos, Hilos,
       TypeColas, Colas
  <2>4. UNCHANGED EnMano("consola") BY <2>1, <2>2, Deja DEF Hilos
  <2>5. Igual("NEW")
    <3> SUFFICES ASSUME NEW p \in Numeros PROVE EnZona("NEW", p)' = EnZona("NEW", p)
      BY DEF Igual
    <3>1. V(p, EnMano("consola")) \in Nat BY CuentasNaturales DEF Puestos
    <3>2. V(p, EnMano("largo")) = 0 BY <2>3, CuantosNada DEF V
    <3>3. /\ V(p, EnMano("consola"))' = V(p, EnMano("consola"))
          /\ V(p, cola["new"])' = Cuantos(PidDe, p, Resto(cola["new"]))
          /\ V(p, EnMano("largo"))' = Cuantos(PidDe, p, Uno(Primero(cola["new"])))
      BY <2>1, <2>3, <2>4 DEF V
    <3> QED BY <1>b, <3>1, <3>2, <3>3, CuantosResto DEF EnZona, V
  <2>6. Ajenas({}, {}) BY <2>1, <2>2, <2>5, Deja DEF Ajenas, Zonas, Hilos
  <2> QED BY <2>1, <2>6, PorZonas DEF Queda
<1>2. CASE EncolaEnReady
  <2> DEFINE o == mano["largo"]
             x == PidDe[o]
  <2>1. /\ SoloHilo("largo") /\ OtrasColas({"ready"}) /\ UNCHANGED <<PidDe, segundo, a_cpu, de_cpu, bloq, mano_io>>
        /\ UNCHANGED <<generador_pid, grado>> /\ sem["multiprogramacion"] > 0
        /\ sem'["multiprogramacion"] = sem["multiprogramacion"] - 1
    BY <1>a, <1>2 DEF EncolaEnReady, Paso, Empujar, Wait, SoloHilo, OtrasColas, PidDe, TypeHilos,
       TypeSem, Semaforos, TypeColas, Colas
  <2>2. Conserva BY <2>1, ConservaSi
  <2>3. /\ o \in Objs /\ EnMano("largo") = Uno(o) /\ EnMano("largo")' = <<>>
        /\ cola'["ready"] = Append(cola["ready"], o)
    BY <1>a, <1>2 DEF EncolaEnReady, Paso, Empujar, EnMano, YaEncolado, TypeHilos, Hilos, TypeColas,
       Colas, Punteros
  <2>4. x \in Numeros BY <1>a, <2>3 DEF PidDe, TypeProcesos, PCB, Numeros
  <2>5. UNCHANGED <<EnMano("consola"), EnMano("despachador"), Marcando>>
    BY <2>1, <2>2, Deja DEF SoloHilo, Marcando, Hilos
  <2>6. Cede("NEW", x)
    <3> SUFFICES ASSUME NEW p \in Numeros PROVE EnZona("NEW", p)' = EnZona("NEW", p) - Contar(p = x)
      BY DEF Cede
    <3>1. V(p, EnMano("consola")) \in Nat /\ V(p, cola["new"]) \in Nat
      BY CuentasNaturales DEF Puestos, ColasVivas, Colas
    <3>2. V(p, EnMano("largo")) = Contar(x = p) BY <1>b, <2>3, Agrega DEF V
    <3>3. V(p, EnMano("largo"))' = 0 BY <2>3, CuantosNada DEF V
    <3>4. /\ V(p, EnMano("consola"))' = V(p, EnMano("consola"))
          /\ V(p, cola["new"])' = V(p, cola["new"])
      BY <2>1, <2>5 DEF V, OtrasColas, Colas
    <3> QED BY <3>1, <3>2, <3>3, <3>4 DEF EnZona, Contar
  <2>7. Gana("READY", x) BY <2>1, <2>3, <2>5, EntraEnReady
  <2>8. Ajenas({"NEW", "READY"}, {}) BY <2>1, <2>2, Deja DEF Ajenas, Zonas, Hilos
  <2>9. Pasa(Zona("NEW"), Zona("READY"), x) BY <2>6, <2>7, <2>8, PorZonas DEF Zonas
  <2> QED BY <2>1, <2>4, <2>9 DEF Admite
<1>3. CASE MarcaReady
  <2>1. /\ SoloHilo("largo") /\ OtrasColas({}) /\ UNCHANGED <<PidDe, segundo, a_cpu, de_cpu, bloq, mano_io>>
        /\ MismosCupos
    BY <1>a, <1>3 DEF MarcaReady, Paso, Toma, CambiarEstado, Post, SoloHilo, OtrasColas,
       MismosCupos, PidDe, PCB, TypeHilos, TypeProcesos, TypeSem, Semaforos, ManoLargo
  <2>2. UNCHANGED EnMano("largo")
    BY <1>a, <1>3 DEF MarcaReady, Paso, Toma, EnMano, YaEncolado, Uno, TypeHilos, Hilos
  <2>3. MismasManos
    BY <2>1, <2>2 DEF SoloHilo, MismasManos, EnMano, YaEncolado, Marcando, Enviando, Hilos
  <2> QED BY <2>1, <2>3, Quietos DEF Queda, OtrasColas
<1>4. CASE EncolaNulo BY <1>4, CaidaQueda DEF EncolaNulo
<1> QED BY <1>1, <1>2, <1>3, <1>4 DEF Largo

\* procesos_en_exit and liberar_recursos: a slot is given back for each process taken from
\* EXIT, and what is taken out of the queue of a resource goes to READY.
LEMMA SalidaMueve ==
    ASSUME Tipado, Ociosos, Salida
    PROVE  \/ Queda \/ Retira
           \/ Mueve(Zona("BLOCKED"), Zona("READY")) \/ Mueve(Zona("LIBERANDO"), Zona("FIN"))
<1>a. TypeHilos /\ TypeSem /\ TypeColas /\ TypeProcesos /\ ManoSalida
  BY DEF Tipado, TypeOK, ManosOK
<1>b. \A q \in Colas : cola[q] \in Seq(Objs) BY <1>a DEF TypeColas
<1>1. CASE SalidaMiraPlan \/ SalidaPideMemoria \/ SalidaRecibeMemoria \/ NoTieneInstancias
             \/ LiberaLeeInstancias \/ LiberaIncrementa
  <2>1. /\ SoloHilo("salida") /\ MismosCupos
        /\ UNCHANGED <<pcb, cola, mano, segundo, a_cpu, de_cpu, bloq, mano_io>>
        /\ ~YaEncolado("salida") /\ ~YaEncolado("salida")'
    BY <1>a, <1>1 DEF SalidaMiraPlan, SalidaPideMemoria, SalidaRecibeMemoria, NoTieneInstancias,
       LiberaLeeInstancias, LiberaIncrementa, Paso, SoloHilo, MismosCupos, YaEncolado, TypeHilos,
       Hilos
  <2>2. MismasManos
    BY <2>1 DEF SoloHilo, MismasManos, EnMano, YaEncolado, Marcando, Enviando, Hilos
  <2>3. OtrasColas({"exec", "block"}) /\ UNCHANGED PidDe BY <2>1 DEF OtrasColas, PidDe
  <2> QED BY <2>1, <2>2, <2>3, Quietos DEF Queda
<1>2. CASE TomaDeExit
  <2> DEFINE o == Head(cola["exit"])
             x == PidDe[o]
  <2>1. /\ SoloHilo("salida") /\ OtrasColas({"exit"})
        /\ UNCHANGED <<PidDe, segundo, a_cpu, de_cpu, bloq, mano_io, generador_pid, grado>>
        /\ sem'["multiprogramacion"] = sem["multiprogramacion"] + 1
    BY <1>a, <1>2 DEF TomaDeExit, Paso, Toma, Sacar, SoloHilo, OtrasColas, PidDe, TypeHilos,
       TypeSem, Semaforos, TypeColas, Colas
  <2>2. Conserva BY <2>1, ConservaSi
  <2>3. /\ cola["exit"] # <<>> /\ cola["exit"] \in Seq(Objs)
        /\ EnMano("salida") = <<>> /\ mano'["salida"] = o /\ ~YaEncolado("salida")'
        /\ cola'["exit"] = Tail(cola["exit"])
    BY <1>a, <1>b, <1>2 DEF TomaDeExit, Paso, Toma, Sacar, Resto, Ociosos, EnMano, YaEncolado, Uno,
       TypeHilos, Hilos, TypeColas, Colas
  <2>4. o \in Objs /\ x \in Numeros
    BY <1>a, <2>3 DEF PidDe, TypeProcesos, PCB, Numeros
  <2>5. Cede("EXIT", x)
    <3> SUFFICES ASSUME NEW p \in Numeros PROVE EnZona("EXIT", p)' = EnZona("EXIT", p) - Contar(p = x)
      BY DEF Cede
    <3>1. V(p, cola["exit"]) = Contar(PidDe[o] = p) + Cuantos(PidDe, p, Tail(cola["exit"]))
      BY <2>3, CuantosSaca DEF V
    <3>2. Tail(cola["exit"]) \in Seq(Objs) BY <2>3
    <3>4. Cuantos(PidDe, p, Tail(cola["exit"])) \in Nat BY <3>2, CuantosNatural
    <3>3. V(p, cola["exit"])' = Cuantos(PidDe, p, Tail(cola["exit"])) BY <2>1, <2>3 DEF V
    <3> QED BY <3>1, <3>3, <3>4 DEF EnZona, Contar
  <2>6. Gana("LIBERANDO", x)
    <3> SUFFICES ASSUME NEW p \in Numeros
                 PROVE  EnZona("LIBERANDO", p)' = EnZona("LIBERANDO", p) + Contar(p = x)
      BY DEF Gana
    <3>1. V(p, EnMano("salida")) = 0 BY <2>3, CuantosNada DEF V
    <3>2. EnMano("salida")' = Uno(o) BY <2>3 DEF EnMano, Uno
    <3>3. V(p, EnMano("salida"))' = Contar(PidDe[o] = p) BY <2>1, <2>3, <2>4, <3>2, Agrega DEF V
    <3> QED BY <3>1, <3>3 DEF EnZona, Contar
  <2>7. Ajenas({"EXIT", "LIBERANDO"}, {}) BY <2>1, <2>2, Deja DEF Ajenas, Zonas, Hilos
  <2>8. Pasa(Zona("EXIT"), Zona("LIBERANDO"), x) BY <2>5, <2>6, <2>7, PorZonas DEF Zonas
  <2> QED BY <2>1, <2>4, <2>8 DEF Retira
<1>3. CASE LiberaSacaBloqueado
  <2> DEFINE s == cola["recurso"]
  <2>1. /\ SoloHilo("salida") /\ OtrasColas({"recurso"}) /\ MismosCupos
        /\ UNCHANGED <<PidDe, mano, a_cpu, de_cpu, bloq, mano_io>>
        /\ ~YaEncolado("salida") /\ ~YaEncolado("salida")'
    BY <1>a, <1>3 DEF LiberaSacaBloqueado, Paso, Sacar, SoloHilo, OtrasColas, MismosCupos, PidDe,
       YaEncolado, TypeHilos, TypeColas, Colas, Hilos
  <2>2. Conserva BY <2>1, ConservaSi
  <2>3. /\ s # <<>> /\ s \in Seq(Objs) /\ segundo["salida"] = Nulo
        /\ segundo'["salida"] = Head(s) /\ segundo'["vuelta"] = segundo["vuelta"]
        /\ cola'["recurso"] = Tail(s)
    BY <1>a, <1>b, <1>3 DEF LiberaSacaBloqueado, Paso, Sacar, Resto, Ociosos, TypeHilos, Hilos,
       TypeColas, Colas
  <2>4. Igual("BLOCKED") BY <2>1, <2>3, SaleDelRecurso
  <2>5. UNCHANGED EnMano("salida") BY <2>1 DEF EnMano, Uno
  <2>6. Igual("LIBERANDO") BY <2>1, <2>5 DEF Igual, EnZona, V
  <2>7. Ajenas({}, {}) BY <2>1, <2>2, <2>4, <2>6, Deja DEF Ajenas, Zonas, Hilos
  <2> QED BY <2>1, <2>7, PorZonas DEF Queda
<1>4. CASE LiberaDesbloquea
  <2> DEFINE o == segundo["salida"]
             x == PidDe[o]
  <2>1. o \in Objs BY <1>a, <1>4 DEF LiberaDesbloquea, Paso, ManoSalida
  <2> PICK v \in Vuelve("RECURSOVT", o) : CambiarEstado(o, v.estado) /\ Empujar(v.cola, o)
    BY <1>4 DEF LiberaDesbloquea
  <2> DEFINE q == v.cola
  <2>2. q \in {"ready", "ready_aux"} BY VuelveAReady
  <2>3. UNCHANGED PidDe BY <1>a, <2>1, MismosPid
  <2>4. /\ SoloHilo("salida") /\ OtrasColas({q}) /\ MismosCupos
        /\ UNCHANGED <<mano, a_cpu, de_cpu, bloq, mano_io>>
        /\ ~YaEncolado("salida") /\ ~YaEncolado("salida")'
    BY <1>a, <1>4 DEF LiberaDesbloquea, Paso, Empujar, SoloHilo, OtrasColas, MismosCupos,
       YaEncolado, TypeHilos, TypeColas, Colas, Hilos, TypeSem, Semaforos
  <2>5. /\ cola'[q] = Append(cola[q], o) /\ segundo'["salida"] = Nulo
        /\ segundo'["vuelta"] = segundo["vuelta"]
    BY <1>a, <1>4, <2>2 DEF LiberaDesbloquea, Empujar, TypeHilos, TypeColas, Colas
  <2>6. Conserva BY <2>3, ConservaSi
  <2>7. x \in Numeros BY <1>a, <2>1 DEF PidDe, TypeProcesos, PCB, Numeros
  <2>8. UNCHANGED <<EnMano("salida"), Marcando>>
    BY <2>4 DEF SoloHilo, EnMano, Uno, YaEncolado, Marcando, Hilos
  <2>9. Gana("READY", x) BY <2>1, <2>2, <2>3, <2>4, <2>5, <2>8, EntraEnReady
  <2>10. Cede("BLOCKED", x)
    <3>1. UNCHANGED cola["recurso"] BY <2>2, <2>4 DEF OtrasColas, Colas
    <3> QED BY <2>1, <2>3, <2>5, <3>1, DejaElRecurso
  <2>11. Igual("LIBERANDO") BY <2>3, <2>8 DEF Igual, EnZona, V
  <2>12. Ajenas({"BLOCKED", "READY"}, {})
    BY <2>2, <2>4, <2>6, <2>11, Deja DEF Ajenas, Zonas, Hilos
  <2>13. Pasa(Zona("BLOCKED"), Zona("READY"), x) BY <2>9, <2>10, <2>12, PorZonas DEF Zonas
  <2> QED BY <2>4, <2>7, <2>13 DEF Mueve
<1>5. CASE Archiva
  <2> DEFINE o == mano["salida"]
             x == PidDe[o]
  <2>1. /\ SoloHilo("salida") /\ OtrasColas({"liberados"}) /\ MismosCupos
        /\ UNCHANGED <<PidDe, segundo, a_cpu, de_cpu, bloq, mano_io>>
    BY <1>a, <1>5 DEF Archiva, Paso, Toma, Empujar, SoloHilo, OtrasColas, MismosCupos, PidDe,
       TypeHilos, TypeColas, Colas
  <2>2. /\ o \in Objs /\ EnMano("salida") = Uno(o) /\ EnMano("salida")' = <<>>
        /\ cola'["liberados"] = Append(cola["liberados"], o)
    BY <1>a, <1>5 DEF Archiva, Paso, Toma, Empujar, EnMano, Uno, YaEncolado, ManoSalida, TypeHilos,
       Hilos, TypeColas, Colas
  <2>3. Conserva BY <2>1, ConservaSi
  <2>4. x \in Numeros BY <1>a, <2>2 DEF PidDe, TypeProcesos, PCB, Numeros
  <2>5. cola["liberados"] \in Seq(Objs) BY <1>b DEF Colas
  <2>6. Cede("LIBERANDO", x)
    <3> SUFFICES ASSUME NEW p \in Numeros
                 PROVE  EnZona("LIBERANDO", p)' = EnZona("LIBERANDO", p) - Contar(p = x)
      BY DEF Cede
    <3>1. V(p, EnMano("salida")) = Contar(PidDe[o] = p) BY <2>2, <2>5, Agrega DEF V
    <3>2. V(p, EnMano("salida"))' = 0 BY <2>2, CuantosNada DEF V
    <3> QED BY <3>1, <3>2 DEF EnZona, Contar
  <2>7. Gana("FIN", x)
    <3> SUFFICES ASSUME NEW p \in Numeros
                 PROVE  EnZona("FIN", p)' = EnZona("FIN", p) + Contar(p = x)
      BY DEF Gana
    <3>1. V(p, cola["liberados"])' = V(p, cola["liberados"]) + Contar(PidDe[o] = p)
      BY <2>1, <2>2, <2>5, Agrega DEF V
    <3> QED BY <3>1 DEF EnZona, Contar
  <2>8. Ajenas({"LIBERANDO", "FIN"}, {}) BY <2>1, <2>3, Deja DEF Ajenas, Zonas, Hilos
  <2>9. Pasa(Zona("LIBERANDO"), Zona("FIN"), x) BY <2>6, <2>7, <2>8, PorZonas DEF Zonas
  <2> QED BY <2>1, <2>4, <2>9 DEF Mueve
<1>6. CASE LiberaSinBloqueado \/ LiberaLeeSinAsignar
  BY <1>6, CaidaQueda DEF LiberaSinBloqueado, LiberaLeeSinAsignar
<1> QED BY <1>1, <1>2, <1>3, <1>4, <1>5, <1>6 DEF Salida

\* despachador: the process taken from READY is the one sent to the CPU, as another PCB.
LEMMA DespachadorMueve ==
    ASSUME Tipado, SinAsignar, NoEsta(0), Despachador
    PROVE  Queda \/ (MarcaExec /\ Mueve(Zona("READY"), Zona("EXEC")))
<1>a. TypeHilos /\ TypeSem /\ TypeColas /\ TypeProcesos /\ TypeCPU /\ ManoDespachador
  BY DEF Tipado, TypeOK, ManosOK
<1>b. \A q \in Colas : cola[q] \in Seq(Objs) BY <1>a DEF TypeColas
<1>1. CASE DespachadorMiraPlan \/ Elige \/ LanzaQuantum \/ PasaAExec
  <2>1. /\ SoloHilo("despachador") /\ MismosCupos /\ OtrasColas({"exec", "block"})
        /\ UNCHANGED <<pcb, mano, segundo, a_cpu, de_cpu, bloq, mano_io>>
    BY <1>a, <1>1 DEF DespachadorMiraPlan, Elige, LanzaQuantum, PasaAExec, Paso, Empujar,
       OtrasColas, SoloHilo, MismosCupos, TypeHilos, Hilos, TypeColas, Colas, TypeSem, Semaforos
  <2>2. /\ \/ pc["despachador"] = "a_exec" /\ pc'["despachador"] = "envia"
           \/ {pc["despachador"], pc'["despachador"]} \cap {"marca_exec", "a_exec", "envia"} = {}
        /\ ~YaEncolado("despachador") /\ ~YaEncolado("despachador")'
    BY <1>a, <1>1 DEF DespachadorMiraPlan, Elige, LanzaQuantum, PasaAExec, Paso, YaEncolado,
       TypeHilos, Hilos
  <2>3. MismasManos
    BY <2>1, <2>2 DEF SoloHilo, MismasManos, EnMano, YaEncolado, Marcando, Enviando, Hilos
  <2> QED BY <2>1, <2>3, Quietos DEF Queda, PidDe
<1>2. CASE SacaReady
  <2> PICK q \in {"ready", "ready_aux"} :
           /\ Paso("despachador", IF q = "ready" THEN "saca_ready" ELSE "saca_ready_aux", "marca_exec")
           /\ cola[q] # <<>>
           /\ Toma("despachador", Head(cola[q])) /\ Sacar(q)
    BY <1>2 DEF SacaReady
  <2> DEFINE o == Head(cola[q])
  <2>1. /\ SoloHilo("despachador") /\ MismosCupos /\ OtrasColas({q})
        /\ UNCHANGED <<PidDe, segundo, a_cpu, de_cpu, bloq, mano_io>>
    BY <1>a, <1>2 DEF SacaReady, Paso, Toma, Sacar, OtrasColas, SoloHilo, MismosCupos, PidDe,
       TypeHilos, Hilos, TypeColas, Colas
  <2>2. /\ cola[q] \in Seq(Objs) /\ cola[q] # <<>> /\ cola'[q] = Tail(cola[q])
        /\ Marcando = <<>> /\ Marcando' = Uno(o) /\ Enviando = <<>> /\ Enviando' = <<>>
    BY <1>a, <1>b DEF Paso, Toma, Sacar, Resto, Marcando, Enviando, EnMano, Uno, YaEncolado,
       TypeHilos, Hilos, TypeColas, Colas
  <2>3. Conserva BY <2>1, ConservaSi
  <2>4. Igual("READY")
    <3> SUFFICES ASSUME NEW p \in Numeros PROVE EnZona("READY", p)' = EnZona("READY", p)
      BY DEF Igual
    <3>1. Cuantos(PidDe, p, cola[q]) = Contar(PidDe[o] = p) + Cuantos(PidDe, p, cola'[q])
      BY <2>2, CuantosSaca
    <3>2. o \in Objs /\ cola'[q] \in Seq(Objs) BY <2>2
    <3>3. V(p, Marcando) = 0 /\ V(p, Marcando)' = Contar(PidDe[o] = p)
      BY <2>1, <2>2, <3>2, EnUno, CuantosNada DEF V
    <3>4. Cuantos(PidDe, p, cola'[q]) \in Nat BY <3>2, CuantosNatural
    <3>5. V(p, cola["ready_aux"]) \in Nat /\ V(p, cola["ready"]) \in Nat
      BY CuentasNaturales DEF Puestos, ColasVivas, Colas
    <3>6. CASE q = "ready"
      <4>1. V(p, cola["ready"]) = Contar(PidDe[o] = p) + V(p, cola["ready"])'
        BY <2>1, <3>1, <3>6 DEF V
      <4>2. V(p, cola["ready_aux"])' = V(p, cola["ready_aux"])
        BY <2>1, <3>6 DEF V, OtrasColas, Colas
      <4>3. V(p, cola["ready"])' \in Nat BY <2>1, <3>4, <3>6 DEF V
      <4> QED BY <3>3, <3>5, <4>1, <4>2, <4>3 DEF EnZona, Contar
    <3>7. CASE q = "ready_aux"
      <4>1. V(p, cola["ready_aux"]) = Contar(PidDe[o] = p) + V(p, cola["ready_aux"])'
        BY <2>1, <3>1, <3>7 DEF V
      <4>2. V(p, cola["ready"])' = V(p, cola["ready"])
        BY <2>1, <3>7 DEF V, OtrasColas, Colas
      <4>3. V(p, cola["ready_aux"])' \in Nat BY <2>1, <3>4, <3>7 DEF V
      <4> QED BY <3>3, <3>5, <4>1, <4>2, <4>3 DEF EnZona, Contar
    <3> QED BY <3>6, <3>7
  <2>5. Igual("EXEC")
    <3>1. UNCHANGED <<EnMano("vuelta"), Enviando, DeLaCpu>>
      BY <2>1, <2>2, <2>3, Deja DEF Hilos, DeLaCpu
    <3> QED BY <2>1, <3>1 DEF Igual, EnZona, V
  <2>6. Ajenas({}, {}) BY <2>1, <2>3, <2>4, <2>5, Deja DEF Ajenas, Zonas, Hilos
  <2> QED BY <2>1, <2>6, PorZonas DEF Queda
<1>3. CASE MarcaExec
  <2> DEFINE o == mano["despachador"]
             x == PidDe[o]
  <2>1. o \in Objs /\ x \in Numeros
    BY <1>a, <1>3 DEF MarcaExec, Paso, ManoDespachador, PidDe, TypeProcesos, PCB, Numeros
  <2>2. UNCHANGED PidDe BY <1>a, <1>3, <2>1, MismosPid DEF MarcaExec
  <2>3. /\ SoloHilo("despachador") /\ MismosCupos /\ OtrasColas({})
        /\ UNCHANGED <<segundo, a_cpu, de_cpu, bloq, mano_io>>
    BY <1>a, <1>3 DEF MarcaExec, Paso, OtrasColas, SoloHilo, MismosCupos, TypeHilos, Hilos
  <2>4. Marcando = Uno(o) /\ Marcando' = <<>> /\ Enviando = <<>> /\ Enviando' = Uno(o)
    BY <1>a, <1>3 DEF MarcaExec, Paso, Marcando, Enviando, EnMano, YaEncolado, TypeHilos, Hilos
  <2>5. Conserva BY <2>2, ConservaSi
  <2>6. Cede("READY", x)
    <3> SUFFICES ASSUME NEW p \in Numeros
                 PROVE  EnZona("READY", p)' = EnZona("READY", p) - Contar(p = x)
      BY DEF Cede
    <3>1. V(p, Marcando) = Contar(PidDe[o] = p) /\ V(p, Marcando)' = 0
      BY <2>1, <2>4, EnUno, CuantosNada DEF V
    <3>2. V(p, cola["ready_aux"]) \in Nat /\ V(p, cola["ready"]) \in Nat
      BY CuentasNaturales DEF Puestos, ColasVivas, Colas
    <3>3. /\ V(p, cola["ready"])' = V(p, cola["ready"])
          /\ V(p, cola["ready_aux"])' = V(p, cola["ready_aux"])
      BY <2>2, <2>3 DEF V, OtrasColas, Colas
    <3> QED BY <3>1, <3>2, <3>3 DEF EnZona, Contar
  <2>7. Gana("EXEC", x)
    <3> SUFFICES ASSUME NEW p \in Numeros
                 PROVE  EnZona("EXEC", p)' = EnZona("EXEC", p) + Contar(p = x)
      BY DEF Gana
    <3>1. V(p, Enviando) = 0 /\ V(p, Enviando)' = Contar(PidDe[o] = p)
      BY <2>1, <2>2, <2>4, EnUno, CuantosNada DEF V
    <3>2. V(p, a_cpu) \in Nat /\ V(p, DeLaCpu) \in Nat /\ V(p, EnMano("vuelta")) \in Nat
      BY CuentasNaturales DEF Puestos
    <3>3. UNCHANGED <<EnMano("vuelta"), DeLaCpu>> BY <2>3, <2>5, Deja DEF Hilos, DeLaCpu
    <3>4. /\ V(p, a_cpu)' = V(p, a_cpu) /\ V(p, DeLaCpu)' = V(p, DeLaCpu)
          /\ V(p, EnMano("vuelta"))' = V(p, EnMano("vuelta"))
      BY <2>2, <2>3, <3>3 DEF V
    <3> QED BY <3>1, <3>2, <3>4 DEF EnZona, Contar
  <2>8. Ajenas({"READY", "EXEC"}, {}) BY <2>3, <2>5, Deja DEF Ajenas, Zonas, Hilos
  <2>9. Pasa(Zona("READY"), Zona("EXEC"), x) BY <2>6, <2>7, <2>8, PorZonas DEF Zonas
  <2> QED BY <1>3, <2>1, <2>3, <2>9 DEF Mueve
<1>4. CASE Despacha
  <2> DEFINE o == mano["despachador"]
  <2>1. o \in Objs /\ libre \in Objs
    BY <1>a, <1>4 DEF Despacha, EnviarPCB, Paso, ManoDespachador
  <2>2. PidDe'[libre] = PidDe[o] /\ \A a \in Objs \ {libre} : PidDe'[a] = PidDe[a]
    BY <1>4, <2>1, PidDeEnviado DEF Despacha
  <2>3. /\ SoloHilo("despachador") /\ MismosCupos /\ OtrasColas({})
        /\ UNCHANGED <<segundo, de_cpu, bloq, mano_io>>
        /\ a_cpu' = Append(a_cpu, libre)
    BY <1>a, <1>4 DEF Despacha, EnviarPCB, Paso, Toma, Post, OtrasColas, SoloHilo, MismosCupos,
       TypeHilos, Hilos, TypeSem, Semaforos
  <2>4. Marcando = <<>> /\ Marcando' = <<>> /\ Enviando = Uno(o) /\ Enviando' = <<>>
    BY <1>a, <1>4 DEF Despacha, Paso, Toma, Marcando, Enviando, EnMano, YaEncolado, TypeHilos, Hilos
  <2>5. Conserva BY <2>1, <2>2, ConservaSi
  <2>6. Igual("READY")
    <3> SUFFICES ASSUME NEW p \in Numeros PROVE EnZona("READY", p)' = EnZona("READY", p)
      BY DEF Igual
    <3>1. {cola["ready"], cola["ready_aux"], Marcando} \subseteq Puestos
      BY DEF Puestos, ColasVivas, Colas
    <3>2. V(p, cola["ready"])' = V(p, cola["ready"]) BY <2>3, <2>5, <3>1 DEF V, Conserva, OtrasColas, Colas
    <3>3. V(p, cola["ready_aux"])' = V(p, cola["ready_aux"])
      BY <2>3, <2>5, <3>1 DEF V, Conserva, OtrasColas, Colas
    <3>4. V(p, Marcando)' = V(p, Marcando) BY <2>4, <2>5, <3>1 DEF V, Conserva
    <3> QED BY <3>2, <3>3, <3>4 DEF EnZona
  <2>7. Igual("EXEC")
    <3> SUFFICES ASSUME NEW p \in Numeros PROVE EnZona("EXEC", p)' = EnZona("EXEC", p)
      BY DEF Igual
    <3>1. V(p, Enviando) = Contar(PidDe[o] = p) /\ V(p, Enviando)' = 0
      BY <2>1, <2>4, EnUno, CuantosNada DEF V
    <3>2. V(p, a_cpu) \in Nat /\ V(p, DeLaCpu) \in Nat /\ V(p, EnMano("vuelta")) \in Nat
      BY CuentasNaturales DEF Puestos
    <3>3. UNCHANGED <<EnMano("vuelta"), DeLaCpu>> BY <2>3, <2>5, Deja DEF Hilos, DeLaCpu
    <3>4. /\ V(p, DeLaCpu)' = V(p, DeLaCpu) /\ V(p, EnMano("vuelta"))' = V(p, EnMano("vuelta"))
      BY <2>5, <3>3 DEF V, Conserva, Puestos
    <3>5. Cuantos(PidDe', p, Append(a_cpu, libre))
            = Cuantos(PidDe', p, a_cpu) + Contar(PidDe'[libre] = p)
      BY <1>a, <2>1, CuantosAgrega DEF TypeCPU
    <3>6. V(p, a_cpu)' = V(p, a_cpu) + Contar(PidDe[o] = p)
      BY <2>2, <2>3, <2>5, <3>5 DEF V, Conserva, Puestos
    <3> QED BY <3>1, <3>2, <3>4, <3>6 DEF EnZona, Contar
  <2>8. Ajenas({}, {}) BY <2>3, <2>5, <2>6, <2>7, Deja DEF Ajenas, Zonas, Hilos
  <2> QED BY <2>3, <2>8, PorZonas DEF Queda
<1>5. CASE ReadyVacia BY <1>5, CaidaQueda DEF ReadyVacia
<1> QED BY <1>1, <1>2, <1>3, <1>4, <1>5 DEF Despachador

\* What a place lets go of and no other gets is lost.
LEMMA PierdeSi ==
    ASSUME Tipado, NEW a \in Zonas, NEW x, Cede(a, x), Ajenas({a}, {}) PROVE Pierde
<1> SUFFICES ASSUME NEW s \in Sitios, NEW p \in Numeros PROVE En(s, p)' <= En(s, p)
  BY DEF Pierde
<1>1. En(s, p) \in Nat BY CuentasNaturales
<1>2. /\ \A z \in Zonas : En(Zona(z), p)' = EnZona(z, p)' /\ En(Zona(z), p) = EnZona(z, p)
      /\ \A i \in Interfaces : En(DeIO(i), p)' = EnIO(i, p)' /\ En(DeIO(i), p) = EnIO(i, p)
  BY SitiosSon, SitiosLuego
<1>3. CASE s = Zona(a) BY <1>1, <1>2, <1>3 DEF Cede, Contar
<1>4. CASE s # Zona(a) BY <1>1, <1>2, <1>4 DEF Ajenas, Igual, IgualIO, Sitios
<1> QED BY <1>3, <1>4

\* atender_vuelta_dispatch puts the PCB it has in hand in READY, in EXIT or in the list of
\* an interface; it loses it on a motive it has no case for or on a list already freed.
LEMMA VueltaDispatchMueve ==
    ASSUME Tipado, Ociosos, VueltaDispatch
    PROVE  \/ Queda \/ Mueve(Zona("EXEC"), Zona("READY")) \/ Mueve(Zona("EXEC"), Zona("EXIT"))
           \/ \E i \in Interfaces : Mueve(Zona("EXEC"), DeIO(i))
           \/ /\ MismosCupos /\ Pierde
              /\ ret.motivo = "EXIT_CONSOLA" \/ \E i \in Interfaces : pc_io[i] = "liberada"
<1>a. TypeHilos /\ TypeSem /\ TypeColas /\ TypeProcesos /\ TypeCPU /\ TypeIO /\ ManoVuelta
  BY DEF Tipado, TypeOK, ManosOK
<1>b. \A q \in Colas : cola[q] \in Seq(Objs) BY <1>a DEF TypeColas
<1> DEFINE o == mano["vuelta"]
           x == PidDe[o]
<1>1. CASE VueltaMiraPlan \/ BuscaInterfaz \/ AvisaInterfaz
  <2>1. /\ SoloHilo("vuelta") /\ MismosCupos /\ OtrasColas({"exec", "block"})
        /\ UNCHANGED <<segundo, a_cpu, de_cpu, bloq, mano_io>>
    BY <1>a, <1>1 DEF VueltaMiraPlan, BuscaInterfaz, AvisaInterfaz, Atiende, Paso, Toma,
       SueltaVuelta, Post, Empujar, OtrasColas, SoloHilo, MismosCupos, TypeHilos, Hilos, TypeColas,
       Colas, TypeSem, Semaforos
  <2>2. UNCHANGED PidDe
    <3>1. CASE VueltaMiraPlan \/ AvisaInterfaz BY <3>1 DEF VueltaMiraPlan, AvisaInterfaz, PidDe
    <3>2. CASE BuscaInterfaz
      <4>1. o \in Objs
        BY <1>a, <3>2 DEF BuscaInterfaz, Atiende, Paso, ManoVuelta, VueltaTiene, PasosVuelta
      <4> QED BY <1>a, <3>2, <4>1 DEF BuscaInterfaz, PidDe, TypeProcesos, PCB
    <3> QED BY <1>1, <3>1, <3>2
  <2>3. UNCHANGED EnMano("vuelta")
    BY <1>a, <1>1 DEF VueltaMiraPlan, BuscaInterfaz, AvisaInterfaz, Atiende, Paso, Toma,
       SueltaVuelta, EnMano, Uno, YaEncolado, TypeHilos, Hilos
  <2>4. MismasManos
    BY <2>1, <2>3 DEF SoloHilo, MismasManos, EnMano, YaEncolado, Marcando, Enviando, Hilos
  <2> QED BY <2>1, <2>2, <2>4, Quietos DEF Queda
<1>2. CASE RecibeVuelta
  <2>1. /\ SoloHilo("vuelta") /\ MismosCupos /\ OtrasColas({})
        /\ UNCHANGED <<PidDe, segundo, a_cpu, bloq, mano_io>>
    BY <1>a, <1>2 DEF RecibeVuelta, Paso, Toma, Wait, OtrasColas, SoloHilo, MismosCupos, PidDe,
       TypeHilos, Hilos, TypeSem, Semaforos
  <2>2. DeLaCpu \in Seq(Objs) /\ DeLaCpu # <<>> /\ DeLaCpu' = Tail(DeLaCpu)
        /\ Head(DeLaCpu) = Head(de_cpu).o
    <3>1. de_cpu # <<>> /\ de_cpu' = Tail(de_cpu) BY <1>2 DEF RecibeVuelta
    <3>2. DeLaCpu \in Seq(Objs) BY PuestosTipo DEF Puestos
    <3> DEFINE R == [o: Objs, r: Retorno]
    <3>3. de_cpu \in Seq(R) BY <1>a DEF TypeCPU
    <3>4. \A e \in R : e.o \in Objs OBVIOUS
    <3> HIDE DEF R
    <3>5. /\ Quienes(de_cpu) # <<>> /\ Head(Quienes(de_cpu)) = Head(de_cpu).o
          /\ Quienes(Tail(de_cpu)) = Tail(Quienes(de_cpu))
      BY <3>1, <3>3, <3>4, QuienesSaca
    <3> QED BY <3>1, <3>2, <3>5 DEF DeLaCpu
  <2>3. /\ EnMano("vuelta") = <<>> /\ EnMano("vuelta")' = Uno(Head(DeLaCpu))
    BY <1>a, <1>2, <2>2 DEF RecibeVuelta, Paso, Toma, Ociosos, VueltaTiene, EnMano, YaEncolado, Uno,
       TypeHilos, Hilos
  <2>4. Conserva BY <2>1, ConservaSi
  <2>5. Igual("EXEC")
    <3> SUFFICES ASSUME NEW p \in Numeros PROVE EnZona("EXEC", p)' = EnZona("EXEC", p)
      BY DEF Igual
    <3>1. V(p, DeLaCpu) = Contar(PidDe[Head(DeLaCpu)] = p) + Cuantos(PidDe, p, Tail(DeLaCpu))
      BY <2>2, CuantosSaca DEF V
    <3>2. Head(DeLaCpu) \in Objs /\ Tail(DeLaCpu) \in Seq(Objs) BY <2>2
    <3>3. Cuantos(PidDe, p, Tail(DeLaCpu)) \in Nat BY <3>2, CuantosNatural
    <3>4. V(p, DeLaCpu)' = Cuantos(PidDe, p, Tail(DeLaCpu)) BY <2>1, <2>2 DEF V
    <3>5. /\ V(p, EnMano("vuelta")) = 0
          /\ V(p, EnMano("vuelta"))' = Contar(PidDe[Head(DeLaCpu)] = p)
      BY <2>1, <2>3, <3>2, EnUno, CuantosNada DEF V
    <3>6. V(p, a_cpu) \in Nat /\ V(p, Enviando) \in Nat BY CuentasNaturales DEF Puestos
    <3>7. V(p, a_cpu)' = V(p, a_cpu) /\ V(p, Enviando)' = V(p, Enviando)
      BY <2>1 DEF V, SoloHilo, Enviando, EnMano, Uno, YaEncolado, Hilos
    <3> QED BY <3>1, <3>3, <3>4, <3>5, <3>6, <3>7 DEF EnZona, Contar
  <2>6. Ajenas({}, {}) BY <2>1, <2>4, <2>5, Deja DEF Ajenas, Zonas, Hilos
  <2> QED BY <2>1, <2>6, PorZonas DEF Queda
<1>3. CASE AtiendeFinQuantum \/ AtiendeFinal \/ RechazaPedido \/ AtiendeOtroMotivo
  <2> DEFINE Q == IF AtiendeFinQuantum THEN {"ready"} ELSE {"exit"}
  <2>1. /\ SoloHilo("vuelta") /\ MismosCupos
        /\ UNCHANGED <<segundo, a_cpu, de_cpu, bloq, mano_io>>
    BY <1>a, <1>3 DEF AtiendeFinQuantum, AtiendeFinal, RechazaPedido, AtiendeOtroMotivo, Atiende,
       Paso, Toma, SueltaVuelta, Post, SoloHilo, MismosCupos, TypeHilos, Hilos, TypeSem, Semaforos
  <2>2. o \in Objs /\ EnMano("vuelta") = Uno(o) /\ EnMano("vuelta")' = <<>>
    BY <1>a, <1>3 DEF AtiendeFinQuantum, AtiendeFinal, RechazaPedido, AtiendeOtroMotivo, Atiende,
       Paso, Toma, SueltaVuelta, EnMano, Uno, YaEncolado, ManoVuelta, VueltaTiene, PasosVuelta,
       TypeHilos, Hilos
  <2>3. UNCHANGED PidDe
    <3>1. CASE AtiendeFinQuantum
      BY <1>a, <2>2, <3>1 DEF AtiendeFinQuantum, PidDe, TypeProcesos, PCB
    <3>2. CASE AtiendeFinal \/ RechazaPedido
      BY <1>a, <2>2, <3>2, MismosPid DEF AtiendeFinal, RechazaPedido
    <3>3. CASE AtiendeOtroMotivo BY <3>3 DEF AtiendeOtroMotivo, PidDe
    <3> QED BY <1>3, <3>1, <3>2, <3>3
  <2>4. x \in Numeros BY <1>a, <2>2 DEF PidDe, TypeProcesos, PCB, Numeros
  <2>5. Conserva BY <2>3, ConservaSi
  <2>6. UNCHANGED <<Enviando, Marcando>>
    BY <2>1 DEF SoloHilo, Enviando, Marcando, EnMano, Uno, YaEncolado, Hilos
  <2>7. Cede("EXEC", x) BY <2>1, <2>2, <2>3, <2>6, VueltaSuelta
  <2>8. CASE AtiendeFinQuantum
    <3>1. OtrasColas({"ready"}) /\ cola'["ready"] = Append(cola["ready"], o)
      BY <1>a, <2>8 DEF AtiendeFinQuantum, Empujar, OtrasColas, TypeColas, Colas
    <3>2. Gana("READY", x) BY <2>2, <2>3, <2>6, <3>1, EntraEnReady
    <3>3. Ajenas({"EXEC", "READY"}, {}) BY <2>1, <2>5, <3>1, Deja DEF Ajenas, Zonas, Hilos
    <3>4. Pasa(Zona("EXEC"), Zona("READY"), x) BY <2>7, <3>2, <3>3, PorZonas DEF Zonas
    <3> QED BY <2>1, <2>4, <3>4 DEF Mueve
  <2>9. CASE AtiendeFinal \/ RechazaPedido
    <3>1. OtrasColas({"exit"}) /\ cola'["exit"] = Append(cola["exit"], o)
      BY <1>a, <2>9 DEF AtiendeFinal, RechazaPedido, Empujar, OtrasColas, TypeColas, Colas
    <3>2. Gana("EXIT", x) BY <2>2, <2>3, <3>1, EntraEnExit
    <3>3. Ajenas({"EXEC", "EXIT"}, {}) BY <2>1, <2>5, <3>1, Deja DEF Ajenas, Zonas, Hilos
    <3>4. Pasa(Zona("EXEC"), Zona("EXIT"), x) BY <2>7, <3>2, <3>3, PorZonas DEF Zonas
    <3> QED BY <2>1, <2>4, <3>4 DEF Mueve
  <2>10. CASE AtiendeOtroMotivo
    <3>1. OtrasColas({}) /\ ret.motivo = "EXIT_CONSOLA"
      BY <2>10 DEF AtiendeOtroMotivo, Atiende, OtrasColas
    <3>2. Ajenas({"EXEC"}, {}) BY <2>1, <2>5, <3>1, Deja DEF Ajenas, Zonas, Hilos
    <3> QED BY <2>1, <2>7, <3>1, <3>2, PierdeSi DEF Zonas
  <2> QED BY <1>3, <2>8, <2>9, <2>10
<1>4. CASE EncolaEnInterfaz
  <2> DEFINE b == [o |-> mano["vuelta"], tipo |-> TipoPedido(ret.motivo)]
  <2>0. PICK i \in Interfaces : i = ret.interfaz
    BY <1>a, <1>4 DEF EncolaEnInterfaz, Paso, ManoVuelta
  <2>1. /\ SoloHilo("vuelta") /\ MismosCupos /\ OtrasColas({})
        /\ UNCHANGED <<segundo, a_cpu, de_cpu, mano_io>>
    BY <1>a, <1>4 DEF EncolaEnInterfaz, Paso, OtrasColas, SoloHilo, MismosCupos, TypeHilos, Hilos
  <2>2. o \in Objs /\ EnMano("vuelta") = Uno(o) /\ EnMano("vuelta")' = <<>>
    BY <1>a, <1>4 DEF EncolaEnInterfaz, Paso, EnMano, YaEncolado, ManoVuelta, VueltaTiene,
       PasosVuelta, TypeHilos, Hilos
  <2>3. UNCHANGED PidDe BY <1>a, <1>4, <2>2, MismosPid DEF EncolaEnInterfaz
  <2>4. x \in Numeros BY <1>a, <2>2 DEF PidDe, TypeProcesos, PCB, Numeros
  <2>5. Conserva BY <2>3, ConservaSi
  <2>6. UNCHANGED Enviando BY <2>1 DEF SoloHilo, Enviando, EnMano, Uno, YaEncolado, Hilos
  <2>7. Cede("EXEC", x) BY <2>1, <2>2, <2>3, <2>6, VueltaSuelta
  <2>8. CASE pc_io[i] = "liberada"
    <3>1. UNCHANGED bloq BY <1>4, <2>0, <2>8 DEF EncolaEnInterfaz
    <3>2. Ajenas({"EXEC"}, {}) BY <2>1, <2>5, <3>1, Deja DEF Ajenas, Zonas, Hilos
    <3> QED BY <2>1, <2>2, <2>7, <2>8, <3>2, PierdeSi DEF Zonas
  <2>9. CASE pc_io[i] # "liberada"
    <3>1. bloq'[i] = Append(bloq[i], b) /\ \A j \in Interfaces \ {i} : bloq'[j] = bloq[j]
      BY <1>a, <1>4, <2>0, <2>9 DEF EncolaEnInterfaz, TypeIO
    <3>2. Quienes(bloq'[i]) = Append(BloqDe(i), o)
      <4>1. b \in Bloque BY <2>2 DEF Bloque, TipoPedido, Tipos
      <4>2. bloq[i] \in Seq(Bloque) BY <1>a, <2>2 DEF TypeIO
      <4>3. b.o = o /\ \A e \in Bloque : e.o \in Objs BY DEF Bloque
      <4> HIDE DEF b
      <4> QED BY <3>1, <4>1, <4>2, <4>3, QuienesAgrega DEF BloqDe
    <3>3. ASSUME NEW p \in Numeros PROVE EnIO(i, p)' = EnIO(i, p) + Contar(p = x)
      <4>1. BloqDe(i) \in Seq(Objs) BY <2>2, PuestosTipo DEF Puestos
      <4>2. Cuantos(PidDe, p, Append(BloqDe(i), o)) = V(p, BloqDe(i)) + Contar(PidDe[o] = p)
        BY <2>2, <4>1, Agrega DEF V
      <4>3. V(p, BloqDe(i)) \in Nat /\ V(p, Uno(mano_io[i].o)) \in Nat
        BY <2>2, CuentasNaturales DEF Puestos
      <4>4. EnIO(i, p)' = Cuantos(PidDe, p, Quienes(bloq'[i])) + V(p, Uno(mano_io[i].o))
        <5>1. BloqDe(i)' = Quienes(bloq'[i]) BY DEF BloqDe
        <5>2. UNCHANGED Uno(mano_io[i].o) BY <2>1 DEF Uno
        <5> QED BY <2>3, <5>1, <5>2 DEF EnIO, V
      <4> QED BY <3>2, <4>2, <4>3, <4>4 DEF EnIO, Contar
    <3>4. Ajenas({"EXEC"}, {i}) BY <2>1, <2>5, <3>1, Deja DEF Ajenas, Zonas, Hilos
    <3>5. Pasa(Zona("EXEC"), DeIO(i), x)
      <4> HIDE DEF x
      <4> QED BY <2>2, <2>7, <3>3, <3>4, PorInterfaces DEF Zonas
    <3> QED BY <2>1, <2>2, <2>4, <3>5 DEF Mueve
  <2> QED BY <2>8, <2>9
<1>5. CASE InterfazLiberada BY <1>5, CaidaQueda DEF InterfazLiberada
<1> QED BY <1>1, <1>2, <1>3, <1>4, <1>5 DEF VueltaDispatch

\* manejar_wait and manejar_signal: the process waits for the resource, ends, or goes back
\* to the CPU as another PCB, and the one it wakes goes to READY.
LEMMA VueltaRecursoMueve ==
    ASSUME Tipado, Ociosos, SinAsignar, NoEsta(0), VueltaRecurso
    PROVE  \/ Queda \/ Mueve(Zona("EXEC"), Zona("EXIT")) \/ Mueve(Zona("EXEC"), Zona("BLOCKED"))
           \/ Mueve(Zona("BLOCKED"), Zona("READY"))
<1>a. TypeHilos /\ TypeSem /\ TypeColas /\ TypeProcesos /\ TypeCPU /\ ManoVuelta
  BY DEF Tipado, TypeOK, ManosOK
<1>b. \A q \in Colas : cola[q] \in Seq(Objs) BY <1>a DEF TypeColas
<1> DEFINE o == mano["vuelta"]
           x == PidDe[o]
<1>1. CASE LeeInstancias \/ EscribeInstancias \/ DecideRecurso \/ VuelveAExec \/ BloqueaPorRecurso
  <2>1. /\ SoloHilo("vuelta") /\ MismosCupos /\ OtrasColas({"exec", "block"})
        /\ UNCHANGED <<PidDe, segundo, a_cpu, de_cpu, bloq, mano_io>>
    BY <1>a, <1>1 DEF LeeInstancias, EscribeInstancias, DecideRecurso, VuelveAExec,
       BloqueaPorRecurso, Pide, Paso, Toma, SueltaVuelta, Empujar, OtrasColas, SoloHilo,
       MismosCupos, PidDe, TypeHilos, Hilos, TypeColas, Colas, TypeSem, Semaforos
  <2>2. UNCHANGED EnMano("vuelta")
    BY <1>a, <1>1 DEF LeeInstancias, EscribeInstancias, DecideRecurso, VuelveAExec,
       BloqueaPorRecurso, Pide, Paso, Toma, SueltaVuelta, EnMano, Uno, YaEncolado, TypeHilos, Hilos
  <2>3. MismasManos
    BY <2>1, <2>2 DEF SoloHilo, MismasManos, EnMano, YaEncolado, Marcando, Enviando, Hilos
  <2> QED BY <2>1, <2>3, Quietos DEF Queda
<1>2. CASE RecursoInvalido \/ EncolaEnRecurso
  <2>1. /\ SoloHilo("vuelta") /\ MismosCupos /\ UNCHANGED <<segundo, a_cpu, de_cpu, bloq, mano_io>>
    BY <1>a, <1>2 DEF RecursoInvalido, EncolaEnRecurso, Pide, Paso, Toma, SueltaVuelta, SoloHilo,
       MismosCupos, TypeHilos, Hilos, TypeSem, Semaforos
  <2>2. o \in Objs /\ EnMano("vuelta") = Uno(o) /\ EnMano("vuelta")' = <<>>
    BY <1>a, <1>2 DEF RecursoInvalido, EncolaEnRecurso, Pide, Paso, Toma, SueltaVuelta, EnMano, Uno,
       YaEncolado, ManoVuelta, VueltaTiene, PasosVuelta, TypeHilos, Hilos
  <2>3. UNCHANGED PidDe
    BY <1>a, <1>2, <2>2, MismosPid DEF RecursoInvalido, EncolaEnRecurso
  <2>4. x \in Numeros BY <1>a, <2>2 DEF PidDe, TypeProcesos, PCB, Numeros
  <2>5. Conserva BY <2>3, ConservaSi
  <2>6. UNCHANGED Enviando BY <2>1 DEF SoloHilo, Enviando, EnMano, Uno, YaEncolado, Hilos
  <2>7. Cede("EXEC", x) BY <2>1, <2>2, <2>3, <2>6, VueltaSuelta
  <2>8. CASE RecursoInvalido
    <3>1. OtrasColas({"exit"}) /\ cola'["exit"] = Append(cola["exit"], o)
      BY <1>a, <2>8 DEF RecursoInvalido, Empujar, OtrasColas, TypeColas, Colas
    <3>2. Gana("EXIT", x) BY <2>2, <2>3, <3>1, EntraEnExit
    <3>3. Ajenas({"EXEC", "EXIT"}, {}) BY <2>1, <2>5, <3>1, Deja DEF Ajenas, Zonas, Hilos
    <3>4. Pasa(Zona("EXEC"), Zona("EXIT"), x) BY <2>7, <3>2, <3>3, PorZonas DEF Zonas
    <3> QED BY <2>1, <2>4, <3>4 DEF Mueve
  <2>9. CASE EncolaEnRecurso
    <3>1. OtrasColas({"recurso"}) /\ cola'["recurso"] = Append(cola["recurso"], o)
      BY <1>a, <2>9 DEF EncolaEnRecurso, Empujar, OtrasColas, TypeColas, Colas
    <3>2. Gana("BLOCKED", x)
      <4> SUFFICES ASSUME NEW p \in Numeros
                   PROVE  EnZona("BLOCKED", p)' = EnZona("BLOCKED", p) + Contar(p = x)
        BY DEF Gana
      <4>1. cola["recurso"] \in Seq(Objs) BY <1>b DEF Colas
      <4>2. V(p, cola["recurso"])' = V(p, cola["recurso"]) + Contar(PidDe[o] = p)
        BY <2>2, <2>3, <3>1, <4>1, Agrega DEF V
      <4>3. /\ V(p, cola["recurso"]) \in Nat /\ V(p, Uno(segundo["salida"])) \in Nat
            /\ V(p, Uno(segundo["vuelta"])) \in Nat
        BY CuentasNaturales DEF Puestos, ColasVivas, Colas
      <4>4. /\ V(p, Uno(segundo["salida"]))' = V(p, Uno(segundo["salida"]))
            /\ V(p, Uno(segundo["vuelta"]))' = V(p, Uno(segundo["vuelta"]))
        BY <2>1, <2>3 DEF V, Uno
      <4> QED BY <4>2, <4>3, <4>4 DEF EnZona, Contar
    <3>3. Ajenas({"EXEC", "BLOCKED"}, {}) BY <2>1, <2>5, <3>1, Deja DEF Ajenas, Zonas, Hilos
    <3>4. Pasa(Zona("EXEC"), Zona("BLOCKED"), x) BY <2>7, <3>2, <3>3, PorZonas DEF Zonas
    <3> QED BY <2>1, <2>4, <3>4 DEF Mueve
  <2> QED BY <1>2, <2>8, <2>9
<1>3. CASE SacaDeRecurso
  <2>1. /\ SoloHilo("vuelta") /\ OtrasColas({"recurso"}) /\ MismosCupos
        /\ UNCHANGED <<PidDe, mano, a_cpu, de_cpu, bloq, mano_io>>
        /\ ~YaEncolado("vuelta") /\ ~YaEncolado("vuelta")'
    BY <1>a, <1>3 DEF SacaDeRecurso, Paso, Sacar, SoloHilo, OtrasColas, MismosCupos, PidDe,
       YaEncolado, TypeHilos, TypeColas, Colas, Hilos
  <2>2. Conserva BY <2>1, ConservaSi
  <2>3. /\ cola["recurso"] # <<>> /\ segundo["vuelta"] = Nulo
        /\ segundo'["vuelta"] = Head(cola["recurso"]) /\ segundo'["salida"] = segundo["salida"]
        /\ cola'["recurso"] = Tail(cola["recurso"])
    BY <1>a, <1>3 DEF SacaDeRecurso, Paso, Sacar, Resto, Ociosos, TypeHilos, Hilos, TypeColas, Colas
  <2>4. Igual("BLOCKED") BY <2>1, <2>3, SaleDelRecurso
  <2>5. UNCHANGED <<EnMano("vuelta"), Enviando>>
    BY <2>1 DEF SoloHilo, EnMano, Uno, YaEncolado, Enviando, Hilos
  <2>6. Igual("EXEC") BY <2>1, <2>5 DEF Igual, EnZona, V, DeLaCpu
  <2>7. Ajenas({}, {}) BY <2>1, <2>2, <2>4, <2>6, Deja DEF Ajenas, Zonas, Hilos
  <2> QED BY <2>1, <2>7, PorZonas DEF Queda
<1>4. CASE Desbloquea
  <2> DEFINE s == segundo["vuelta"]
             y == PidDe[s]
  <2>1. s \in Objs BY <1>a, <1>4 DEF Desbloquea, Paso, ManoVuelta
  <2> PICK v \in Vuelve("RECURSOVT", s) : CambiarEstado(s, v.estado) /\ Empujar(v.cola, s)
    BY <1>4 DEF Desbloquea
  <2> DEFINE q == v.cola
  <2>2. q \in {"ready", "ready_aux"} BY VuelveAReady
  <2>3. UNCHANGED PidDe BY <1>a, <2>1, MismosPid
  <2>4. /\ SoloHilo("vuelta") /\ OtrasColas({q}) /\ MismosCupos
        /\ UNCHANGED <<mano, a_cpu, de_cpu, bloq, mano_io>>
        /\ ~YaEncolado("vuelta") /\ ~YaEncolado("vuelta")'
    BY <1>a, <1>4 DEF Desbloquea, Paso, Post, Empujar, SoloHilo, OtrasColas, MismosCupos,
       YaEncolado, TypeHilos, TypeColas, Colas, Hilos, TypeSem, Semaforos
  <2>5. /\ cola'[q] = Append(cola[q], s) /\ segundo'["vuelta"] = Nulo
        /\ segundo'["salida"] = segundo["salida"]
    BY <1>a, <1>4, <2>2 DEF Desbloquea, Empujar, TypeHilos, TypeColas, Colas
  <2>6. Conserva BY <2>3, ConservaSi
  <2>7. y \in Numeros BY <1>a, <2>1 DEF PidDe, TypeProcesos, PCB, Numeros
  <2>8. UNCHANGED <<EnMano("vuelta"), Marcando, Enviando>>
    BY <2>4 DEF SoloHilo, EnMano, Uno, YaEncolado, Marcando, Enviando, Hilos
  <2>9. Gana("READY", y) BY <2>1, <2>2, <2>3, <2>4, <2>5, <2>8, EntraEnReady
  <2>10. Cede("BLOCKED", y)
    <3>1. UNCHANGED cola["recurso"] BY <2>2, <2>4 DEF OtrasColas, Colas
    <3> QED BY <2>1, <2>3, <2>5, <3>1, DejaElRecurso
  <2>11. Igual("EXEC") BY <2>3, <2>4, <2>8 DEF Igual, EnZona, V, DeLaCpu
  <2>12. Ajenas({"BLOCKED", "READY"}, {})
    BY <2>2, <2>4, <2>6, <2>11, Deja DEF Ajenas, Zonas, Hilos
  <2>13. Pasa(Zona("BLOCKED"), Zona("READY"), y) BY <2>9, <2>10, <2>12, PorZonas DEF Zonas
  <2> QED BY <2>4, <2>7, <2>13 DEF Mueve
<1>5. CASE Reenvia
  <2>1. o \in Objs /\ libre \in Objs
    BY <1>a, <1>5 DEF Reenvia, EnviarPCB, Paso, ManoVuelta, VueltaTiene, PasosVuelta
  <2>2. PidDe'[libre] = PidDe[o] /\ \A a \in Objs \ {libre} : PidDe'[a] = PidDe[a]
    BY <1>5, <2>1, PidDeEnviado DEF Reenvia
  <2>3. /\ SoloHilo("vuelta") /\ MismosCupos /\ OtrasColas({})
        /\ UNCHANGED <<segundo, de_cpu, bloq, mano_io>>
        /\ a_cpu' = Append(a_cpu, libre)
    BY <1>a, <1>5 DEF Reenvia, EnviarPCB, Paso, Toma, SueltaVuelta, Post, OtrasColas, SoloHilo,
       MismosCupos, TypeHilos, Hilos, TypeSem, Semaforos
  <2>4. EnMano("vuelta") = Uno(o) /\ EnMano("vuelta")' = <<>>
    BY <1>a, <1>5 DEF Reenvia, Paso, Toma, SueltaVuelta, EnMano, Uno, YaEncolado, TypeHilos, Hilos
  <2>5. Conserva BY <2>1, <2>2, ConservaSi
  <2>6. Igual("EXEC")
    <3> SUFFICES ASSUME NEW p \in Numeros PROVE EnZona("EXEC", p)' = EnZona("EXEC", p)
      BY DEF Igual
    <3>1. V(p, EnMano("vuelta")) = Contar(PidDe[o] = p) /\ V(p, EnMano("vuelta"))' = 0
      BY <2>1, <2>4, EnUno, CuantosNada DEF V
    <3>2. V(p, a_cpu) \in Nat /\ V(p, DeLaCpu) \in Nat /\ V(p, Enviando) \in Nat
      BY CuentasNaturales DEF Puestos
    <3>3. UNCHANGED <<Enviando, DeLaCpu>>
      BY <2>3 DEF SoloHilo, EnMano, Uno, YaEncolado, Enviando, Hilos, DeLaCpu
    <3>4. V(p, DeLaCpu)' = V(p, DeLaCpu) /\ V(p, Enviando)' = V(p, Enviando)
      BY <2>5, <3>3 DEF V, Conserva, Puestos
    <3>5. Cuantos(PidDe', p, Append(a_cpu, libre))
            = Cuantos(PidDe', p, a_cpu) + Contar(PidDe'[libre] = p)
      BY <1>a, <2>1, CuantosAgrega DEF TypeCPU
    <3>6. V(p, a_cpu)' = V(p, a_cpu) + Contar(PidDe[o] = p)
      BY <2>2, <2>3, <2>5, <3>5 DEF V, Conserva, Puestos
    <3> QED BY <3>1, <3>2, <3>4, <3>6 DEF EnZona, Contar
  <2>7. Ajenas({}, {}) BY <2>3, <2>5, <2>6, Deja DEF Ajenas, Zonas, Hilos
  <2> QED BY <2>3, <2>7, PorZonas DEF Queda
<1>6. CASE RecursoVacio \/ DesbloqueaLeeSinAsignar
  BY <1>6, CaidaQueda DEF RecursoVacio, DesbloqueaLeeSinAsignar
<1> QED BY <1>1, <1>2, <1>3, <1>4, <1>5, <1>6 DEF VueltaRecurso

\* An interface thread leaves alone the other threads and the other interfaces.
LEMMA DejaIO ==
    ASSUME Tipado, UNCHANGED <<PidDe, hilos, a_cpu, de_cpu>>, NEW Q, OtrasColas(Q),
           NEW i \in Interfaces, \A j \in Interfaces \ {i} : bloq'[j] = bloq[j] /\ mano_io'[j] = mano_io[j]
    PROVE  /\ "ready" \notin Q /\ "ready_aux" \notin Q /\ "exit" \notin Q
                /\ {"new", "recurso", "liberados"} \cap Q = {} => Ajenas({}, {i})
           /\ Q \in {{"ready"}, {"ready_aux"}} => Ajenas({"READY"}, {i})
           /\ Q = {"exit"} => Ajenas({"EXIT"}, {i})
<1>1. Conserva BY ConservaSi
<1>2. SoloHilo("consola") /\ SoloHilo("vuelta") BY DEF SoloHilo
<1>3. \A j \in Interfaces \ {i} : IgualIO(j) BY <1>1, <1>2, Deja DEF Hilos
<1>4. "new" \notin Q => Igual("NEW") BY <1>1, <1>2, Deja DEF Hilos
<1>5. /\ "ready" \notin Q /\ "ready_aux" \notin Q => Igual("READY")
      /\ Igual("EXEC") /\ Igual("LIBERANDO")
      /\ "recurso" \notin Q => Igual("BLOCKED")
      /\ "exit" \notin Q => Igual("EXIT")
      /\ "liberados" \notin Q => Igual("FIN")
  BY <1>1, <1>2, Deja DEF Hilos
<1> QED BY <1>3, <1>4, <1>5 DEF Ajenas, Zonas

\* What an interface has counts the list of its requests and the one in its hand.
LEMMA CuentaIO ==
    ASSUME Tipado, NEW i \in Interfaces, UNCHANGED PidDe, NEW p \in Numeros
    PROVE  /\ EnIO(i, p) = Cuantos(PidDe, p, Quienes(bloq[i])) + Cuantos(PidDe, p, Uno(mano_io[i].o))
           /\ EnIO(i, p)' = Cuantos(PidDe, p, Quienes(bloq'[i]))
                              + Cuantos(PidDe, p, Uno(mano_io'[i].o))
           /\ Cuantos(PidDe, p, Quienes(bloq[i])) \in Nat
           /\ Cuantos(PidDe, p, Uno(mano_io[i].o)) \in Nat
           /\ Quienes(bloq[i]) \in Seq(Objs)
<1>1. BloqDe(i) \in Puestos /\ Uno(mano_io[i].o) \in Puestos BY DEF Puestos
<1>2. BloqDe(i)' = Quienes(bloq'[i]) /\ Uno(mano_io[i].o)' = Uno(mano_io'[i].o) BY DEF BloqDe, Uno
<1>3. V(p, BloqDe(i)) \in Nat /\ V(p, Uno(mano_io[i].o)) \in Nat BY <1>1, CuentasNaturales
<1>4. Quienes(bloq[i]) \in Seq(Objs) BY <1>1, PuestosTipo DEF BloqDe
<1>5. EnIO(i, p) = Cuantos(PidDe, p, Quienes(bloq[i])) + Cuantos(PidDe, p, Uno(mano_io[i].o))
  BY DEF EnIO, V, BloqDe
<1>6. EnIO(i, p)' = Cuantos(PidDe, p, Quienes(bloq'[i])) + Cuantos(PidDe, p, Uno(mano_io'[i].o))
  BY <1>2 DEF EnIO, V
<1> QED BY <1>3, <1>4, <1>5, <1>6 DEF V, BloqDe

LEMMA SueltaIO ==
    ASSUME Tipado, NEW i \in Interfaces, UNCHANGED <<PidDe, bloq>>, NEW o \in Objs,
           mano_io[i].o = o, mano_io'[i] = SinBloque
    PROVE  \A p \in Numeros : EnIO(i, p)' = EnIO(i, p) - Contar(p = PidDe[o])
<1> SUFFICES ASSUME NEW p \in Numeros PROVE EnIO(i, p)' = EnIO(i, p) - Contar(p = PidDe[o])
  OBVIOUS
<1>1. Uno(mano_io'[i].o) = <<>> BY DEF Uno, SinBloque
<1>2. Cuantos(PidDe, p, Uno(mano_io'[i].o)) = 0 BY <1>1, CuantosNada
<1>3. Cuantos(PidDe, p, Uno(mano_io[i].o)) = Contar(PidDe[o] = p) BY EnUno
<1> QED BY <1>2, <1>3, CuentaIO DEF Contar

\* procesar_conexion_interfaz and liberar_datos_interfaz: a request answered sends its
\* process to READY or to EXIT, and so does tearing the interface down.
LEMMA InterfazMueve ==
    ASSUME Tipado, Ociosos, NEW i \in Interfaces, AtiendeInterfaz(i)
    PROVE  \/ Queda \/ Mueve(DeIO(i), Zona("READY")) \/ Mueve(DeIO(i), Zona("EXIT"))
           \/ /\ MismosCupos /\ Pierde
              /\ \/ Tipo[i] = "GENERICA" /\ 0 \in RespuestasIO
                 \/ pc_io[i] = "destruye"
<1>a. TypeSem /\ TypeColas /\ TypeProcesos /\ TypeIO /\ ManoIO BY DEF Tipado, TypeOK, ManosOK
<1>b. /\ mano_io[i] \in Bloque \cup {SinBloque} /\ bloq[i] \in Seq(Bloque)
      /\ \A e \in Bloque : e.o \in Objs
  BY <1>a DEF TypeIO, Bloque
<1>1. CASE IOMiraPlan(i) \/ IOEnvia(i) \/ IORecibe(i) \/ IOQuitaInterfaz(i) \/ IOVaciaFin(i)
  <2>1. MismosCupos /\ UNCHANGED <<PidDe, hilos, cola, a_cpu, de_cpu, bloq, mano_io>>
    BY <1>1 DEF IOMiraPlan, IOEnvia, IORecibe, IOQuitaInterfaz, IOVaciaFin, MismosCupos, PidDe
  <2>2. MismasManos /\ OtrasColas({"exec", "block"})
    BY <2>1 DEF MismasManos, EnMano, Uno, YaEncolado, Marcando, Enviando, OtrasColas
  <2> QED BY <2>1, <2>2, Quietos DEF Queda
<1>2. CASE IOToma(i) \/ IODevuelve(i)
  <2>1. /\ MismosCupos /\ OtrasColas({}) /\ UNCHANGED <<PidDe, hilos, a_cpu, de_cpu>>
        /\ \A j \in Interfaces \ {i} : bloq'[j] = bloq[j] /\ mano_io'[j] = mano_io[j]
    BY <1>a, <1>2 DEF IOToma, IODevuelve, TomaIO, MismosCupos, OtrasColas, PidDe, TypeIO
  <2>2. ASSUME NEW p \in Numeros PROVE EnIO(i, p)' = EnIO(i, p)
    <3>1. CASE IOToma(i)
      <4>1. /\ bloq[i] # <<>> /\ bloq'[i] = Tail(bloq[i]) /\ mano_io'[i] = Head(bloq[i])
            /\ mano_io[i] = SinBloque
        BY <1>a, <3>1 DEF IOToma, TomaIO, PasoIO, Ociosos, TypeIO
      <4>2. /\ Quienes(bloq[i]) # <<>> /\ Head(Quienes(bloq[i])) = Head(bloq[i]).o
            /\ Quienes(bloq'[i]) = Tail(Quienes(bloq[i]))
        BY <1>b, <4>1, QuienesSaca
      <4>3. Quienes(bloq[i]) \in Seq(Objs) BY <2>1, CuentaIO
      <4>4. Cuantos(PidDe, p, Quienes(bloq[i])) = Contar(PidDe[Head(bloq[i]).o] = p)
                                                    + Cuantos(PidDe, p, Quienes(bloq'[i]))
        BY <4>2, <4>3, CuantosSaca
      <4>5. Head(bloq[i]).o \in Objs /\ Tail(Quienes(bloq[i])) \in Seq(Objs) BY <4>2, <4>3
      <4>6. Cuantos(PidDe, p, Quienes(bloq'[i])) \in Nat BY <4>2, <4>5, CuantosNatural
      <4>7. Cuantos(PidDe, p, Uno(mano_io'[i].o)) = Contar(PidDe[Head(bloq[i]).o] = p)
        BY <4>1, <4>5, EnUno
      <4>8. Uno(mano_io[i].o) = <<>> BY <4>1 DEF Uno, SinBloque
      <4>9. Cuantos(PidDe, p, Uno(mano_io[i].o)) = 0 BY <4>8, CuantosNada
      <4> QED BY <2>1, <4>4, <4>6, <4>7, <4>9, CuentaIO DEF Contar
    <3>2. CASE IODevuelve(i)
      <4>1. /\ mano_io[i] \in Bloque /\ mano_io'[i] = SinBloque
            /\ bloq'[i] = Append(bloq[i], mano_io[i])
        BY <1>a, <3>2 DEF IODevuelve, TomaIO, PasoIO, ManoIO, TypeIO
      <4>2. Quienes(bloq'[i]) = Append(Quienes(bloq[i]), mano_io[i].o)
        BY <1>b, <4>1, QuienesAgrega
      <4>3. Quienes(bloq[i]) \in Seq(Objs) BY <2>1, CuentaIO
      <4>4. Cuantos(PidDe, p, Quienes(bloq'[i]))
              = Cuantos(PidDe, p, Quienes(bloq[i])) + Contar(PidDe[mano_io[i].o] = p)
        BY <1>b, <4>1, <4>2, <4>3, Agrega
      <4>5. Cuantos(PidDe, p, Uno(mano_io[i].o)) = Contar(PidDe[mano_io[i].o] = p)
        BY <1>b, <4>1, EnUno
      <4>6. Uno(mano_io'[i].o) = <<>> BY <4>1 DEF Uno, SinBloque
      <4>7. Cuantos(PidDe, p, Uno(mano_io'[i].o)) = 0 BY <4>6, CuantosNada
      <4> QED BY <2>1, <4>4, <4>5, <4>7, CuentaIO DEF Contar
    <3> QED BY <1>2, <3>1, <3>2
  <2>3. Ajenas({}, {i}) BY <2>1, DejaIO
  <2>4. Ajenas({}, {}) BY <2>2, <2>3 DEF Ajenas, IgualIO
  <2> QED BY <2>1, <2>4, PorZonas DEF Queda
<1>3. CASE IORecibeCeroGenerica(i) \/ IODestruye(i)
  <2>1. /\ MismosCupos /\ OtrasColas({}) /\ UNCHANGED <<PidDe, hilos, a_cpu, de_cpu>>
        /\ \A j \in Interfaces \ {i} : bloq'[j] = bloq[j] /\ mano_io'[j] = mano_io[j]
    BY <1>a, <1>3 DEF IORecibeCeroGenerica, IODestruye, TomaIO, MismosCupos, OtrasColas, PidDe, TypeIO
  <2>2. ASSUME NEW p \in Numeros PROVE EnIO(i, p)' <= EnIO(i, p)
    <3>1. CASE IORecibeCeroGenerica(i)
      <4>1. bloq'[i] = bloq[i] /\ mano_io'[i] = SinBloque
        BY <1>a, <3>1 DEF IORecibeCeroGenerica, TomaIO, TypeIO
      <4>2. Uno(mano_io'[i].o) = <<>> BY <4>1 DEF Uno, SinBloque
      <4>3. Cuantos(PidDe, p, Uno(mano_io'[i].o)) = 0 BY <4>2, CuantosNada
      <4> QED BY <2>1, <4>1, <4>3, CuentaIO
    <3>2. CASE IODestruye(i)
      <4>1. bloq'[i] = <<>> /\ mano_io'[i] = mano_io[i]
        BY <1>a, <3>2 DEF IODestruye, TypeIO
      <4>2. Quienes(<<>>) = <<>> BY DEF Quienes
      <4>3. Cuantos(PidDe, p, Quienes(bloq'[i])) = 0 BY <4>1, <4>2, CuantosNada
      <4> QED BY <2>1, <4>1, <4>3, CuentaIO
    <3> QED BY <1>3, <3>1, <3>2
  <2>3. Ajenas({}, {i}) BY <2>1, DejaIO
  <2>4. Pierde
    <3> SUFFICES ASSUME NEW s \in Sitios, NEW p \in Numeros PROVE En(s, p)' <= En(s, p)
      BY DEF Pierde
    <3>1. En(s, p) \in Nat BY CuentasNaturales
    <3>2. /\ \A z \in Zonas : En(Zona(z), p)' = EnZona(z, p)' /\ En(Zona(z), p) = EnZona(z, p)
          /\ \A j \in Interfaces : En(DeIO(j), p)' = EnIO(j, p)' /\ En(DeIO(j), p) = EnIO(j, p)
      BY SitiosSon, SitiosLuego
    <3> QED BY <2>2, <2>3, <3>1, <3>2 DEF Ajenas, Igual, IgualIO, Sitios
  <2>5. (Tipo[i] = "GENERICA" /\ 0 \in RespuestasIO) \/ pc_io[i] = "destruye"
    BY <1>3 DEF IORecibeCeroGenerica, IODestruye, PasoIO
  <2> QED BY <2>1, <2>4, <2>5
<1>4. CASE IOVuelve(i)
  <2> DEFINE o == mano_io[i].o
             x == PidDe[o]
  <2>1. mano_io[i] \in Bloque BY <1>a, <1>4 DEF IOVuelve, PasoIO, ManoIO
  <2>2. o \in Objs /\ x \in Numeros BY <1>a, <1>b, <2>1 DEF PidDe, TypeProcesos, PCB, Numeros
  <2> PICK v \in Vuelve(Tipo[i], o) : CambiarEstado(o, v.estado) /\ Empujar(v.cola, o)
    BY <1>4 DEF IOVuelve
  <2> DEFINE q == v.cola
  <2>3. q \in {"ready", "ready_aux"} BY VuelveAReady
  <2>4. UNCHANGED PidDe BY <1>a, <2>2, MismosPid
  <2>5. /\ MismosCupos /\ OtrasColas({q}) /\ UNCHANGED <<hilos, a_cpu, de_cpu, bloq>>
        /\ mano_io'[i] = SinBloque /\ \A j \in Interfaces \ {i} : mano_io'[j] = mano_io[j]
    BY <1>a, <1>4 DEF IOVuelve, TomaIO, Post, Empujar, MismosCupos, OtrasColas, TypeIO, TypeColas,
       Colas, TypeSem, Semaforos
  <2>6. cola'[q] = Append(cola[q], o) BY <1>a, <2>3 DEF Empujar, TypeColas, Colas
  <2>7. UNCHANGED Marcando BY <2>5 DEF Marcando, EnMano, Uno, YaEncolado
  <2>8. Gana("READY", x) BY <2>2, <2>3, <2>4, <2>5, <2>6, <2>7, EntraEnReady
  <2>9. \A p \in Numeros : EnIO(i, p)' = EnIO(i, p) - Contar(p = x) BY <2>2, <2>4, <2>5, SueltaIO
  <2>10. Ajenas({"READY"}, {i}) BY <2>3, <2>4, <2>5, DejaIO
  <2>11. Pasa(DeIO(i), Zona("READY"), x)
    <3> HIDE DEF x
    <3> QED BY <2>8, <2>9, <2>10, PorInterfaces DEF Zonas
  <2> QED BY <2>2, <2>5, <2>11 DEF Mueve
<1>5. CASE IOFinaliza(i)
  <2> DEFINE o == mano_io[i].o
             x == PidDe[o]
  <2>1. mano_io[i] \in Bloque BY <1>a, <1>5 DEF IOFinaliza, PasoIO, ManoIO
  <2>2. o \in Objs /\ x \in Numeros BY <1>a, <1>b, <2>1 DEF PidDe, TypeProcesos, PCB, Numeros
  <2>3. /\ MismosCupos /\ OtrasColas({"exit"}) /\ UNCHANGED <<PidDe, hilos, a_cpu, de_cpu, bloq>>
        /\ mano_io'[i] = SinBloque /\ \A j \in Interfaces \ {i} : mano_io'[j] = mano_io[j]
        /\ cola'["exit"] = Append(cola["exit"], o)
    BY <1>a, <1>5 DEF IOFinaliza, TomaIO, Post, Empujar, MismosCupos, OtrasColas, PidDe, TypeIO,
       TypeColas, Colas, TypeSem, Semaforos
  <2>4. Gana("EXIT", x) BY <2>2, <2>3, EntraEnExit
  <2>5. \A p \in Numeros : EnIO(i, p)' = EnIO(i, p) - Contar(p = x) BY <2>2, <2>3, SueltaIO
  <2>6. Ajenas({"EXIT"}, {i}) BY <2>3, DejaIO
  <2>7. Pasa(DeIO(i), Zona("EXIT"), x)
    <3> HIDE DEF x
    <3> QED BY <2>4, <2>5, <2>6, PorInterfaces DEF Zonas
  <2> QED BY <2>2, <2>3, <2>7 DEF Mueve
<1>6. CASE IOVacia(i)
  <2> DEFINE o == Head(bloq[i]).o
             x == PidDe[o]
  <2>1. bloq[i] # <<>> BY <1>6 DEF IOVacia
  <2>2. /\ Quienes(bloq[i]) # <<>> /\ Head(Quienes(bloq[i])) = o
        /\ Quienes(Tail(bloq[i])) = Tail(Quienes(bloq[i]))
    BY <1>b, <2>1, QuienesSaca
  <2>3. Head(bloq[i]) \in Bloque BY <1>b, <2>1
  <2>4. o \in Objs /\ x \in Numeros BY <1>a, <1>b, <2>3 DEF PidDe, TypeProcesos, PCB, Numeros
  <2>5. UNCHANGED PidDe BY <1>a, <1>6, <2>4, MismosPid DEF IOVacia
  <2>6. /\ MismosCupos /\ OtrasColas({"exit"}) /\ UNCHANGED <<hilos, a_cpu, de_cpu, mano_io>>
        /\ bloq'[i] = Tail(bloq[i]) /\ \A j \in Interfaces \ {i} : bloq'[j] = bloq[j]
        /\ cola'["exit"] = Append(cola["exit"], o)
    BY <1>a, <1>6 DEF IOVacia, Post, Empujar, MismosCupos, OtrasColas, TypeIO, TypeColas, Colas,
       TypeSem, Semaforos
  <2>7. Gana("EXIT", x) BY <2>4, <2>5, <2>6, EntraEnExit
  <2>8. ASSUME NEW p \in Numeros PROVE EnIO(i, p)' = EnIO(i, p) - Contar(p = x)
    <3>1. Quienes(bloq[i]) \in Seq(Objs) BY <2>5, CuentaIO
    <3>5. Cuantos(PidDe, p, Quienes(bloq[i])) = Contar(PidDe[Head(Quienes(bloq[i]))] = p)
                                                  + Cuantos(PidDe, p, Tail(Quienes(bloq[i])))
      BY <2>2, <3>1, CuantosSaca
    <3>2. Cuantos(PidDe, p, Quienes(bloq[i])) = Contar(PidDe[o] = p)
                                                  + Cuantos(PidDe, p, Quienes(bloq'[i]))
      BY <2>2, <2>6, <3>5
    <3>3. Tail(Quienes(bloq[i])) \in Seq(Objs) BY <2>2, <3>1
    <3>4. Cuantos(PidDe, p, Quienes(bloq'[i])) \in Nat BY <2>2, <2>6, <3>3, CuantosNatural
    <3> QED BY <2>5, <2>6, <3>2, <3>4, CuentaIO DEF Contar
  <2>9. Ajenas({"EXIT"}, {i}) BY <2>5, <2>6, DejaIO
  <2>10. Pasa(DeIO(i), Zona("EXIT"), x)
    <3> HIDE DEF x
    <3> QED BY <2>7, <2>8, <2>9, PorInterfaces DEF Zonas
  <2> QED BY <2>4, <2>6, <2>10 DEF Mueve
<1>7. CASE IOConfundeTipo(i) \/ IOVuelveLeeSinAsignar(i) \/ IOUsaLiberada(i)
  BY <1>7, CaidaQueda DEF IOConfundeTipo, IOVuelveLeeSinAsignar, IOUsaLiberada
<1> QED BY <1>1, <1>2, <1>3, <1>4, <1>5, <1>6, <1>7 DEF AtiendeInterfaz

\* iniciar_consola with no FINALIZAR_PROCESO: INICIAR_PROCESO brings a PID that nobody has,
\* MULTIPROGRAMACION moves slots and processes stay where they are.
LEMMA ConsolaMueve ==
    ASSUME Base, Ociosos, SinAsignar, NoEsta(0), NadieMata, "FINALIZAR_PROCESO" \notin Comandos,
           Consola
    PROVE  Queda \/ Crea \/ CambiaGrado
<1>a. TypeHilos /\ TypeSem /\ TypeColas /\ TypeProcesos /\ ManoConsola /\ HilosCreados /\ Tipado
  BY DEF Base, Tipado, TypeOK, ManosOK
<1>1. CASE \/ ConsolaPideMemoria \/ ConsolaRecibeMemoria \/ DetenerPlanificacion
           \/ CambiarMultiprogramacion \/ TerminaGrado \/ SubeGrado \/ BajaGrado
  <2>1. /\ SoloHilo("consola") /\ UNCHANGED generador_pid
        /\ UNCHANGED <<pcb, cola, mano, segundo, a_cpu, de_cpu, bloq, mano_io>>
        /\ ~YaEncolado("consola") /\ ~YaEncolado("consola")'
    BY <1>a, <1>1 DEF ConsolaPideMemoria, ConsolaRecibeMemoria, DetenerPlanificacion, SubeGrado,
       CambiarMultiprogramacion, TerminaGrado, BajaGrado, Paso, SoloHilo, YaEncolado, TypeHilos,
       Hilos
  <2>2. MismasManos
    BY <2>1 DEF SoloHilo, MismasManos, EnMano, YaEncolado, Marcando, Enviando, Hilos
  <2>3. OtrasColas({"exec", "block"}) /\ UNCHANGED PidDe BY <2>1 DEF OtrasColas, PidDe
  <2>4. Reposa BY <2>1, <2>2, <2>3, Quietos
  <2>5. CASE SubeGrado \/ BajaGrado
    BY <1>a, <2>1, <2>4, <2>5 DEF SubeGrado, BajaGrado, Post, Wait, TypeSem, Semaforos, CambiaGrado
  <2>6. CASE ~(SubeGrado \/ BajaGrado)
    <3>1. UNCHANGED <<sem, grado>>
      BY <1>1, <2>6 DEF ConsolaPideMemoria, ConsolaRecibeMemoria, DetenerPlanificacion,
         CambiarMultiprogramacion, TerminaGrado
    <3> QED BY <2>1, <2>4, <3>1 DEF Queda, MismosCupos
  <2> QED BY <2>5, <2>6
<1>2. CASE IniciarPlanificacion
  <2>1. UNCHANGED <<procesos, cola, mano, segundo, sem, grado, a_cpu, de_cpu, bloq, mano_io>>
    BY <1>2 DEF IniciarPlanificacion
  <2>2. \A h \in Hilos : \/ pc'[h] = pc[h]
                         \/ pc[h] = "sin_crear" /\ pc'[h] \in {"espera_new", "tope"}
    <3>1. CASE esta_planificando BY <1>2, <3>1 DEF IniciarPlanificacion
    <3>2. CASE ~esta_planificando
      <4>1. \A h \in Hilos \ {"consola"} : pc[h] = "sin_crear" BY <1>a, <3>2 DEF HilosCreados
      <4>2. pc' = [pc EXCEPT !["largo"] = "espera_new", !["salida"] = "tope",
                             !["despachador"] = "tope", !["vuelta"] = "tope"]
        BY <1>2, <3>2 DEF IniciarPlanificacion
      <4> QED BY <1>a, <4>1, <4>2 DEF TypeHilos, Hilos
    <3> QED BY <3>1, <3>2
  <2>3. MismasManos
    BY <2>1, <2>2 DEF MismasManos, EnMano, YaEncolado, Marcando, Enviando, Hilos
  <2>4. OtrasColas({"exec", "block"}) /\ UNCHANGED PidDe BY <2>1 DEF OtrasColas, PidDe
  <2> QED BY <2>1, <2>3, <2>4, Quietos DEF Queda, MismosCupos
<1>3. CASE EncolaEnNew
  <2> DEFINE o == mano["consola"]
  <2>1. /\ SoloHilo("consola") /\ OtrasColas({"new"}) /\ MismosCupos
        /\ UNCHANGED <<PidDe, segundo, a_cpu, de_cpu, bloq, mano_io>>
    BY <1>a, <1>3 DEF EncolaEnNew, Paso, Toma, Post, Empujar, SoloHilo, OtrasColas, MismosCupos,
       PidDe, TypeHilos, TypeSem, Semaforos, TypeColas, Colas
  <2>2. /\ o \in Objs /\ EnMano("consola") = Uno(o) /\ EnMano("consola")' = <<>>
        /\ cola'["new"] = Append(cola["new"], o) /\ cola["new"] \in Seq(Objs)
    BY <1>a, <1>3 DEF EncolaEnNew, Paso, Toma, Empujar, ManoConsola, EnMano, YaEncolado, Uno,
       TypeHilos, Hilos, TypeColas, Colas
  <2>3. Conserva BY <1>a, <2>1, ConservaSi
  <2>4. UNCHANGED EnMano("largo") BY <1>a, <2>1, <2>3, Deja DEF Hilos
  <2>5. Igual("NEW")
    <3> SUFFICES ASSUME NEW p \in Numeros PROVE EnZona("NEW", p)' = EnZona("NEW", p)
      BY DEF Igual
    <3>1. V(p, EnMano("largo")) \in Nat BY <1>a, CuentasNaturales DEF Puestos
    <3>2. V(p, EnMano("consola")) = Contar(PidDe[o] = p) BY <2>2, EnUno DEF V
    <3>3. V(p, EnMano("consola"))' = 0 BY <2>2, CuantosNada DEF V
    <3>4. /\ V(p, cola["new"])' = V(p, cola["new"]) + Contar(PidDe[o] = p)
          /\ V(p, cola["new"]) \in Nat
      BY <2>1, <2>2, Agrega DEF V
    <3>5. V(p, EnMano("largo"))' = V(p, EnMano("largo")) BY <2>1, <2>4 DEF V
    <3> QED BY <3>1, <3>2, <3>3, <3>4, <3>5 DEF EnZona, Contar
  <2>6. Ajenas({}, {}) BY <1>a, <2>1, <2>3, <2>5, Deja DEF Ajenas, Zonas, Hilos
  <2> QED BY <2>1, <2>6, PorZonas DEF Queda
<1>4. CASE IniciarProceso
  <2> DEFINE x == generador_pid + 1
  <2>1. /\ SoloHilo("consola") /\ OtrasColas({})
        /\ UNCHANGED <<cola, segundo, a_cpu, de_cpu, bloq, mano_io, sem, grado>>
        /\ generador_pid' = x /\ libre \in Objs
    BY <1>a, <1>4 DEF IniciarProceso, Paso, Toma, SoloHilo, OtrasColas, TypeHilos
  <2>2. PidDe'[libre] = x /\ \A a \in Objs \ {libre} : PidDe'[a] = PidDe[a]
    BY <1>a, <1>4 DEF IniciarProceso, PidDe, TypeProcesos
  <2>3. Conserva BY <1>a, <2>1, <2>2, ConservaSi
  <2>4. EnMano("consola") = <<>> /\ EnMano("consola")' = Uno(libre)
    BY <1>a, <1>4 DEF IniciarProceso, Paso, Toma, Ociosos, EnMano, YaEncolado, Uno, TypeHilos, Hilos
  <2>5. UNCHANGED EnMano("largo") BY <1>a, <2>1, <2>3, Deja DEF Hilos
  <2>6. Gana("NEW", x)
    <3> SUFFICES ASSUME NEW p \in Numeros
                 PROVE  EnZona("NEW", p)' = EnZona("NEW", p) + Contar(p = x)
      BY DEF Gana
    <3>1. V(p, EnMano("largo")) \in Nat /\ V(p, cola["new"]) \in Nat
      BY <1>a, CuentasNaturales DEF Puestos, ColasVivas, Colas
    <3>2. V(p, EnMano("consola")) = 0 BY <2>4, CuantosNada DEF V
    <3>3. Cuantos(PidDe', p, Uno(libre)) = Contar(x = p) BY <2>1, <2>2, EnUno
    <3>4. V(p, EnMano("consola"))' = Contar(x = p) BY <2>4, <3>3 DEF V
    <3>5. /\ V(p, EnMano("largo"))' = V(p, EnMano("largo"))
          /\ V(p, cola["new"])' = V(p, cola["new"])
      BY <2>1, <2>3, <2>5 DEF V, Conserva, Puestos, ColasVivas, Colas
    <3> QED BY <3>1, <3>2, <3>4, <3>5 DEF EnZona, Contar
  <2>7. Ajenas({"NEW"}, {}) BY <1>a, <2>1, <2>3, Deja DEF Ajenas, Zonas, Hilos
  <2>8. Nace(Zona("NEW"), x)
    <3> HIDE DEF x
    <3> QED BY <2>6, <2>7, PorZonas DEF Zonas
  <2> QED BY <2>1, <2>8 DEF Crea
<1>5. CASE \/ FinalizarProceso \/ BuscaEncuentra \/ BuscaSigue \/ Quita \/ QuitaFueraDeRango
           \/ NoHalladoSigue \/ NoHalladoFalla \/ InterrumpePorConsola \/ DecideSacar
           \/ FinalizaAExit
  BY <1>5 DEF NadieMata, FinalizarProceso, Ordena, BuscaEncuentra, BuscaSigue, Quita, Paso,
     QuitaFueraDeRango, NoHalladoSigue, NoHalladoFalla, InterrumpePorConsola, DecideSacar,
     FinalizaAExit
<1> QED BY <1>1, <1>2, <1>3, <1>4, <1>5 DEF Consola

\* The peers move no process: what the CPU gives back has not left EXEC.
LEMMA ParesMueve == ASSUME Tipado, Pares PROVE Queda
<1>a. TypeHilos /\ TypeCPU BY DEF Tipado, TypeOK
<1>1. CASE MemoriaResponde \/ Reloj \/ \E i \in Interfaces : ConectaInterfaz(i) \/ CierraInterfaz(i)
  <2>1. UNCHANGED <<hilos, procesos, cola, sem, grado, a_cpu, de_cpu, bloq, mano_io>>
    BY <1>1 DEF MemoriaResponde, Reloj, RelojSinExec, RelojVence, ConectaInterfaz, CierraInterfaz
  <2>2. MismasManos BY <2>1 DEF MismasManos, EnMano, Uno, YaEncolado, Marcando, Enviando
  <2>3. OtrasColas({"exec", "block"}) /\ UNCHANGED PidDe BY <2>1 DEF OtrasColas, PidDe
  <2> QED BY <2>1, <2>2, <2>3, Quietos DEF Queda, MismosCupos
<1>2. CASE CPUDevuelve
  <2> DEFINE o == Head(a_cpu)
             R == [o: Objs, r: Retorno]
  <2>1. /\ UNCHANGED <<hilos, procesos, cola, sem, grado, bloq, mano_io>>
        /\ a_cpu # <<>> /\ a_cpu' = Tail(a_cpu) /\ a_cpu \in Seq(Objs)
    BY <1>a, <1>2 DEF CPUDevuelve, TypeCPU
  <2>2. PICK r \in Retornos : de_cpu' = Append(de_cpu, [o |-> o, r |-> r]) BY <1>2 DEF CPUDevuelve
  <2>3. o \in Objs /\ Tail(a_cpu) \in Seq(Objs) BY <2>1
  <2>4. DeLaCpu' = Append(DeLaCpu, o) /\ DeLaCpu \in Seq(Objs)
    <3>1. de_cpu \in Seq(R) /\ [o |-> o, r |-> r] \in R BY <1>a, <2>3, ConstantesOK DEF TypeCPU
    <3>2. \A e \in R : e.o \in Objs OBVIOUS
    <3> HIDE DEF R
    <3>3. Quienes(Append(de_cpu, [o |-> o, r |-> r])) = Append(Quienes(de_cpu), [o |-> o, r |-> r].o)
      BY <3>1, <3>2, QuienesAgrega
    <3> QED BY <2>2, <3>1, <3>2, <3>3, QuienesTipo DEF DeLaCpu
  <2>5. UNCHANGED <<PidDe, Enviando, EnMano("vuelta"), EnMano("consola")>>
    BY <2>1 DEF PidDe, Enviando, EnMano, Uno, YaEncolado
  <2>6. Igual("EXEC")
    <3> SUFFICES ASSUME NEW p \in Numeros PROVE EnZona("EXEC", p)' = EnZona("EXEC", p)
      BY DEF Igual
    <3>1. V(p, Enviando) \in Nat /\ V(p, EnMano("vuelta")) \in Nat /\ V(p, DeLaCpu) \in Nat
      BY CuentasNaturales DEF Puestos
    <3>2. V(p, a_cpu) = Contar(PidDe[o] = p) + Cuantos(PidDe, p, Tail(a_cpu))
      BY <2>1, CuantosSaca DEF V
    <3>3. Cuantos(PidDe, p, Tail(a_cpu)) \in Nat BY <2>3, CuantosNatural
    <3>4. V(p, a_cpu)' = Cuantos(PidDe, p, Tail(a_cpu)) BY <2>1, <2>5 DEF V
    <3>5. V(p, DeLaCpu)' = V(p, DeLaCpu) + Contar(PidDe[o] = p)
      BY <2>3, <2>4, <2>5, Agrega DEF V
    <3>6. V(p, Enviando)' = V(p, Enviando) /\ V(p, EnMano("vuelta"))' = V(p, EnMano("vuelta"))
      BY <2>5 DEF V
    <3> QED BY <3>1, <3>2, <3>3, <3>4, <3>5, <3>6 DEF EnZona, Contar
  <2>7. /\ SoloHilo("vuelta") /\ OtrasColas({}) /\ UNCHANGED segundo BY <2>1 DEF SoloHilo, OtrasColas
  <2>8. Conserva BY <2>5, ConservaSi
  <2>9. Ajenas({}, {}) BY <2>1, <2>6, <2>7, <2>8, Deja DEF Ajenas, Zonas, Hilos
  <2> QED BY <2>1, <2>9, PorZonas DEF Queda, MismosCupos
<1> QED BY <1>1, <1>2 DEF Pares
=============================================================================
