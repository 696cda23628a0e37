-------------------------- MODULE ProtocoloPruebas --------------------------
(***************************************************************************)
(* What is read from a package is what was packed, for packages of every   *)
(* length, and the one place of the code where it is not. Campo is any set *)
(* that holds the values of the fields.                                    *)
(***************************************************************************)
EXTENDS Protocolo, SequenceTheorems, TLAPS

-----------------------------------------------------------------------------
(* Where the fields of a package are.                                      *)

\* Q is a, then b, then c.
EnTres(Campo, Q, a, b, c) ==
    /\ Q \in Seq(Campo) /\ Len(Q) = Len(a) + Len(b) + Len(c)
    /\ \A i \in 1..Len(a) : Q[i] = a[i]
    /\ \A i \in 1..Len(b) : Q[Len(a) + i] = b[i]
    /\ \A i \in 1..Len(c) : Q[Len(a) + Len(b) + i] = c[i]

EnDos(Campo, Q, a, b) ==
    /\ Q \in Seq(Campo) /\ Len(Q) = Len(a) + Len(b)
    /\ \A i \in 1..Len(a) : Q[i] = a[i]
    /\ \A i \in 1..Len(b) : Q[Len(a) + i] = b[i]

LEMMA Dos ==
    ASSUME NEW Campo, NEW a \in Seq(Campo), NEW b \in Seq(Campo)
    PROVE  EnDos(Campo, a \o b, a, b)
BY ConcatProperties DEF EnDos

LEMMA Tres ==
    ASSUME NEW Campo, NEW a \in Seq(Campo), NEW b \in Seq(Campo), NEW c \in Seq(Campo)
    PROVE  EnTres(Campo, a \o b \o c, a, b, c)
<1> SUFFICES ASSUME NEW ab, ab = a \o b, NEW Q, Q = ab \o c
             PROVE  EnTres(Campo, Q, a, b, c)
  OBVIOUS
<1>1. EnDos(Campo, ab, a, b)
  BY Dos
<1>2. ab \in Seq(Campo)
  BY <1>1 DEF EnDos
<1>3. EnDos(Campo, Q, ab, c)
  BY <1>2, Dos
<1>4. Len(a) \in Nat /\ Len(b) \in Nat /\ Len(c) \in Nat /\ Len(ab) = Len(a) + Len(b)
  BY <1>1 DEF EnDos
<1>5. /\ \A i \in 1..Len(a) : i \in 1..Len(ab)
      /\ \A i \in 1..Len(b) : Len(a) + i \in 1..Len(ab)
  BY <1>4
<1> QED
  BY <1>1, <1>3, <1>4, <1>5 DEF EnDos, EnTres

\* The pairs A[k], B[k] of a list of n follow its count.
SonPares(Campo, P, n, A, B) ==
    /\ P \in Seq(Campo) /\ Len(P) = 2 * n + 1
    /\ P[1] = n
    /\ \A k \in 1..n : P[2 * k] = A[k] /\ P[2 * k + 1] = B[k]

LEMMA Pares ==
    ASSUME NEW Campo, Nat \subseteq Campo, NEW n \in Nat, NEW A, NEW B,
           A \in [1..n -> Campo], B \in [1..n -> Campo]
    PROVE  SonPares(Campo, EmpaquetarPares(n, A, B), n, A, B)
<1> DEFINE f == [k \in 1..(2 * n) |-> IF k % 2 = 1 THEN A[(k + 1) \div 2] ELSE B[k \div 2]]
           P == <<n>> \o f
<1>1. f \in Seq(Campo) /\ Len(f) = 2 * n
  OBVIOUS
<1>2. \A k \in 1..n : f[2 * k - 1] = A[k] /\ f[2 * k] = B[k]
  OBVIOUS
<1>3. <<n>> \in Seq(Campo) /\ Len(<<n>>) = 1 /\ <<n>>[1] = n
  OBVIOUS
<1>4. EmpaquetarPares(n, A, B) = P
  BY DEF EmpaquetarPares
<1> HIDE DEF f
<1>5. P \in Seq(Campo) /\ Len(P) = 2 * n + 1 /\ P[1] = n
  BY <1>1, <1>3, ConcatProperties
<1>6. \A j \in 2..(2 * n + 1) : P[j] = f[j - 1]
  BY <1>1, <1>3, ConcatProperties
<1> HIDE DEF P
<1>7. \A k \in 1..n : /\ 2 * k \in 2..(2 * n + 1) /\ 2 * k + 1 \in 2..(2 * n + 1)
                      /\ (2 * k + 1) - 1 = 2 * k
  OBVIOUS
<1>8. \A k \in 1..n : P[2 * k] = A[k] /\ P[2 * k + 1] = B[k]
  <2> TAKE k \in 1..n
  <2>1. P[2 * k] = f[2 * k - 1] /\ P[2 * k + 1] = f[(2 * k + 1) - 1]
    BY <1>6, <1>7
  <2> QED BY <1>2, <1>7, <2>1
<1> QED
  BY <1>4, <1>5, <1>8 DEF SonPares

\* Pairs in the middle of a package, as list_get finds them.
HayPares(Campo, Q, a, c, n, A, B) ==
    /\ Q \in Seq(Campo)
    /\ list_get(Q, Len(a)) = n
    /\ \A k \in 1..n : /\ list_get(Q, Len(a) + 2 * k - 1) = A[k]
                      /\ list_get(Q, Len(a) + 2 * k) = B[k]
    /\ \A i \in 1..Len(a) : Q[i] = a[i]
    /\ \A i \in 1..Len(c) : Q[Len(a) + (2 * n + 1) + i] = c[i]

LEMMA ParesEnMedio ==
    ASSUME NEW Campo, NEW n \in Nat, NEW A, NEW B, NEW P, SonPares(Campo, P, n, A, B),
           NEW a \in Seq(Campo), NEW c \in Seq(Campo)
    PROVE  HayPares(Campo, a \o P \o c, a, c, n, A, B)
<1> SUFFICES ASSUME NEW Q, Q = a \o P \o c
             PROVE  HayPares(Campo, Q, a, c, n, A, B)
  OBVIOUS
<1>1. Len(a) \in Nat /\ Len(c) \in Nat
  OBVIOUS
<1>2. /\ P \in Seq(Campo) /\ Len(P) = 2 * n + 1 /\ P[1] = n
      /\ \A k \in 1..n : P[2 * k] = A[k] /\ P[2 * k + 1] = B[k]
  BY DEF SonPares
<1>3. EnTres(Campo, Q, a, P, c)
  BY <1>2, Tres
<1>4. /\ Q \in Seq(Campo)
      /\ \A i \in 1..Len(a) : Q[i] = a[i]
      /\ \A i \in 1..Len(P) : Q[Len(a) + i] = P[i]
      /\ \A i \in 1..Len(c) : Q[Len(a) + (2 * n + 1) + i] = c[i]
  BY <1>2, <1>3 DEF EnTres
<1>5. list_get(Q, Len(a)) = n
  BY <1>1, <1>2, <1>4 DEF list_get
<1>6. ASSUME NEW k \in 1..n
      PROVE  /\ list_get(Q, Len(a) + 2 * k - 1) = A[k]
             /\ list_get(Q, Len(a) + 2 * k) = B[k]
  <2>1. 2 * k \in 1..Len(P) /\ 2 * k + 1 \in 1..Len(P)
    BY <1>1, <1>2
  <2>2. Q[Len(a) + 2 * k] = A[k] /\ Q[Len(a) + (2 * k + 1)] = B[k]
    BY <1>2, <1>4, <2>1
  <2>3. (Len(a) + 2 * k - 1) + 1 = Len(a) + 2 * k /\ (Len(a) + 2 * k) + 1 = Len(a) + (2 * k + 1)
    BY <1>1
  <2> QED BY <2>2, <2>3 DEF list_get
<1> QED
  BY <1>4, <1>5, <1>6 DEF HayPares

-----------------------------------------------------------------------------
(* Resources and translations.                                             *)

LEMMA Elementos ==
    ASSUME NEW S, NEW s \in Seq(S)
    PROVE  /\ Len(s) \in Nat /\ DOMAIN s = 1..Len(s)
           /\ \A k \in 1..Len(s) : s[k] \in S
           /\ s = [k \in 1..Len(s) |-> s[k]]
<1>1. Len(s) \in Nat /\ s \in [1..Len(s) -> S]
  OBVIOUS
<1>2. DOMAIN s = 1..Len(s) /\ \A k \in 1..Len(s) : s[k] \in S
  BY <1>1
<1>3. s = [k \in 1..Len(s) |-> s[k]]
  BY <1>1, Zenon
<1> QED BY <1>1, <1>2, <1>3

Recursos(Campo) == Seq([nombre: Campo, instancias: Campo])
Traducciones(Campo) == Seq([direccion_fisica: Campo, bytes: Campo])

LEMMA RecursosSonPares ==
    ASSUME NEW Campo, Nat \subseteq Campo, NEW recursos \in Recursos(Campo)
    PROVE  \E A, B : /\ SonPares(Campo, empaquetar_recursos(recursos), Len(recursos), A, B)
                     /\ recursos = [k \in 1..Len(recursos) |-> [nombre |-> A[k], instancias |-> B[k]]]
<1> DEFINE n == Len(recursos)
           A == [k \in DOMAIN recursos |-> recursos[k].nombre]
           B == [k \in DOMAIN recursos |-> recursos[k].instancias]
<1>1. /\ n \in Nat /\ DOMAIN recursos = 1..n
      /\ \A k \in 1..n : recursos[k] \in [nombre: Campo, instancias: Campo]
  BY Elementos DEF Recursos
<1>2. \A k \in 1..n : recursos[k].nombre \in Campo /\ recursos[k].instancias \in Campo
  BY <1>1
<1>3. \A k \in 1..n : recursos[k] = [nombre |-> recursos[k].nombre, instancias |-> recursos[k].instancias]
  BY <1>1
<1>4. A \in [1..n -> Campo] /\ B \in [1..n -> Campo]
  BY <1>1, <1>2
<1>5. \A k \in 1..n : A[k] = recursos[k].nombre /\ B[k] = recursos[k].instancias
  BY <1>1
<1>6. empaquetar_recursos(recursos) = EmpaquetarPares(n, A, B)
  BY DEF empaquetar_recursos
<1>7. recursos = [k \in 1..n |-> recursos[k]]
  BY Elementos DEF Recursos
<1> HIDE DEF n, A, B
<1>8. SonPares(Campo, empaquetar_recursos(recursos), n, A, B)
  BY <1>1, <1>4, <1>6, Pares
<1>9. recursos = [k \in 1..n |-> [nombre |-> A[k], instancias |-> B[k]]]
  BY <1>3, <1>5, <1>7
<1> QED
  BY <1>8, <1>9 DEF n

LEMMA TraduccionesSonPares ==
    ASSUME NEW Campo, Nat \subseteq Campo, NEW traducciones \in Traducciones(Campo)
    PROVE  \E A, B : /\ SonPares(Campo, empaquetar_traducciones(traducciones), Len(traducciones), A, B)
                     /\ traducciones = [k \in 1..Len(traducciones) |-> [direccion_fisica |-> A[k], bytes |-> B[k]]]
<1> DEFINE n == Len(traducciones)
           A == [k \in DOMAIN traducciones |-> traducciones[k].direccion_fisica]
           B == [k \in DOMAIN traducciones |-> traducciones[k].bytes]
<1>1. /\ n \in Nat /\ DOMAIN traducciones = 1..n
      /\ \A k \in 1..n : traducciones[k] \in [direccion_fisica: Campo, bytes: Campo]
  BY Elementos DEF Traducciones
<1>2. \A k \in 1..n : traducciones[k].direccion_fisica \in Campo /\ traducciones[k].bytes \in Campo
  BY <1>1
<1>3. \A k \in 1..n : traducciones[k] = [direccion_fisica |-> traducciones[k].direccion_fisica, bytes |-> traducciones[k].bytes]
  BY <1>1
<1>4. A \in [1..n -> Campo] /\ B \in [1..n -> Campo]
  BY <1>1, <1>2
<1>5. \A k \in 1..n : A[k] = traducciones[k].direccion_fisica /\ B[k] = traducciones[k].bytes
  BY <1>1
<1>6. empaquetar_traducciones(traducciones) = EmpaquetarPares(n, A, B)
  BY DEF empaquetar_traducciones
<1>7. traducciones = [k \in 1..n |-> traducciones[k]]
  BY Elementos DEF Traducciones
<1> HIDE DEF n, A, B
<1>8. SonPares(Campo, empaquetar_traducciones(traducciones), n, A, B)
  BY <1>1, <1>4, <1>6, Pares
<1>9. traducciones = [k \in 1..n |-> [direccion_fisica |-> A[k], bytes |-> B[k]]]
  BY <1>3, <1>5, <1>7
<1> QED
  BY <1>8, <1>9 DEF n

\* Q holds a list of resources between a and c.
HayRecursos(Campo, Q, a, c, recursos) ==
    /\ Q \in Seq(Campo)
    /\ list_get(Q, Len(a)) = Len(recursos)
    /\ desempaquetar_recursos(Q, Len(a)) = recursos
    /\ \A i \in 1..Len(a) : Q[i] = a[i]
    /\ \A i \in 1..Len(c) : Q[Len(a) + (2 * Len(recursos) + 1) + i] = c[i]

\* Wherever it starts, a list of resources is read as it was packed.
THEOREM RecursosIdaYVuelta ==
    ASSUME NEW Campo, Nat \subseteq Campo, NEW recursos \in Recursos(Campo),
           NEW a \in Seq(Campo), NEW c \in Seq(Campo)
    PROVE  HayRecursos(Campo, a \o empaquetar_recursos(recursos) \o c, a, c, recursos)
<1> DEFINE n == Len(recursos)
           P == empaquetar_recursos(recursos)
           Q == a \o P \o c
<1>1. n \in Nat
  BY Elementos DEF Recursos
<1>2. PICK A, B : /\ SonPares(Campo, P, n, A, B)
                  /\ recursos = [k \in 1..n |-> [nombre |-> A[k], instancias |-> B[k]]]
  BY RecursosSonPares
<1> HIDE DEF n, P
<1>3. HayPares(Campo, Q, a, c, n, A, B)
  BY <1>1, <1>2, ParesEnMedio
<1> HIDE DEF Q
<1>4. desempaquetar_recursos(Q, Len(a)) = recursos
  BY <1>2, <1>3 DEF desempaquetar_recursos, HayPares
<1>5. HayRecursos(Campo, Q, a, c, recursos)
  BY <1>3, <1>4 DEF HayPares, HayRecursos, n
<1> QED
  BY <1>5 DEF P, Q

\* Q holds a list of translations between a and c.
HayTraducciones(Campo, Q, a, c, traducciones) ==
    /\ Q \in Seq(Campo)
    /\ desempaquetar_traducciones(Q, Len(a)) = traducciones
    /\ \A i \in 1..Len(a) : Q[i] = a[i]

\* And so is a list of translations.
THEOREM TraduccionesIdaYVuelta ==
    ASSUME NEW Campo, Nat \subseteq Campo, NEW traducciones \in Traducciones(Campo),
           NEW a \in Seq(Campo), NEW c \in Seq(Campo)
    PROVE  HayTraducciones(Campo, a \o empaquetar_traducciones(traducciones) \o c, a, c, traducciones)
<1> DEFINE n == Len(traducciones)
           P == empaquetar_traducciones(traducciones)
           Q == a \o P \o c
<1>1. n \in Nat
  BY Elementos DEF Traducciones
<1>2. PICK A, B : /\ SonPares(Campo, P, n, A, B)
                  /\ traducciones = [k \in 1..n |-> [direccion_fisica |-> A[k], bytes |-> B[k]]]
  BY TraduccionesSonPares
<1> HIDE DEF n, P
<1>3. HayPares(Campo, Q, a, c, n, A, B)
  BY <1>1, <1>2, ParesEnMedio
<1> HIDE DEF Q
<1>4. desempaquetar_traducciones(Q, Len(a)) = traducciones
  BY <1>2, <1>3 DEF desempaquetar_traducciones, HayPares
<1>5. HayTraducciones(Campo, Q, a, c, traducciones)
  BY <1>3, <1>4 DEF HayPares, HayTraducciones
<1> QED
  BY <1>5 DEF P, Q

\* A package that ends in two parts, taken by the last of them.
Terminan(Campo, Q, h, r, x, t) ==
    \E a : EnTres(Campo, a, h, r, x) /\ Q = a \o t \o <<>>

LEMMA Asocia ==
    ASSUME NEW Campo, NEW h \in Seq(Campo), NEW r \in Seq(Campo), NEW x \in Seq(Campo),
           NEW t \in Seq(Campo)
    PROVE  Terminan(Campo, h \o r \o (x \o t), h, r, x, t)
<1>1. h \o r \in Seq(Campo) /\ h \o r \o x \in Seq(Campo) /\ h \o r \o x \o t \in Seq(Campo)
  BY ConcatProperties
<1>2. h \o r \o (x \o t) = h \o r \o x \o t
  BY <1>1, ConcatAssociative
<1>3. h \o r \o x \o t = h \o r \o x \o t \o <<>>
  BY <1>1, ConcatEmptySeq
<1>4. EnTres(Campo, h \o r \o x, h, r, x)
  BY Tres
<1> QED BY <1>2, <1>3, <1>4 DEF Terminan

-----------------------------------------------------------------------------
(* The PCB.                                                                *)

PCBs(Campo) ==
    [PID: Campo, PC: Campo, QUANTUM: Campo, motivo: Campo, estado: Campo,
     registros: [1..10 -> Campo], recursos: Recursos(Campo)]

\* The fifteen fields before the resources.
EsCabecera(Campo, H, PCB, motivo) ==
    /\ H \in Seq(Campo) /\ Len(H) = 15
    /\ H[1] = PCB.PID /\ H[2] = PCB.PC /\ H[3] = PCB.QUANTUM /\ H[4] = motivo /\ H[5] = PCB.estado
    /\ \A r \in 1..10 : H[5 + r] = PCB.registros[r]

LEMMA Diez ==
    ASSUME NEW S, NEW f \in [1..10 -> S]
    PROVE  f \in Seq(S) /\ Len(f) = 10
<1>1. f \in Seq(S)
  BY SeqDef
<1>2. DOMAIN f = 1..10
  OBVIOUS
<1> QED BY <1>1, <1>2, LenProperties

LEMMA Cabecera ==
    ASSUME NEW Campo, NEW PCB \in PCBs(Campo), NEW motivo \in Campo
    PROVE  EsCabecera(Campo, empaquetar_pcb(PCB, motivo), PCB, motivo)
<1> DEFINE a == <<PCB.PID, PCB.PC, PCB.QUANTUM, motivo, PCB.estado>>
           b == PCB.registros
           H == a \o b
<1>1. /\ PCB.PID \in Campo /\ PCB.PC \in Campo /\ PCB.QUANTUM \in Campo /\ PCB.estado \in Campo
      /\ b \in [1..10 -> Campo]
  BY DEF PCBs
<1>2. a \in Seq(Campo) /\ Len(a) = 5
  BY <1>1
<1>3. a[1] = PCB.PID /\ a[2] = PCB.PC /\ a[3] = PCB.QUANTUM /\ a[4] = motivo /\ a[5] = PCB.estado
  OBVIOUS
<1>4. b \in Seq(Campo) /\ Len(b) = 10
  BY <1>1, Diez
<1>5. empaquetar_pcb(PCB, motivo) = H
  BY DEF empaquetar_pcb
<1> HIDE DEF a, b
<1>6. EnDos(Campo, H, a, b)
  BY <1>2, <1>4, Dos
<1> HIDE DEF H
<1>7. EsCabecera(Campo, H, PCB, motivo)
  BY <1>2, <1>3, <1>4, <1>6 DEF EnDos, EsCabecera, b
<1> QED
  BY <1>5, <1>7

\* A PCB in a package, with n resources and its parameters behind.
HayPCB(Campo, Q, PCB, motivo, parametros) ==
    /\ recibir_pcb(Q) = [PCB EXCEPT !.motivo = motivo]
    /\ list_get(Q, 15) = Len(PCB.recursos)
    /\ \A i \in 1..Len(parametros) : list_get(Q, 15 + 2 * Len(PCB.recursos) + i) = parametros[i]

\* The CPU and the kernel (recibir_pcb, guardar_datos_del_pcb) read the PCB that was
\* sent, with the motive of the package, whatever its resources and its parameters.
THEOREM PCBIdaYVuelta ==
    ASSUME NEW Campo, Nat \subseteq Campo, NEW PCB \in PCBs(Campo), NEW motivo \in Campo,
           NEW parametros \in Seq(Campo)
    PROVE  HayPCB(Campo, enviar_pcb(PCB, motivo, parametros), PCB, motivo, parametros)
<1> DEFINE H == empaquetar_pcb(PCB, motivo)
           rs == PCB.recursos
           Q == H \o empaquetar_recursos(rs) \o parametros
<1>1. enviar_pcb(PCB, motivo, parametros) = Q
  BY DEF enviar_pcb
<1>2. rs \in Recursos(Campo)
  BY DEF PCBs
<1>3. Len(rs) \in Nat
  BY <1>2, Elementos DEF Recursos
<1>4. EsCabecera(Campo, H, PCB, motivo)
  BY Cabecera
<1> HIDE DEF H, rs
<1>5. H \in Seq(Campo) /\ Len(H) = 15
  BY <1>4 DEF EsCabecera
<1>6. HayRecursos(Campo, Q, H, parametros, rs)
  BY <1>2, <1>5, RecursosIdaYVuelta
<1> HIDE DEF Q
<1>7. /\ list_get(Q, 15) = Len(rs)
      /\ desempaquetar_recursos(Q, 15) = rs
      /\ \A i \in 1..15 : Q[i] = H[i]
      /\ \A i \in 1..Len(parametros) : Q[15 + (2 * Len(rs) + 1) + i] = parametros[i]
  BY <1>5, <1>6 DEF HayRecursos
<1>8. /\ list_get(Q, 0) = PCB.PID /\ list_get(Q, 1) = PCB.PC /\ list_get(Q, 2) = PCB.QUANTUM
      /\ list_get(Q, 3) = motivo /\ list_get(Q, 4) = PCB.estado
  BY <1>4, <1>7 DEF EsCabecera, list_get
<1>9. \A r \in 1..10 : list_get(Q, 4 + r) = PCB.registros[r]
  <2> TAKE r \in 1..10
  <2>1. 5 + r \in 1..15 /\ (4 + r) + 1 = 5 + r
    OBVIOUS
  <2>2. Q[5 + r] = PCB.registros[r]
    BY <1>4, <1>7, <2>1 DEF EsCabecera
  <2> QED BY <2>1, <2>2 DEF list_get
<1>10. PCB.registros = [r \in 1..10 |-> PCB.registros[r]]
  BY DEF PCBs
<1>11. [r \in 1..10 |-> list_get(Q, 4 + r)] = PCB.registros
  BY <1>9, <1>10
<1>12. recibir_pcb(Q) = [PCB EXCEPT !.motivo = motivo]
  <2>1. recibir_pcb(Q) = [PID |-> PCB.PID, PC |-> PCB.PC, QUANTUM |-> PCB.QUANTUM,
                          motivo |-> motivo, estado |-> PCB.estado,
                          registros |-> PCB.registros, recursos |-> PCB.recursos]
    BY <1>7, <1>8, <1>11 DEF recibir_pcb, rs
  <2>2. [PCB EXCEPT !.motivo = motivo] =
            [PID |-> PCB.PID, PC |-> PCB.PC, QUANTUM |-> PCB.QUANTUM,
             motivo |-> motivo, estado |-> PCB.estado,
             registros |-> PCB.registros, recursos |-> PCB.recursos]
    BY DEF PCBs
  <2> QED BY <2>1, <2>2
<1>13. \A i \in 1..Len(parametros) : list_get(Q, 15 + 2 * Len(rs) + i) = parametros[i]
  <2> TAKE i \in 1..Len(parametros)
  <2>1. (15 + 2 * Len(rs) + i) + 1 = 15 + (2 * Len(rs) + 1) + i
    BY <1>3
  <2> QED BY <1>7, <2>1 DEF list_get
<1> QED
  BY <1>1, <1>7, <1>12, <1>13 DEF HayPCB, rs

\* fin_pcb says where the PCB ends only for a process with fifteen resources: it adds the
\* fields of the resources to their number, and not to the index 15 where they start.
THEOREM FinPcbSoloConQuince ==
    ASSUME NEW Campo, Nat \subseteq Campo, NEW PCB \in PCBs(Campo), NEW motivo \in Campo,
           NEW parametros \in Seq(Campo)
    PROVE  fin_pcb(enviar_pcb(PCB, motivo, parametros)) = 15 + 2 * Len(PCB.recursos)
               <=> Len(PCB.recursos) = 15
<1>1. HayPCB(Campo, enviar_pcb(PCB, motivo, parametros), PCB, motivo, parametros)
  BY PCBIdaYVuelta
<1>2. Len(PCB.recursos) \in Nat
  BY Elementos DEF PCBs, Recursos
<1>3. fin_pcb(enviar_pcb(PCB, motivo, parametros)) = Len(PCB.recursos) + 2 * Len(PCB.recursos)
  BY <1>1 DEF HayPCB, fin_pcb
<1> SUFFICES ASSUME NEW n \in Nat, NEW fin, fin = n + 2 * n
             PROVE  fin = 15 + 2 * n <=> n = 15
  BY <1>2, <1>3
<1> QED OBVIOUS

\* With fifteen resources the kernel reads the request of a STDIN or a STDOUT as the CPU
\* packed it: the assumption under which Acceso follows a request to its interface.
THEOREM PeticionConQuince ==
    ASSUME NEW Campo, Nat \subseteq Campo, NEW PCB \in PCBs(Campo), NEW motivo \in Campo,
           NEW instruccion \in Campo, NEW interfaz \in Campo, NEW tamanio \in Campo,
           NEW traducciones \in Traducciones(Campo), Len(PCB.recursos) = 15
    PROVE  RecibePedidoCPU(enviar_pcb(PCB, motivo,
                                      PedidoCPU(instruccion, interfaz, tamanio, traducciones)))
             = [instruccion |-> instruccion, interfaz |-> interfaz, tamanio |-> tamanio,
                traducciones |-> traducciones]
<1> DEFINE H == empaquetar_pcb(PCB, motivo)
           R == empaquetar_recursos(PCB.recursos)
           X == <<instruccion, interfaz, tamanio>>
           Tr == empaquetar_traducciones(traducciones)
           Q == enviar_pcb(PCB, motivo, X \o Tr)
<1>1. PCB.recursos \in Recursos(Campo)
  BY DEF PCBs
<1>2. X \in Seq(Campo) /\ Len(X) = 3
  OBVIOUS
<1>3. X[1] = instruccion /\ X[2] = interfaz /\ X[3] = tamanio
  OBVIOUS
<1>4. R \in Seq(Campo) /\ Len(R) = 31
  <2> HIDE DEF R
  <2>1. PICK A, B : SonPares(Campo, R, Len(PCB.recursos), A, B)
    BY <1>1, RecursosSonPares DEF R
  <2> QED BY <2>1 DEF SonPares
<1>5. Tr \in Seq(Campo)
  BY TraduccionesSonPares DEF SonPares
<1>6. H \in Seq(Campo) /\ Len(H) = 15
  BY Cabecera DEF EsCabecera
<1>7. Q = H \o R \o (X \o Tr)
  BY DEF enviar_pcb
<1>8. RecibePedidoCPU(enviar_pcb(PCB, motivo, PedidoCPU(instruccion, interfaz, tamanio, traducciones)))
        = RecibePedidoCPU(Q)
  BY DEF PedidoCPU
<1> HIDE DEF H, R, X, Tr, Q
<1>9. Terminan(Campo, Q, H, R, X, Tr)
  BY <1>2, <1>4, <1>5, <1>6, <1>7, Asocia
<1>10. PICK HRX : EnTres(Campo, HRX, H, R, X) /\ Q = HRX \o Tr \o <<>>
  BY <1>9 DEF Terminan
<1>11. HRX \in Seq(Campo) /\ Len(HRX) = 49
  BY <1>2, <1>4, <1>6, <1>10 DEF EnTres
<1>12. HRX[47] = instruccion /\ HRX[48] = interfaz /\ HRX[49] = tamanio
  <2>1. \A i \in 1..3 : HRX[46 + i] = X[i]
    <3>1. \A i \in 1..Len(X) : HRX[Len(H) + Len(R) + i] = X[i]
      BY <1>10 DEF EnTres
    <3>2. Len(H) + Len(R) = 46
      BY <1>4, <1>6
    <3> QED BY <1>2, <3>1, <3>2
  <2> QED BY <1>3, <2>1
<1>13. <<>> \in Seq(Campo)
  OBVIOUS
<1>15. HayTraducciones(Campo, Q, HRX, <<>>, traducciones)
  BY <1>10, <1>11, <1>13, TraduccionesIdaYVuelta DEF Tr
<1>16. desempaquetar_traducciones(Q, 49) = traducciones /\ \A i \in 1..49 : Q[i] = HRX[i]
  BY <1>11, <1>15 DEF HayTraducciones
<1>17. fin_pcb(Q) = 45
  <2>1. HayPCB(Campo, Q, PCB, motivo, X \o Tr)
    <3>1. X \o Tr \in Seq(Campo)
      BY <1>2, <1>5, ConcatProperties
    <3> QED BY <3>1, PCBIdaYVuelta DEF Q
  <2> QED BY <2>1 DEF HayPCB, fin_pcb
<1>18. /\ list_get(Q, 46) = instruccion /\ list_get(Q, 47) = interfaz
       /\ list_get(Q, 48) = tamanio
  BY <1>12, <1>16 DEF list_get
<1> QED
  BY <1>8, <1>16, <1>17, <1>18 DEF RecibePedidoCPU
-----------------------------------------------------------------------------
(* Requests to the memory.                                                 *)

\* The memory takes from each request what the CPU and the interfaces put in it, although
\* a read carries the size before the address and a write after it, and the CPU the
\* instruction it asked for.
THEOREM PedidosMemoriaIdaYVuelta ==
    ASSUME NEW t, NEW dato, NEW pid, NEW n, NEW instruccion, NEW p1, NEW p2, NEW p3, NEW p4, NEW p5
    PROVE  /\ procesar_escritura_en_memoria(EscrituraMemoria(t, dato))
                = [direccion_fisica |-> t.direccion_fisica, bytes |-> t.bytes]
           /\ procesar_lectura_en_memoria(LecturaMemoria(t))
                = [direccion_fisica |-> t.direccion_fisica, bytes |-> t.bytes]
           /\ recv_solicitud_marco(enviar_solicitud_marco(pid, n)) = [pid |-> pid, numero_pagina |-> n]
           /\ recv_solicitar_instruccion(enviar_solicitar_instruccion(pid, n))
                = [pid |-> pid, program_counter |-> n]
           /\ LET linea == [instruccion |-> instruccion, parametros |-> <<p1, p2, p3, p4, p5>>]
              IN  recibir_proxima_instruccion(send_proxima_instruccion(linea)) = linea
<1>1. procesar_escritura_en_memoria(EscrituraMemoria(t, dato))
        = [direccion_fisica |-> t.direccion_fisica, bytes |-> t.bytes]
  BY DEF procesar_escritura_en_memoria, EscrituraMemoria, list_get
<1>2. procesar_lectura_en_memoria(LecturaMemoria(t))
        = [direccion_fisica |-> t.direccion_fisica, bytes |-> t.bytes]
  BY DEF procesar_lectura_en_memoria, LecturaMemoria, list_get
<1>3. recv_solicitud_marco(enviar_solicitud_marco(pid, n)) = [pid |-> pid, numero_pagina |-> n]
  BY DEF recv_solicitud_marco, enviar_solicitud_marco, list_get
<1>4. recv_solicitar_instruccion(enviar_solicitar_instruccion(pid, n))
        = [pid |-> pid, program_counter |-> n]
  BY DEF recv_solicitar_instruccion, enviar_solicitar_instruccion, list_get
<1>5. LET linea == [instruccion |-> instruccion, parametros |-> <<p1, p2, p3, p4, p5>>]
      IN  recibir_proxima_instruccion(send_proxima_instruccion(linea)) = linea
  <2> DEFINE ps == <<p1, p2, p3, p4, p5>>
             S == {instruccion, p1, p2, p3, p4, p5}
             linea == [instruccion |-> instruccion, parametros |-> ps]
             Q == send_proxima_instruccion(linea)
  <2>1. <<instruccion>> \in Seq(S) /\ ps \in Seq(S) /\ Len(ps) = 5
    OBVIOUS
  <2>2. Q = <<instruccion>> \o ps
    BY DEF send_proxima_instruccion
  <2>3. DOMAIN ps = 1..5
    OBVIOUS
  <2> HIDE DEF ps, Q, S
  <2>4. EnDos(S, Q, <<instruccion>>, ps)
    BY <2>1, <2>2, Dos
  <2>5. list_get(Q, 0) = instruccion /\ \A k \in 1..5 : list_get(Q, k) = ps[k]
    BY <2>1, <2>4 DEF EnDos, list_get
  <2>6. [k \in 1..5 |-> list_get(Q, k)] = ps
    BY <2>1, <2>3, <2>5
  <2> QED BY <2>5, <2>6 DEF recibir_proxima_instruccion, Q, ps
<1> QED BY <1>1, <1>2, <1>3, <1>4, <1>5

\* The path and the PID of a new process are written in one order and read in the other:
\* the memory gets what the kernel sent only if both are the same, which they never are.
THEOREM DatosDelProcesoCruzados ==
    ASSUME NEW path, NEW pid
    PROVE  recibir_datos_del_proceso(enviar_datos_proceso(path, pid)) = [path |-> path, pid |-> pid]
               <=> path = pid
<1>1. recibir_datos_del_proceso(enviar_datos_proceso(path, pid)) = [path |-> pid, pid |-> path]
  BY DEF recibir_datos_del_proceso, enviar_datos_proceso, list_get
<1>2. [path |-> pid, pid |-> path].path = pid /\ [path |-> path, pid |-> pid].path = path
  OBVIOUS
<1> QED BY <1>1, <1>2
=============================================================================
