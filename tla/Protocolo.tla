----------------------------- MODULE Protocolo -----------------------------
(***************************************************************************)
(* The packages of protocolo.c. A package is written field by field and    *)
(* read by position, each side counting by hand: here it is the sequence   *)
(* of its fields, and a reader takes field i with list_get.                *)
(* Sizes, sockets and frees are left out.                                  *)
(***************************************************************************)
EXTENDS Integers, Sequences

\* list_get counts from 0. A reader past the end gets NULL, which no reader tests.
list_get(paquete, i) == paquete[i + 1]

\* A count, and two fields for each element.
EmpaquetarPares(n, primeros, segundos) ==
    <<n>> \o [k \in 1..(2 * n) |-> IF k % 2 = 1 THEN primeros[(k + 1) \div 2] ELSE segundos[k \div 2]]

-----------------------------------------------------------------------------
(* PCB. registros are the ten registers, recursos the resources assigned.  *)

empaquetar_pcb(PCB, motivo) ==
    <<PCB.PID, PCB.PC, PCB.QUANTUM, motivo, PCB.estado>> \o PCB.registros

empaquetar_recursos(recursos) ==
    EmpaquetarPares(Len(recursos), [n \in DOMAIN recursos |-> recursos[n].nombre],
                                   [n \in DOMAIN recursos |-> recursos[n].instancias])

desempaquetar_recursos(paquete, cantidad) ==
    [n \in 1..list_get(paquete, cantidad) |->
        [nombre |-> list_get(paquete, cantidad + 2 * n - 1),
         instancias |-> list_get(paquete, cantidad + 2 * n)]]

\* enviar_pcb: the parameters of the motive go last.
enviar_pcb(PCB, motivo, parametros) ==
    empaquetar_pcb(PCB, motivo) \o empaquetar_recursos(PCB.recursos) \o parametros

\* recibir_pcb in the CPU, guardar_datos_del_pcb in the kernel.
recibir_pcb(paquete) ==
    [PID |-> list_get(paquete, 0), PC |-> list_get(paquete, 1), QUANTUM |-> list_get(paquete, 2),
     motivo |-> list_get(paquete, 3), estado |-> list_get(paquete, 4),
     registros |-> [r \in 1..10 |-> list_get(paquete, 4 + r)],
     recursos |-> desempaquetar_recursos(paquete, 15)]

\* Where the kernel takes the PCB to end; the parameters are read from the next field on.
fin_pcb(paquete) == list_get(paquete, 15) + 2 * list_get(paquete, 15)

-----------------------------------------------------------------------------
(* Translations: where each piece of a read or a write is.                 *)

empaquetar_traducciones(traducciones) ==
    EmpaquetarPares(Len(traducciones), [n \in DOMAIN traducciones |-> traducciones[n].direccion_fisica],
                                       [n \in DOMAIN traducciones |-> traducciones[n].bytes])

desempaquetar_traducciones(paquete, index_cantidad) ==
    [n \in 1..list_get(paquete, index_cantidad) |->
        [direccion_fisica |-> list_get(paquete, index_cantidad + 2 * n - 1),
         bytes |-> list_get(paquete, index_cantidad + 2 * n)]]

\* The request of a STDIN or a STDOUT: from the CPU to the kernel, after the resources,
\* and from the kernel to the interface.
PedidoCPU(instruccion, interfaz, tamanio, traducciones) ==
    <<instruccion, interfaz, tamanio>> \o empaquetar_traducciones(traducciones)

PedidoKernel(tamanio, traducciones) == <<tamanio>> \o empaquetar_traducciones(traducciones)

\* What atender_vuelta_dispatch takes from the package of the CPU.
RecibePedidoCPU(paquete) ==
    LET fin == fin_pcb(paquete) IN
    [instruccion |-> list_get(paquete, fin + 1), interfaz |-> list_get(paquete, fin + 2),
     tamanio |-> list_get(paquete, fin + 3),
     traducciones |-> desempaquetar_traducciones(paquete, fin + 4)]

-----------------------------------------------------------------------------
(* Requests to the memory: written by the CPU and the interfaces, read by  *)
(* the procesar_... of memoria.c.                                          *)

EscrituraMemoria(traduccion, dato) == <<traduccion.direccion_fisica, traduccion.bytes, dato>>
LecturaMemoria(traduccion) == <<traduccion.bytes, traduccion.direccion_fisica>>

procesar_escritura_en_memoria(paquete) ==
    [direccion_fisica |-> list_get(paquete, 0), bytes |-> list_get(paquete, 1)]

procesar_lectura_en_memoria(paquete) ==
    [direccion_fisica |-> list_get(paquete, 1), bytes |-> list_get(paquete, 0)]

enviar_solicitud_marco(pid, numero_pagina) == <<pid, numero_pagina>>
recv_solicitud_marco(paquete) == [pid |-> list_get(paquete, 0), numero_pagina |-> list_get(paquete, 1)]

enviar_solicitar_instruccion(pid, program_counter) == <<pid, program_counter>>
recv_solicitar_instruccion(paquete) ==
    [pid |-> list_get(paquete, 0), program_counter |-> list_get(paquete, 1)]

send_proxima_instruccion(linea) == <<linea.instruccion>> \o linea.parametros
recibir_proxima_instruccion(paquete) ==
    [instruccion |-> list_get(paquete, 0), parametros |-> [k \in 1..5 |-> list_get(paquete, k)]]

\* The PID goes first and is read second.
enviar_datos_proceso(path, pid) == <<pid, path>>
recibir_datos_del_proceso(paquete) == [path |-> list_get(paquete, 0), pid |-> list_get(paquete, 1)]
=============================================================================
