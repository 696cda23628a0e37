-------------------------------- MODULE Mmu --------------------------------
(***************************************************************************)
(* The MMU of cpu.c: logical addresses to frames through the TLB, and the  *)
(* pieces of an access that crosses pages. A physical address, marco *     *)
(* TAM_PAGINA + desplazamiento, is kept as that pair. TAM_PAGINA is the    *)
(* page size of the memory, which is what both of its names in cpu.c are   *)
(* meant to hold.                                                          *)
(***************************************************************************)
EXTENDS Integers, Sequences

CONSTANTS
    Pids, Marcos,
    TamPagina,      \* TAM_PAGINA, tam_pagina
    MaxTlb          \* MAX_TLB_ENTRY; 0 is no TLB

ASSUME MmuOK == TamPagina \in Nat \ {0, 1} /\ MaxTlb \in Nat

VARIABLES
    tabla,          \* page tables, in the memory
    tlb             \* translation_lookaside_buffer, the oldest entry first

\* Memoria implements it (Memoria!ImplementaPaginas).
Tablas == INSTANCE Paginas

-----------------------------------------------------------------------------
(* TLB.                                                                    *)

\* Mutant of Entradas: any entry will do.
EntradasDeCualquiera(p) == DOMAIN tlb

\* es_entrada_TLB_de_PID: an entry is looked for by its process, for any page.
Entradas(p) == {n \in DOMAIN tlb : tlb[n].pid = p}

\* list_find: the first one.
Entrada(p) == tlb[CHOOSE n \in Entradas(p) : \A k \in Entradas(p) : n <= k]

\* Mutant of ConLugar: the list is never shortened.
ConLugarSinSacar == tlb

\* verificar_tamanio_tlb, its test read as list_size / MAX_TLB_ENTRY # 1.
ConLugar == IF Len(tlb) \div MaxTlb # 1 THEN tlb ELSE Tail(tlb)

\* consultar_tlb. On a hit the list stays as it is: "LRU" is compared as a pointer, so
\* both algorithms are FIFO.
Recordada(p, pagina) == [pid |-> p, num_pag |-> pagina, marco |-> tabla[p][pagina + 1]]

\* The TLB after p asks for a page; the later pages of the same access hit what the
\* first one left.
TlbDespues(p, pagina) ==
    IF MaxTlb = 0 \/ Entradas(p) # {} THEN tlb ELSE Append(ConLugar, Recordada(p, pagina))

\* The empty TLB gets its first entry through a pointer that was never assigned.
EscribeSinAsignar == MaxTlb > 0 /\ tlb = <<>>

\* The frame MMU works with for a page of an access that starts in the page primera.
MarcoDe(p, primera, pagina) ==
    IF MaxTlb = 0 THEN tabla[p][pagina + 1]
    ELSE IF Entradas(p) # {} THEN Entrada(p).marco ELSE tabla[p][primera + 1]

-----------------------------------------------------------------------------
(* obtener_traducciones.                                                   *)

\* An int: the byte before address 0 falls in page 0.
PaginaDe(direccion) == IF direccion < 0 THEN 0 ELSE direccion \div TamPagina

Final(dir, tam) == dir + tam - 1

\* No page at all when the access is empty and starts a page.
Recorridas(dir, tam) == PaginaDe(dir)..PaginaDe(Final(dir, tam))

\* Pages whose frame is asked of the memory: all without TLB, the first on a miss.
Pedidas(p, dir, tam) ==
    IF MaxTlb = 0 THEN Recorridas(dir, tam)
    ELSE IF Entradas(p) = {} THEN Recorridas(dir, tam) \cap {PaginaDe(dir)} ELSE {}

EnTabla(p, pagina) == pagina + 1 \in DOMAIN tabla[p]

\* Mutant of Bytes: the last piece without its last byte.
BytesSinUltimo(dir, tam, pagina) ==
    CASE pagina = PaginaDe(dir) -> TamPagina - (dir % TamPagina)
      [] pagina # PaginaDe(dir) /\ pagina = PaginaDe(Final(dir, tam)) -> Final(dir, tam) % TamPagina
      [] OTHER -> TamPagina

\* Mutant of Bytes: the first piece takes the whole page.
BytesEnteros(dir, tam, pagina) ==
    CASE pagina = PaginaDe(dir) -> TamPagina
      [] pagina # PaginaDe(dir) /\ pagina = PaginaDe(Final(dir, tam)) -> (Final(dir, tam) % TamPagina) + 1
      [] OTHER -> TamPagina

\* Bytes of the piece in a page. An access inside one page takes the rest of the page,
\* whatever its size.
Bytes(dir, tam, pagina) ==
    CASE pagina = PaginaDe(dir) -> TamPagina - (dir % TamPagina)
      [] pagina # PaginaDe(dir) /\ pagina = PaginaDe(Final(dir, tam)) -> (Final(dir, tam) % TamPagina) + 1
      [] OTHER -> TamPagina

ObtenerTraducciones(p, dir, tam) ==
    LET primera == PaginaDe(dir)
        ultima == PaginaDe(Final(dir, tam))
    IN [n \in 1..(ultima - primera + 1) |->
          LET pagina == primera + n - 1 IN
          [marco |-> MarcoDe(p, primera, pagina),
           desplazamiento |-> IF n = 1 THEN dir % TamPagina ELSE 0,
           bytes |-> Bytes(dir, tam, pagina)]]
=============================================================================
