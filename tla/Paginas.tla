------------------------------ MODULE Paginas ------------------------------
(***************************************************************************)
(* What the CPU and the interfaces count on from the memory: each process  *)
(* has a table of frames, tables change only at their ends, and a frame    *)
(* enters a table when no other page has it. Memoria implements it bit by  *)
(* bit; Acceso is built on it.                                             *)
(***************************************************************************)
EXTENDS Naturals, Sequences

CONSTANTS
    Pids,       \* processes
    Marcos      \* frames

VARIABLE tabla      \* the frames of the pages of each process, in order

Init == tabla = [p \in Pids |-> <<>>]

Propios(p) == {tabla[p][n] : n \in DOMAIN tabla[p]}
Libres == Marcos \ UNION {Propios(p) : p \in Pids}

\* A page more, at the end, in a frame that is free.
Crece(p) == \E m \in Libres : tabla' = [tabla EXCEPT ![p] = Append(@, m)]

\* A resize gives back the last page; the end of a process, the first ones first.
Achica(p) == tabla[p] # <<>> /\ tabla' = [tabla EXCEPT ![p] = SubSeq(@, 1, Len(@) - 1)]
Suelta(p) == tabla[p] # <<>> /\ tabla' = [tabla EXCEPT ![p] = Tail(@)]

Next == \E p \in Pids : Crece(p) \/ Achica(p) \/ Suelta(p)

Spec == Init /\ [][Next]_tabla
=============================================================================
