\* Three processes over four frames; the CPU resizes while the kernel ends others.
SPECIFICATION SpecJusta
CONSTANTS
    p1 = p1
    p2 = p2
    p3 = p3
    Nadie = Nadie
    Pids = {p1, p2, p3}
    CantMarcos = 4
    MaxPaginas = 5
    CamposAjuste = {2, 3}
INVARIANTS
    TypeOK MarcosExactos
PROPERTIES
    ImplementaPaginas TraduccionEstable TodoPedidoResponde
CHECK_DEADLOCK FALSE
