\* The same; a resize answered OK that did not give the pages.
SPECIFICATION Spec
CONSTANTS
    p1 = p1
    p2 = p2
    p3 = p3
    Nadie = Nadie
    Pids = {p1, p2, p3}
    CantMarcos = 4
    MaxPaginas = 5
    CamposAjuste = {3}
INVARIANTS
    AjusteCumplido
CHECK_DEADLOCK FALSE
