\* Two pages, and an access that crosses from one to the other.
SPECIFICATION Spec
CONSTANTS
    p1 = p1
    p2 = p2
    m1 = m1
    m2 = m2
    teclado = teclado
    pantalla = pantalla
    Nadie = Nadie
    Pids = {p1, p2}
    Marcos = {m1, m2}
    TamPagina = 2
    MaxTlb = 1
    Interfaces = {teclado, pantalla}
    TipoInterfaz <- UnaDeCada
    SaleSiConecta = FALSE
    PuedenCerrar = {}
    Direcciones = {0, 1}
    Tamanios = {3}
    MaxPedidos = 1
INVARIANTS
    TraduccionFiel
CHECK_DEADLOCK FALSE
