\* Two processes over two frames of two bytes, a TLB of one entry, a STDIN and a STDOUT.
SPECIFICATION SpecJusta
CONSTANTS
    p1 = p1
    p2 = p2
    m1 = m1
    m2 = m2
    teclado = teclado
    pantalla = pantalla
    Nadie = Nadie
    Pids = {p1, p2}
    Marcos = {m1, m2}
    TamPagina = 2
    MaxTlb = 1
    Interfaces = {teclado, pantalla}
    TipoInterfaz <- UnaDeCada
    SaleSiConecta = FALSE
    PuedenCerrar = {teclado}
    Direcciones = {1}
    Tamanios = {3}
    MaxPedidos = 2
CONSTRAINT Cotas
SYMMETRY Simetria
INVARIANTS
    TypeOK PiezasPropias TlbAcotada BytesEnOrden PedidoUnico
PROPERTIES
    TodoPedidoAvisa
CHECK_DEADLOCK FALSE
