\* Two processes; both interfaces refuse, leave and are asked what they do not do.
SPECIFICATION Spec
CONSTANTS
    io1 = io1
    io2 = io2
    Interfaces = {io1, io2}
    Algoritmo = "FIFO"
    Tipo <- GenericaYSTDIN
    Retornos <- RetornosHostiles
    RespuestasIO = {0, 1}
    PuedenCerrar = {io1, io2}
    Recursos = 0
    InstanciasPrimero = 0
    Comandos <- ComandosMinimos
    GradoConfig = 1
    GradosNuevos = {3}
    MultiInicial = {2}
    MemoriaContesta = TRUE
    CPURecibe = TRUE
    MaxProc = 2
    MaxVueltas = 2
    MaxOrdenes = 1
CONSTRAINT CargaPrimero
INVARIANTS
    NuncaDoble PedidosRespaldados
CHECK_DEADLOCK FALSE
