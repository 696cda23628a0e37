\* The same with one answer less, fairness and the life cycle as a property.
SPECIFICATION SpecJusta
CONSTANTS
    io1 = io1
    io2 = io2
    Interfaces = {io1}
    Algoritmo = "FIFO"
    Tipo <- SoloGenerica
    Retornos <- RetornosBase
    RespuestasIO = {1}
    PuedenCerrar = {}
    Recursos = 0
    InstanciasPrimero = 0
    Comandos <- ComandosBase
    GradoConfig = 1
    GradosNuevos = {3}
    MultiInicial = {0}
    MemoriaContesta = TRUE
    CPURecibe = TRUE
    MaxProc = 2
    MaxVueltas = 1
    MaxOrdenes = 2
PROPERTIES
    CumpleElCiclo TodoTermina
INVARIANTS
    SinCaida
CHECK_DEADLOCK FALSE
