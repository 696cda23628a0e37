\* Two processes under RR, no interface; the operator kills, stops and lowers the degree.
SPECIFICATION Spec
CONSTANTS
    io1 = io1
    io2 = io2
    Interfaces = {}
    Algoritmo = "RR"
    Tipo <- SinTipos
    Retornos <- RetornosSinIO
    RespuestasIO = {1}
    PuedenCerrar = {}
    Recursos = 0
    InstanciasPrimero = 0
    Comandos <- ComandosTodos
    GradoConfig = 1
    GradosNuevos = {0}
    MultiInicial = {2}
    MemoriaContesta = TRUE
    CPURecibe = TRUE
    MaxProc = 2
    MaxVueltas = 1
    MaxOrdenes = 2
INVARIANTS
    Alternancia RespuestaDeQuienPidio
CHECK_DEADLOCK FALSE
