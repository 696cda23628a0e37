\* Two processes under RR, with fairness: a quantum timer ends while one runs.
SPECIFICATION SpecJusta
CONSTANTS
    io1 = io1
    io2 = io2
    Interfaces = {}
    Algoritmo = "RR"
    Tipo <- SinTipos
    Retornos <- RetornosPlanos
    RespuestasIO = {1}
    PuedenCerrar = {}
    Recursos = 0
    InstanciasPrimero = 0
    Comandos <- ComandosMinimos
    GradoConfig = 1
    GradosNuevos = {}
    MultiInicial = {2}
    MemoriaContesta = TRUE
    CPURecibe = TRUE
    MaxProc = 2
    MaxVueltas = 1
    MaxOrdenes = 2
PROPERTIES
    TodoTermina
CHECK_DEADLOCK FALSE
