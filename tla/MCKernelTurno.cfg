\* Two processes; the first one asks for a resource that is free.
SPECIFICATION Spec
CONSTANTS
    io1 = io1
    io2 = io2
    Interfaces = {}
    Algoritmo = "FIFO"
    Tipo <- SinTipos
    Retornos <- RetornosRecursos
    RespuestasIO = {1}
    PuedenCerrar = {}
    Recursos = 1
    InstanciasPrimero = 1
    Comandos <- ComandosMinimos
    GradoConfig = 1
    GradosNuevos = {3}
    MultiInicial = {2}
    MemoriaContesta = TRUE
    CPURecibe = TRUE
    MaxProc = 2
    MaxVueltas = 1
    MaxOrdenes = 1
INVARIANTS
    Alternancia
CHECK_DEADLOCK FALSE
