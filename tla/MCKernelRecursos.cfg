\* Three processes ask for the first resource and give it back.
SPECIFICATION Spec
CONSTANTS
    io1 = io1
    io2 = io2
    Interfaces = {}
    Algoritmo = "VRR"
    Tipo <- SinTipos
    Retornos <- RetornosRecursos
    RespuestasIO = {1}
    PuedenCerrar = {}
    Recursos = 1
    InstanciasPrimero = 0
    Comandos <- ComandosMinimos
    GradoConfig = 1
    GradosNuevos = {3}
    MultiInicial = {3}
    MemoriaContesta = TRUE
    CPURecibe = TRUE
    MaxProc = 3
    MaxVueltas = 2
    MaxOrdenes = 1
CONSTRAINT CargaPrimero
INVARIANTS
    UnSoloLugar
CHECK_DEADLOCK FALSE
