\* Two processes under VRR, a GENERICA and a STDIN interface that stay.
SPECIFICATION Spec
CONSTANTS
    io1 = io1
    io2 = io2
    Interfaces = {io1, io2}
    Algoritmo = "VRR"
    Tipo <- GenericaYSTDIN
    Retornos <- RetornosDosIO
    RespuestasIO = {1}
    PuedenCerrar = {}
    Recursos = 0
    InstanciasPrimero = 0
    Comandos <- ComandosMinimos
    GradoConfig = 1
    GradosNuevos = {3}
    MultiInicial = {2}
    MemoriaContesta = TRUE
    CPURecibe = TRUE
    MaxProc = 2
    MaxVueltas = 1
    MaxOrdenes = 1
CONSTRAINT CargaPrimero
INVARIANTS
    Tipado Alternancia UnSoloLugar CuposExactos
CHECK_DEADLOCK FALSE
