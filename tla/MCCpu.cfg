\* Every instruction, both op codes, every fate of the listening socket, one
\* closed connection.
CONSTANTS
    MaxDespachos = 2
    MaxInterrupciones = 2
    MaxCierres = 1
    MaxRaras = 1
    OpDespacho = {"PCBBITO", "CODE_PCB"}
    Escucha = {"llega", "pierde", "sigpipe"}
    PideInstruccion = TRUE
SPECIFICATION SpecJusta
INVARIANTS
    FichaUnica VueltasEnOrden
PROPERTIES
    CumpleElTurno TodoDespachoVuelve
CHECK_DEADLOCK FALSE
