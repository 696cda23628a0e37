------------------------------ MODULE MCKernel ------------------------------
(***************************************************************************)
(* Values for the constants of Kernel in its TLC runs.                     *)
(***************************************************************************)
EXTENDS Kernel, TLC

CONSTANTS io1, io2

Responde(m) == [motivo |-> m, interfaz |-> SinInterfaz, acepta |-> TRUE]
PideIO(m, i, b) == [motivo |-> m, interfaz |-> i, acepta |-> b]

\* The CPU ends the process, preempts it or asks io1 to sleep, well or badly.
RetornosBase == {Responde("EXITO"), Responde("FIN_QUANTUM"),
                 PideIO("SOLICITAR_INTERFAZ_GENERICA", io1, TRUE),
                 PideIO("SOLICITAR_INTERFAZ_GENERICA", io1, FALSE)}
RetornosDosIO == {Responde("EXITO"), Responde("FIN_QUANTUM"),
                  PideIO("SOLICITAR_INTERFAZ_GENERICA", io1, TRUE),
                  PideIO("SOLICITAR_STDIN", io2, TRUE)}
SoloGenerica == (io1 :> "GENERICA")
\* Bound: the operator starts every process first, as a script does, then the planning.
CargaPrimero == esta_planificando => generador_pid = MaxProc + 1 /\ pc["consola"] = "lee"

ComandosMinimos == {"INICIAR_PROCESO", "INICIAR_PLANIFICACION"}
ComandosMatar == ComandosMinimos \cup {"FINALIZAR_PROCESO"}
ComandosBase == {"INICIAR_PROCESO", "INICIAR_PLANIFICACION", "MULTIPROGRAMACION"}

\* It asks a wrong interface, or for a resource when there is none.
RetornosHostiles == {Responde("EXITO"), Responde("SOLICITAR_WAIT"),
                     PideIO("SOLICITAR_INTERFAZ_GENERICA", io1, TRUE),
                     PideIO("SOLICITAR_STDIN", io2, TRUE),
                     PideIO("SOLICITAR_STDIN", io1, TRUE)}
GenericaYSTDIN == (io1 :> "GENERICA" @@ io2 :> "STDIN")
ComandosTodos == {"INICIAR_PROCESO", "FINALIZAR_PROCESO", "INICIAR_PLANIFICACION",
                  "DETENER_PLANIFICACION", "MULTIPROGRAMACION"}

SinTipos == [i \in {} |-> "GENERICA"]

\* The CPU ends the process, preempts it or finds an instruction it does not know.
RetornosPlanos == {Responde("EXITO"), Responde("FIN_QUANTUM")}
RetornosSinIO == RetornosPlanos \cup {Responde("EXIT_CONSOLA")}

\* The process asks for the resource and gives it back.
RetornosRecursos == {Responde("EXITO"), Responde("SOLICITAR_WAIT"), Responde("SOLICITAR_SIGNAL")}
=============================================================================
