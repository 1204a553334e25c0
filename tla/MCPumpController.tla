-------------------------- MODULE MCPumpController --------------------------
(* The controller core on small sets of commands. *)
EXTENDS PumpController

ProgramStop == <<"program", "stop">>
Evicting == <<"start", "frequency", "stop", "start">>
StartTwoPrograms == <<"start", "program", "program">>
OneStep == [c \in Commands |-> 1]
TwoSteps == [c \in Commands |-> 2]
=============================================================================
