------------------------- MODULE MCPulseController -------------------------
(* A small instance of PulseController for TLC.  The constants are numbers in *)
(* the configuration; Nothing is a model value.                               *)
EXTENDS PulseController
=============================================================================
