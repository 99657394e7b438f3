--------------------------- MODULE MCParameters ---------------------------
(* A small instance of Parameters for TLC.  Neither the text nor a widget can *)
(* tell 1 from 0.                                                             *)
EXTENDS Parameters

Three == 0 .. 2
Text  == [v \in Three |-> IF v = 1 THEN 0 ELSE v]
Round == [v \in Three |-> IF v < 2 THEN 0 ELSE v]
=============================================================================
