--------------------------- MODULE MCCalibrations ---------------------------
(* A small instance of Calibrations for TLC: each page has two items. *)
EXTENDS Calibrations, TLC

CONSTANTS x1, x2, y1, y2

TwoEach == Trans :> <<x1, x2>> @@ Align :> <<y1, y2>>
=============================================================================
