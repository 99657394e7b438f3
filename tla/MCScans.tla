------------------------------ MODULE MCScans ------------------------------
(* A small instance of Scans for TLC: two points, one of them a value the     *)
(* user may enter.                                                            *)
EXTENDS Scans

TwoPoints == [i \in 0 .. 1 |-> i + 2]
=============================================================================
