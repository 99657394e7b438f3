----------------------------- MODULE MCHostLink -----------------------------
(* A small instance of HostLink for TLC: the GUI thread and the scheduler thread. *)
EXTENDS HostLink

CONSTANTS gui, scheduler, shutter, other

TwoThreads == {gui, scheduler}
OneScanner == {scheduler}
Outputs    == {shutter, other}
\* The ovens switch the shutter, the user the other output.
SwitchedBy == [c \in Client |-> IF c = gui THEN {other} ELSE {shutter}]
=============================================================================
