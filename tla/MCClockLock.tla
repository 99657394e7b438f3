---------------------------- MODULE MCClockLock ----------------------------
(* A small instance of ClockLock for TLC: a lock, a scan of the opposite     *)
(* Zeeman state and an experiment that only prepares the ions.               *)
EXTENDS ClockLock

CONSTANTS plus, scan, sigma

ZeemanState == [e \in {plus, scan, sigma} |-> IF e = plus THEN 5 ELSE -5]
=============================================================================
