--------------------------- MODULE PhotonCounter ---------------------------
(***************************************************************************)
(* What an experiment relies on when it reads the photomultiplier: a read  *)
(* returns the photons of the counting pulses since the previous read, as  *)
(* a word of the machine, however long ago the counter was started.        *)
(***************************************************************************)
EXTENDS Integers

CONSTANTS Modulus, Nothing

VARIABLES
    photons,    \* counted since the last read
    answer      \* what a read found and has not yet returned, or Nothing

Init == photons = 0 /\ answer = Nothing

\* Some counting pulse ends.
Count == photons' \in Nat /\ photons' >= photons /\ UNCHANGED answer

Read == answer = Nothing /\ answer' = photons % Modulus /\ photons' = 0

Return == answer # Nothing /\ answer' = Nothing /\ UNCHANGED photons

Next == Count \/ Read \/ Return

Spec == Init /\ [][Next]_<<photons, answer>>
=============================================================================
