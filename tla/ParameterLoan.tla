--------------------------- MODULE ParameterLoan ---------------------------
(***************************************************************************)
(* What ScanSource.h promises about a parameter that experiments scan:     *)
(* "some housekeeping is done so that the state can be returned to         *)
(* 'normal' when this experiment is over or on hold".  An experiment       *)
(* borrows the parameter; while it is lent anybody may see any value, but  *)
(* the normal one is kept, and is there again when it is returned.         *)
(*                                                                         *)
(* The program does not keep the promise entirely.  Where it does not is   *)
(* part of this module: clashed and writing.                               *)
(***************************************************************************)
CONSTANT Values
VARIABLES
    value,    \* the value of the parameter
    normal,   \* the value it has when no experiment scans it
    told,     \* what somebody who asks for the normal value is told
    lent,     \* to whom it is lent: "nobody", a "scan" or a "servo"
    writing,  \* the borrower is about to write the parameter
    clashed   \* there are two notes of the normal value, and they differ

vars == <<value, normal, told, lent, writing, clashed>>

\* Who asks is told the normal value.  While the parameter is written it may be the value
\* at hand.
Honest(v, n, t, w) == t = n \/ (w /\ t = v)

Init ==
    /\ value \in Values /\ normal = value /\ told = normal
    /\ lent = "nobody" /\ writing = FALSE /\ clashed = FALSE

\* The user changes the parameter.  The change may clash with another note of the normal
\* value; a change of a lent parameter may be overwritten, and so may any change after a
\* clash.
Edit(v) ==
    /\ value' = v
    /\ \/ normal' = v /\ clashed' \in {clashed, TRUE}
       \/ (lent # "nobody" \/ clashed) /\ UNCHANGED <<normal, clashed>>
    /\ UNCHANGED <<lent, writing>>

Lend(k) == lent = "nobody" /\ lent' = k /\ UNCHANGED <<value, normal, clashed>>

\* The borrower announces a write, and does it.
Announce ==
    lent # "nobody" /\ ~writing /\ writing' /\ UNCHANGED <<value, normal, lent, clashed>>
Write ==
    writing /\ ~writing' /\ value' \in Values /\ UNCHANGED <<normal, lent, clashed>>

\* A servo has found a better normal value, which clashes with the note of another one.
Shift ==
    /\ lent = "servo" /\ ~writing /\ writing'
    /\ normal' \in Values /\ clashed' \in {clashed, TRUE}
    /\ UNCHANGED <<value, lent>>

\* The parameter is returned.  Without a clash it has its normal value.
Return ==
    /\ lent # "nobody" /\ lent' = "nobody" /\ ~writing /\ ~writing'
    /\ clashed' \in {clashed, FALSE}
    /\ value = normal \/ clashed'
    /\ UNCHANGED <<value, normal>>

Next ==
    /\ \/ \E k \in {"scan", "servo"} : Lend(k)
       \/ Announce \/ Write \/ Shift \/ Return
       \/ \E v \in Values : Edit(v)
    /\ Honest(value', normal', told', writing')

Spec == Init /\ [][Next]_vars
=============================================================================
